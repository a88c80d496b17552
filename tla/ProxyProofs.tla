----------------------------- MODULE ProxyProofs -----------------------------
(***************************************************************************)
(* Proofs about the proxy, for any finite number of peers and any amount   *)
(* of channel data and of reconnects: what two threads of a session share  *)
(* is not freed under the client's, the server is not freed under a        *)
(* session unless ArrayList_Append has raced with a removal, a failed      *)
(* connect that is to be retried leaves the peer alone, and channel data   *)
(* is forwarded in order.                                                  *)
(***************************************************************************)
EXTENDS Proxy, FiniteSetTheorems, TLAPS

-----------------------------------------------------------------------------
(***************************************************************************)
(* The session.                                                            *)
(***************************************************************************)

(* The steps of a session. *)
SessionSteps ==
    \/ Session!FrontStep \/ Session!BackStep \/ Session!ReceiveChannelData
    \/ Session!PeerLeaves \/ Session!TargetLost \/ Session!Redirect

(* The bounds. *)
LEMMA Bounds == MaxData \in Nat /\ MaxReconnects \in Nat /\ MaxEvents \in Nat /\ One \in Peers
  BY ProxyAssumption, ProxySessionAssumption DEF Session!SessionAssumption

(* The threads of a session go from place to place. *)
LEMMA SessionPlaces ==
    ASSUME Session!SessionInv, SessionSteps
    PROVE  Session!PlacesOK'
<1>1. Session!PlacesOK
  BY DEF Session!SessionInv, Session!SessionTypeOK
<1> USE DEF Session!PlacesOK, Session!FrontPcs, Session!BackPcs, Session!FrontGoes,
            Session!BackGoes, Session!FrontOnly, Session!peer, Session!state, Session!library,
            Session!data, Session!AbortOwn, Session!ConnectAnew, Session!ErrorIfNot
<1>2. CASE Session!FrontStep
  BY <1>1, <1>2 DEF Session!FrontStep, Session!PostConnect, Session!InitializeFails,
     Session!PostConnectFails, Session!SeesAbort, Session!AbortSession, Session!AbortError,
     Session!SendUltimatum, Session!AbortLibrary, Session!Join, Session!Free
<1>3. CASE Session!ReceiveChannelData \/ Session!PeerLeaves \/ Session!TargetLost
           \/ Session!Redirect
  BY <1>1, <1>3, Bounds DEF Session!ReceiveChannelData, Session!PeerLeaves, Session!TargetLost,
     Session!Redirect
<1>4. CASE Session!BackStep
  <2>1. CASE Session!Reconnect
    BY <1>1, <2>1, Bounds DEF Session!Reconnect
  <2>2. CASE ~Session!Reconnect
    BY <1>1, <1>4, <2>2
       DEF Session!BackStep, Session!InitHookFails, Session!ConnectBegins, Session!Connects,
           Session!ReactivateFails, Session!ConnectFails, Session!ResetDone, Session!Clear,
           Session!Redirected, Session!Disconnect, Session!PostDisconnect,
           Session!LoginFailureHookRefuses, Session!ConnectWithoutNla, Session!GiveUp,
           Session!LoopOnQueue, Session!LoopEnds, Session!ClientStop,
           Session!PostConnectSends, Session!SendQueued, Session!QueueSent, Session!Sent
  <2> QED
    BY <2>1, <2>2
<1> QED
  BY <1>2, <1>3, <1>4 DEF SessionSteps

(* The flags stay flags. *)
LEMMA SessionFlags ==
    ASSUME Session!SessionInv, SessionSteps
    PROVE  Session!FlagsOK'
<1>1. Session!FlagsOK
  BY DEF Session!SessionInv, Session!SessionTypeOK
<1> USE DEF Session!FlagsOK, Session!FrontGoes, Session!BackGoes, Session!FrontOnly,
            Session!peer, Session!state, Session!library, Session!data, Session!AbortOwn,
            Session!ConnectAnew
<1>2. CASE Session!FrontStep
  <2>1. CASE Session!PostConnect \/ Session!AbortSession \/ Session!AbortError
    BY <1>1, <2>1 DEF Session!PostConnect, Session!AbortSession, Session!AbortError
  <2>2. CASE Session!AbortLibrary \/ Session!Free
    BY <1>1, <2>2 DEF Session!AbortLibrary, Session!Free
  <2>3. CASE Session!InitializeFails \/ Session!PostConnectFails \/ Session!SeesAbort
             \/ Session!SendUltimatum \/ Session!Join
    BY <1>1, <2>3 DEF Session!InitializeFails, Session!PostConnectFails, Session!SeesAbort,
       Session!SendUltimatum, Session!Join
  <2> QED
    BY <1>2, <2>1, <2>2, <2>3 DEF Session!FrontStep
<1>3. CASE Session!PeerLeaves \/ Session!TargetLost \/ Session!Redirect
  BY <1>1, <1>3 DEF Session!PeerLeaves, Session!TargetLost, Session!Redirect
<1>4. CASE Session!ReceiveChannelData
  <2>1. qEvent' = (qEvent \/ queue = <<>>)
    BY <1>4 DEF Session!ReceiveChannelData
  <2>2. qEvent' \in BOOLEAN
    BY <2>1, Zenon
  <2> QED
    BY <1>1, <1>4, <2>2 DEF Session!ReceiveChannelData
<1>5. CASE Session!SendQueued
  <2>1. qEvent' = (qEvent /\ queue' # <<>>)
    BY <1>5 DEF Session!SendQueued
  <2>2. qEvent' \in BOOLEAN
    BY <2>1, Zenon
  <2> QED
    BY <1>1, <1>5, <2>2 DEF Session!SendQueued
<1>6. CASE Session!PostConnectSends \/ Session!QueueSent \/ Session!Connects
           \/ Session!ReactivateFails \/ Session!Redirected \/ Session!LoopOnQueue
  BY <1>1, <1>6 DEF Session!PostConnectSends, Session!QueueSent, Session!Connects,
     Session!ReactivateFails, Session!Redirected, Session!LoopOnQueue
<1>7. CASE Session!BackStep /\ ~(\/ Session!PostConnectSends \/ Session!SendQueued
                                 \/ Session!QueueSent \/ Session!Connects
                                 \/ Session!ReactivateFails \/ Session!Redirected
                                 \/ Session!LoopOnQueue)
  BY <1>1, <1>7
     DEF Session!BackStep, Session!InitHookFails, Session!ConnectBegins,
         Session!ConnectFails, Session!Reconnect, Session!ResetDone, Session!Clear,
         Session!Disconnect, Session!PostDisconnect, Session!LoginFailureHookRefuses,
         Session!ConnectWithoutNla, Session!GiveUp, Session!LoopEnds, Session!ClientStop
<1> QED
  BY <1>2, <1>3, <1>4, <1>5, <1>6, <1>7 DEF SessionSteps

(* Channel data changes where a message comes in or is taken out of the   *)
(* queue.                                                                  *)
LEMMA DataSteps ==
    ASSUME SessionSteps
    PROVE  \/ UNCHANGED <<queue, received, unmapped, forwarded, lost>>
           \/ /\ Len(received) + 1 <= MaxData
              /\ received' = Append(received, Len(received) + 1)
              /\ unmapped' \in {unmapped, unmapped \cup {Len(received) + 1}}
              /\ queue' = Append(queue, Len(received) + 1)
              /\ UNCHANGED <<forwarded, lost>>
           \/ Session!SendQueued
<1>1. CASE Session!BackStep /\ ~Session!SendQueued
  BY <1>1 DEF Session!BackStep, Session!InitHookFails, Session!ConnectBegins, Session!Connects,
     Session!ReactivateFails, Session!ConnectFails, Session!Reconnect, Session!ResetDone,
     Session!Clear, Session!Redirected, Session!Disconnect, Session!PostDisconnect,
     Session!LoginFailureHookRefuses, Session!ConnectWithoutNla, Session!GiveUp,
     Session!LoopOnQueue, Session!LoopEnds, Session!ClientStop, Session!PostConnectSends,
     Session!QueueSent, Session!data
<1>2. CASE Session!FrontStep
  BY <1>2 DEF Session!FrontStep, Session!PostConnect, Session!InitializeFails,
     Session!PostConnectFails, Session!SeesAbort, Session!AbortSession, Session!AbortError,
     Session!SendUltimatum, Session!AbortLibrary, Session!Join, Session!Free, Session!FrontOnly,
     Session!data
<1>3. CASE Session!ReceiveChannelData
  BY <1>3 DEF Session!ReceiveChannelData
<1>4. CASE Session!PeerLeaves \/ Session!TargetLost \/ Session!Redirect
  BY <1>4 DEF Session!PeerLeaves, Session!TargetLost, Session!Redirect, Session!FrontOnly,
     Session!data
<1> QED
  BY <1>1, <1>2, <1>3, <1>4 DEF SessionSteps

(* The first of a queue q moves to the end of f, or is dropped: f and q    *)
(* taken together stay as they are, or lose the item at its place.         *)
LEMMA TakeFirst ==
    ASSUME NEW T, NEW f \in Seq(T), NEW q \in Seq(T), q # <<>>
    PROVE  LET kept == f \o q
               k == Len(f) + 1
               moved == Append(f, Head(q)) \o Tail(q)
               cut == f \o Tail(q)
           IN  /\ Head(q) \in T /\ Tail(q) \in Seq(T) /\ Append(f, Head(q)) \in Seq(T)
               /\ k \in 1 .. Len(kept) /\ kept[k] = Head(q)
               /\ Len(moved) = Len(kept) /\ \A i \in 1 .. Len(kept) : moved[i] = kept[i]
               /\ Len(cut) = Len(kept) - 1
               /\ \A i \in 1 .. Len(cut) : cut[i] = IF i < k THEN kept[i] ELSE kept[i + 1]
<1> DEFINE a == Append(f, Head(q))
           b == Tail(q)
           lf == Len(f)
           lq == Len(q)
<1>1. /\ lf \in Nat /\ lq \in Nat /\ lq >= 1 /\ Head(q) = q[1]
      /\ b \in Seq(T) /\ Len(b) = lq - 1 /\ \A i \in 1 .. lq - 1 : b[i] = q[i + 1]
  OBVIOUS
<1>2. q[1] \in T
  BY <1>1
<1>3. /\ a \in Seq(T) /\ Len(a) = lf + 1 /\ a[lf + 1] = q[1]
      /\ \A i \in 1 .. lf : a[i] = f[i]
  BY <1>1, <1>2
<1> HIDE DEF a, b
<1>4. /\ Len(f \o q) = lf + lq
      /\ \A i \in 1 .. (lf + lq) : (f \o q)[i] = IF i <= lf THEN f[i] ELSE q[i - lf]
  BY <1>1
<1>5. /\ Len(a \o b) = Len(a) + Len(b)
      /\ \A i \in 1 .. (Len(a) + Len(b)) :
             (a \o b)[i] = IF i <= Len(a) THEN a[i] ELSE b[i - Len(a)]
  <2>1. a \in Seq(T) /\ b \in Seq(T)
    BY <1>1, <1>3
  <2> QED
    BY <2>1
<1>6. /\ Len(f \o b) = lf + Len(b)
      /\ \A i \in 1 .. (lf + Len(b)) : (f \o b)[i] = IF i <= lf THEN f[i] ELSE b[i - lf]
  <2>1. b \in Seq(T)
    BY <1>1
  <2> QED
    BY <2>1
<1> DEFINE kept == f \o q
           moved == a \o b
           cut == f \o b
<1>7. /\ Len(kept) = lf + lq /\ Len(moved) = lf + lq /\ Len(cut) = lf + lq - 1
      /\ \A i \in 1 .. (lf + lq) : kept[i] = IF i <= lf THEN f[i] ELSE q[i - lf]
      /\ \A i \in 1 .. (lf + lq) : moved[i] = IF i <= lf + 1 THEN a[i] ELSE b[i - (lf + 1)]
      /\ \A i \in 1 .. (lf + lq - 1) : cut[i] = IF i <= lf THEN f[i] ELSE b[i - lf]
  <2> HIDE DEF lf, lq
  <2>1. lf + Len(b) = lf + lq - 1 /\ Len(a) = lf + 1 /\ Len(a) + Len(b) = lf + lq
    BY <1>1, <1>3
  <2> QED
    BY <1>4, <1>5, <1>6, <2>1
<1> HIDE DEF kept, moved, cut, lf, lq
<1>8. lf + 1 \in 1 .. Len(kept) /\ kept[lf + 1] = q[1]
  <2>1. lf + 1 \in 1 .. (lf + lq) /\ ~(lf + 1 <= lf) /\ (lf + 1) - lf = 1
    BY <1>1
  <2>2. kept[lf + 1] = q[(lf + 1) - lf]
    <3>1. \A i \in 1 .. (lf + lq) : kept[i] = IF i <= lf THEN f[i] ELSE q[i - lf]
      BY <1>7
    <3> QED
      BY <2>1, <3>1
  <2>3. Len(kept) = lf + lq
    BY <1>7
  <2> QED
    BY <2>1, <2>2, <2>3
<1>9. ASSUME NEW i \in 1 .. Len(kept) PROVE moved[i] = kept[i]
  <2>0. i \in 1 .. (lf + lq) /\ i \in Nat
    BY <1>7
  <2>1. CASE i <= lf
    BY <1>1, <1>3, <1>7, <2>0, <2>1
  <2>2. CASE i = lf + 1
    BY <1>1, <1>3, <1>7, <1>8, <2>0, <2>2
  <2>3. CASE i > lf + 1
    <3>1. i - (lf + 1) \in 1 .. lq - 1 /\ (i - (lf + 1)) + 1 = i - lf
      BY <1>1, <2>0, <2>3
    <3>2. moved[i] = b[i - (lf + 1)] /\ kept[i] = q[i - lf]
      BY <1>1, <1>7, <2>0, <2>3
    <3> QED
      BY <1>1, <3>1, <3>2
  <2> QED
    BY <1>1, <2>0, <2>1, <2>2, <2>3
<1>10. ASSUME NEW i \in 1 .. Len(cut)
       PROVE  cut[i] = IF i < lf + 1 THEN kept[i] ELSE kept[i + 1]
  <2>0. i \in 1 .. (lf + lq - 1) /\ i \in Nat /\ i \in 1 .. (lf + lq)
        /\ i + 1 \in 1 .. (lf + lq)
    BY <1>1, <1>7
  <2>1. CASE i <= lf
    <3>1. i < lf + 1
      BY <1>1, <2>0, <2>1
    <3>2. cut[i] = f[i] /\ kept[i] = f[i]
      BY <1>7, <2>0, <2>1
    <3> QED
      BY <3>1, <3>2
  <2>2. CASE i > lf
    <3>1. i - lf \in 1 .. lq - 1 /\ (i - lf) + 1 = (i + 1) - lf
          /\ ~(i <= lf) /\ ~(i + 1 <= lf) /\ ~(i < lf + 1)
      BY <1>1, <2>0, <2>2
    <3>2. cut[i] = b[i - lf] /\ kept[i + 1] = q[(i + 1) - lf]
      BY <1>7, <2>0, <3>1
    <3> QED
      BY <1>1, <3>1, <3>2
  <2> QED
    BY <1>1, <2>0, <2>1, <2>2
<1>11. Head(q) \in T /\ b \in Seq(T) /\ a \in Seq(T) /\ Head(q) = q[1]
       /\ Len(moved) = Len(kept) /\ Len(cut) = Len(kept) - 1
  BY <1>1, <1>2, <1>3, <1>7
<1> QED
  BY <1>8, <1>9, <1>10, <1>11 DEF kept, moved, cut, a, b, lf

(* A step of sendQueuedChannelData sends the first message or drops it. *)
LEMMA SendCases ==
    ASSUME Session!SendQueued
    PROVE  /\ queue # <<>> /\ queue' = Tail(queue) /\ UNCHANGED <<received, unmapped>>
           /\ \/ /\ forwarded' = Append(forwarded, Head(queue)) /\ lost' = lost
                 /\ Head(queue) \notin unmapped
              \/ /\ forwarded' = forwarded /\ lost' = lost /\ Head(queue) \in unmapped
              \/ /\ forwarded' = forwarded /\ lost' = lost \cup {Head(queue)}
                 /\ Head(queue) \notin unmapped
  BY DEF Session!SendQueued

(* An item of a sequence is of the items' type. *)
LEMMA ItemOf ==
    ASSUME NEW T, NEW s \in Seq(T), NEW i \in 1 .. Len(s)
    PROVE  s[i] \in T
  OBVIOUS

(* The data of a session. *)
LEMMA SessionData ==
    ASSUME Session!SessionInv, SessionSteps
    PROVE  Session!DataOK'
<1>1. /\ received \in Seq(1 .. MaxData) /\ queue \in Seq(1 .. MaxData)
      /\ forwarded \in Seq(1 .. MaxData) /\ lost \subseteq 1 .. MaxData
      /\ unmapped \subseteq 1 .. MaxData
  BY DEF Session!SessionInv, Session!SessionTypeOK, Session!DataOK
<1>2. CASE UNCHANGED <<queue, received, unmapped, forwarded, lost>>
  BY <1>1, <1>2 DEF Session!DataOK
<1>3. CASE /\ Len(received) + 1 <= MaxData
           /\ received' = Append(received, Len(received) + 1)
           /\ unmapped' \in {unmapped, unmapped \cup {Len(received) + 1}}
           /\ queue' = Append(queue, Len(received) + 1)
           /\ UNCHANGED <<forwarded, lost>>
  <2>1. Len(received) + 1 \in 1 .. MaxData
    BY <1>1, <1>3, Bounds
  <2>2. unmapped' \subseteq 1 .. MaxData
    BY <1>1, <1>3, <2>1
  <2> QED
    BY <1>1, <1>3, <2>1, <2>2 DEF Session!DataOK
<1>4. CASE Session!SendQueued
  <2>1. queue # <<>>
    BY <1>4, SendCases
  <2>2. /\ Head(queue) \in 1 .. MaxData /\ Tail(queue) \in Seq(1 .. MaxData)
        /\ Append(forwarded, Head(queue)) \in Seq(1 .. MaxData)
    BY <1>1, <2>1, TakeFirst
  <2>3. queue' \in Seq(1 .. MaxData) /\ forwarded' \in Seq(1 .. MaxData)
        /\ received' = received /\ unmapped' = unmapped /\ lost' \subseteq 1 .. MaxData
    BY <1>1, <1>4, <2>2, SendCases
  <2> QED
    BY <1>1, <2>3 DEF Session!DataOK
<1> QED
  BY <1>2, <1>3, <1>4, DataSteps

(* Channel data stays in order, and of a channel that the target has       *)
(* nothing is lost but what the library could not send.                    *)
LEMMA OrderStep ==
    ASSUME Session!SessionInv, ForwardedInOrder, SessionSteps
    PROVE  ForwardedInOrder'
<1> DEFINE kept == forwarded \o queue
           next == forwarded' \o queue'
           r == Len(received)
           gone == lost \cup unmapped
<1>1. /\ received \in Seq(1 .. MaxData) /\ queue \in Seq(1 .. MaxData)
      /\ forwarded \in Seq(1 .. MaxData) /\ lost \subseteq 1 .. MaxData
  BY DEF Session!SessionInv, Session!SessionTypeOK, Session!DataOK
<1>2. /\ \A i, j \in DOMAIN kept : i < j => kept[i] < kept[j]
      /\ {kept[i] : i \in DOMAIN kept} \cup lost \cup unmapped = 1 .. r
      /\ {kept[i] : i \in DOMAIN kept} \cap lost = {}
      /\ unmapped \cap lost = {}
      /\ \A i \in DOMAIN forwarded : forwarded[i] \notin unmapped
  BY DEF ForwardedInOrder, Session!ForwardedInOrder
<1>3. kept \in Seq(1 .. MaxData) /\ DOMAIN kept = 1 .. Len(kept) /\ Len(kept) \in Nat
      /\ r \in Nat
  BY <1>1
<1>4. ASSUME /\ \A i, j \in DOMAIN next : i < j => next[i] < next[j]
             /\ {next[i] : i \in DOMAIN next} \cup lost' \cup unmapped' = 1 .. Len(received')
             /\ {next[i] : i \in DOMAIN next} \cap lost' = {}
             /\ unmapped' \cap lost' = {}
             /\ \A i \in DOMAIN forwarded' : forwarded'[i] \notin unmapped'
      PROVE  ForwardedInOrder'
  BY <1>4 DEF ForwardedInOrder, Session!ForwardedInOrder
<1>5. CASE UNCHANGED <<queue, received, unmapped, forwarded, lost>>
  <2>1. next = kept
    BY <1>5
  <2> QED
    BY <1>2, <1>4, <1>5, <2>1
<1>6. \A i \in 1 .. Len(kept) : kept[i] \in 1 .. r /\ kept[i] \notin lost
  BY <1>2, <1>3
<1>7. /\ lost \subseteq 1 .. r /\ unmapped \subseteq 1 .. r
      /\ \A x \in 1 .. r : x \in gone \/ \E i \in 1 .. Len(kept) : kept[i] = x
  BY <1>2, <1>3
<1>8. CASE /\ Len(received) + 1 <= MaxData
           /\ received' = Append(received, Len(received) + 1)
           /\ unmapped' \in {unmapped, unmapped \cup {Len(received) + 1}}
           /\ queue' = Append(queue, Len(received) + 1)
           /\ UNCHANGED <<forwarded, lost>>
  <2>1. r + 1 \in 1 .. MaxData
    BY <1>3, <1>8, Bounds
  <2>2. Len(received') = r + 1
    BY <1>1, <1>8, <2>1
  <2>3. /\ DOMAIN next = 1 .. (Len(kept) + 1)
        /\ \A i \in 1 .. Len(kept) : next[i] = kept[i]
        /\ next[Len(kept) + 1] = r + 1
    BY <1>1, <1>8, <2>1
  <2>f. \A i \in DOMAIN forwarded : i \in 1 .. Len(kept) /\ kept[i] = forwarded[i]
    BY <1>1
  <2>u. /\ unmapped \subseteq unmapped' /\ unmapped' \subseteq unmapped \cup {r + 1}
        /\ UNCHANGED <<forwarded, lost>>
    BY <1>8
  <2> HIDE DEF kept, next, r
  <2>r. r + 1 \in 1 .. r + 1 /\ r + 1 \notin 1 .. r /\ 1 .. r \subseteq 1 .. r + 1
    BY <1>3
  <2>4. ASSUME NEW i \in DOMAIN next, NEW j \in DOMAIN next, i < j PROVE next[i] < next[j]
    <3>1. i \in 1 .. Len(kept)
      BY <1>3, <2>3, <2>4
    <3>2. CASE j \in 1 .. Len(kept)
      BY <1>2, <1>3, <2>3, <2>4, <3>1, <3>2
    <3>3. CASE j = Len(kept) + 1
      BY <1>3, <1>6, <2>3, <3>1, <3>3
    <3> QED
      BY <1>3, <2>3, <3>2, <3>3
  <2>5. \A x \in 1 .. r + 1 : x \in gone \/ \E i \in DOMAIN next : next[i] = x
    <3> SUFFICES ASSUME NEW x \in 1 .. r + 1, x \notin gone
                 PROVE  \E i \in DOMAIN next : next[i] = x
      OBVIOUS
    <3>1. CASE x = r + 1
      BY <1>3, <2>3, <3>1
    <3>2. CASE x # r + 1
      <4>1. x \in 1 .. r
        BY <1>3, <3>2
      <4>2. PICK i \in 1 .. Len(kept) : kept[i] = x
        BY <1>7, <4>1
      <4> QED
        BY <1>3, <2>3, <4>2
    <3> QED
      BY <3>1, <3>2
  <2>6. \A i \in DOMAIN next : next[i] \in 1 .. r + 1 /\ next[i] \notin lost
    <3>2. \A i \in DOMAIN next : i \in 1 .. Len(kept) \/ i = Len(kept) + 1
      BY <1>3, <2>3
    <3> QED
      BY <1>6, <1>7, <2>3, <2>r, <3>2
  <2>7. lost \subseteq 1 .. r + 1 /\ unmapped' \subseteq 1 .. r + 1
    BY <1>7, <2>r, <2>u
  <2>8. /\ {next[i] : i \in DOMAIN next} \cup lost \cup unmapped' = 1 .. r + 1
        /\ {next[i] : i \in DOMAIN next} \cap lost = {}
    BY <2>5, <2>6, <2>7, <2>u
  <2>9. lost' = lost /\ unmapped' \cap lost' = {}
    BY <1>2, <1>7, <2>r, <2>u
  <2>10. \A i \in DOMAIN forwarded' : forwarded'[i] \notin unmapped'
    BY <1>2, <1>6, <2>f, <2>r, <2>u
  <2> QED
    BY <1>4, <2>2, <2>4, <2>8, <2>9, <2>10
<1>9. CASE Session!SendQueued
  <2> DEFINE k == Len(forwarded) + 1
             m == Head(queue)
  <2>1. /\ queue # <<>> /\ queue' = Tail(queue) /\ UNCHANGED <<received, unmapped>>
        /\ Len(received') = r
    BY <1>9, SendCases
  <2>2. k \in 1 .. Len(kept) /\ kept[k] = m
    BY <1>1, <2>1, TakeFirst
  <2>3. DOMAIN next = 1 .. Len(next)
    <3>1. queue' \in Seq(1 .. MaxData) /\ forwarded' \in Seq(1 .. MaxData)
      BY SessionData DEF Session!DataOK
    <3> QED
      BY <3>1
  <2>4. k \in Nat
    BY <1>1
  <2>5. CASE forwarded' = Append(forwarded, m) /\ lost' = lost /\ m \notin unmapped
    <3>1. Len(next) = Len(kept) /\ \A i \in 1 .. Len(kept) : next[i] = kept[i]
      BY <1>1, <2>1, <2>5, TakeFirst
    <3>2. \A i \in DOMAIN forwarded' : forwarded'[i] \notin unmapped'
      <4>1. m \in 1 .. MaxData
        BY <1>1, <2>1, TakeFirst
      <4>2. DOMAIN forwarded' = 1 .. k /\ forwarded'[k] = m
            /\ \A i \in DOMAIN forwarded' : i # k => i \in DOMAIN forwarded
                                                     /\ forwarded'[i] = forwarded[i]
        BY <1>1, <2>5, <4>1
      <4> QED
        BY <1>2, <2>1, <2>5, <4>2
    <3> HIDE DEF kept, next, r, k, m
    <3>3. DOMAIN next = DOMAIN kept
      BY <1>3, <2>3, <3>1
    <3>4. {next[i] : i \in DOMAIN next} = {kept[i] : i \in DOMAIN kept}
      BY <1>3, <3>1, <3>3
    <3>5. \A i, j \in DOMAIN next : i < j => next[i] < next[j]
      BY <1>2, <1>3, <3>1, <3>3
    <3>6. /\ {next[i] : i \in DOMAIN next} \cup lost' \cup unmapped' = 1 .. Len(received')
          /\ {next[i] : i \in DOMAIN next} \cap lost' = {} /\ unmapped' \cap lost' = {}
      BY <1>2, <2>1, <2>5, <3>4
    <3> QED
      BY <1>4, <3>2, <3>5, <3>6
  <2>6. CASE forwarded' = forwarded /\ \/ lost' = lost /\ m \in unmapped
                                       \/ lost' = lost \cup {m} /\ m \notin unmapped
    <3> DEFINE At(i) == IF i < k THEN i ELSE i + 1
    <3>1. /\ Len(next) = Len(kept) - 1
          /\ \A i \in 1 .. Len(next) : next[i] = IF i < k THEN kept[i] ELSE kept[i + 1]
      BY <1>1, <2>1, <2>6, TakeFirst
    <3>d. /\ lost \subseteq lost' /\ lost' \subseteq lost \cup {m}
          /\ m \in lost' \cup unmapped /\ unmapped \cap lost' = {}
          /\ \A i \in DOMAIN forwarded' : forwarded'[i] \notin unmapped'
      BY <1>2, <2>1, <2>6
    <3> HIDE DEF kept, next, r, k, m
    <3>2. \A i \in 1 .. Len(next) : next[i] = kept[At(i)]
      BY <3>1
    <3>3. \A i \in 1 .. Len(next) : At(i) \in 1 .. Len(kept) /\ At(i) # k
      BY <1>3, <2>2, <2>4, <3>1
    <3>4. \A i, j \in 1 .. Len(next) : i < j => At(i) < At(j)
      BY <1>3, <2>4, <3>1
    <3>5. \A i \in 1 .. Len(kept) : i # k => \E j \in 1 .. Len(next) : At(j) = i
      <4> SUFFICES ASSUME NEW i \in 1 .. Len(kept), i # k PROVE \E j \in 1 .. Len(next) : At(j) = i
        OBVIOUS
      <4>1. CASE i < k
        <5>1. i \in 1 .. Len(next) /\ At(i) = i
          BY <1>3, <2>2, <2>4, <3>1, <4>1
        <5> QED
          BY <5>1
      <4>2. CASE i > k
        <5>1. i - 1 \in 1 .. Len(next) /\ At(i - 1) = i
          BY <1>3, <2>2, <2>4, <3>1, <4>2
        <5> QED
          BY <5>1
      <4> QED
        BY <2>4, <4>1, <4>2
    <3>6. \A i, j \in 1 .. Len(kept) : kept[i] = kept[j] => i = j
      <4> SUFFICES ASSUME NEW i \in 1 .. Len(kept), NEW j \in 1 .. Len(kept), i # j
                   PROVE  kept[i] # kept[j]
        OBVIOUS
      <4>1. kept[i] \in 1 .. r /\ kept[j] \in 1 .. r
        BY <1>6
      <4>2. i < j \/ j < i
        OBVIOUS
      <4> QED
        BY <1>2, <1>3, <4>1, <4>2
    <3> HIDE DEF At
    <3>7. \A i, j \in DOMAIN next : i < j => next[i] < next[j]
      BY <1>2, <1>3, <2>3, <3>2, <3>3, <3>4
    <3>8. \A i \in DOMAIN next : next[i] \in 1 .. r /\ next[i] \notin lost'
      BY <1>6, <2>2, <2>3, <3>d, <3>2, <3>3, <3>6
    <3>9. \A x \in 1 .. r : x \in lost' \cup unmapped \/ \E i \in DOMAIN next : next[i] = x
      <4> SUFFICES ASSUME NEW x \in 1 .. r, x \notin lost' \cup unmapped
                   PROVE  \E i \in DOMAIN next : next[i] = x
        OBVIOUS
      <4>1. PICK i \in 1 .. Len(kept) : kept[i] = x
        BY <1>7, <3>d
      <4>2. i # k
        BY <2>2, <3>d, <4>1
      <4>3. PICK j \in 1 .. Len(next) : At(j) = i
        BY <3>5, <4>2
      <4> QED
        BY <2>3, <3>2, <4>1, <4>3
    <3>10. lost' \subseteq 1 .. r /\ unmapped \subseteq 1 .. r
      BY <1>6, <1>7, <2>2, <3>d
    <3>11. /\ {next[i] : i \in DOMAIN next} \cup lost' \cup unmapped = 1 .. r
           /\ {next[i] : i \in DOMAIN next} \cap lost' = {}
      <4> DEFINE numbers == {next[i] : i \in DOMAIN next}
      <4>1. numbers \subseteq 1 .. r /\ numbers \cap lost' = {}
        BY <3>8
      <4>2. \A x \in 1 .. r : x \in lost' \cup unmapped \/ x \in numbers
        BY <3>9
      <4> HIDE DEF numbers
      <4>3. numbers \cup lost' \cup unmapped = 1 .. r
        BY <3>10, <4>1, <4>2, Zenon
      <4> QED
        BY <4>1, <4>3 DEF numbers
    <3> QED
      BY <1>4, <2>1, <3>d, <3>7, <3>11
  <2> QED
    BY <1>9, <2>5, <2>6, SendCases
<1> QED
  BY <1>5, <1>8, <1>9, DataSteps


(* The steps of a session by what they do to its threads. *)
LEMMA SessionConnected ==
    ASSUME Session!SessionInv, SessionSteps
    PROVE  Session!ConnectedOK'
<1>1. Session!PlacesOK /\ Session!ConnectedOK /\ Session!JoinedOK /\ connected \in BOOLEAN
  BY DEF Session!SessionInv, Session!SessionTypeOK, Session!FlagsOK
<1> USE DEF Session!PlacesOK, Session!ConnectedOK, Session!BackPcs, Session!FrontGoes,
            Session!BackGoes, Session!FrontOnly, Session!peer, Session!state, Session!InLoop,
            Session!Sending, Session!Sent
<1>2. CASE Session!PostConnect
  BY <1>1, <1>2 DEF Session!PostConnect, Session!JoinedOK
<1>3. CASE Session!FrontStep /\ ~Session!PostConnect
  BY <1>1, <1>3 DEF Session!FrontStep, Session!InitializeFails,
     Session!PostConnectFails, Session!SeesAbort, Session!AbortSession, Session!AbortError,
     Session!SendUltimatum, Session!AbortLibrary, Session!Join, Session!Free
<1>4. CASE Session!ReceiveChannelData \/ Session!PeerLeaves \/ Session!TargetLost
           \/ Session!Redirect
  BY <1>1, <1>4 DEF Session!ReceiveChannelData, Session!PeerLeaves, Session!TargetLost,
     Session!Redirect
<1>5. CASE Session!Connects \/ Session!ReactivateFails
  BY <1>1, <1>5 DEF Session!Connects, Session!ReactivateFails
<1>8. CASE Session!PostDisconnect
  <2>1. /\ back = "post" /\ phase' = phase /\ connected' = FALSE
        /\ phase = "loop" => back' = "stop"
        /\ phase # "loop" => back' \in {"failed", "giveUp"}
    BY <1>8 DEF Session!PostDisconnect
  <2> QED
    BY <1>1, <2>1
<1>6. CASE Session!PostConnectSends \/ Session!SendQueued \/ Session!QueueSent
  BY <1>1, <1>6 DEF Session!PostConnectSends, Session!SendQueued, Session!QueueSent
<1>7. CASE Session!BackStep /\ ~(\/ Session!Connects \/ Session!ReactivateFails
                                 \/ Session!PostDisconnect \/ Session!PostConnectSends
                                 \/ Session!SendQueued \/ Session!QueueSent)
  BY <1>1, <1>7
     DEF Session!BackStep, Session!InitHookFails, Session!ConnectBegins,
         Session!ConnectFails, Session!Reconnect, Session!ResetDone, Session!Clear,
         Session!Redirected, Session!Disconnect, Session!LoginFailureHookRefuses,
         Session!ConnectWithoutNla, Session!GiveUp, Session!LoopOnQueue, Session!LoopEnds,
         Session!ClientStop
<1> QED
  BY <1>2, <1>3, <1>4, <1>5, <1>6, <1>7, <1>8 DEF SessionSteps

(* The peer's thread creates the client's and joins it before it frees     *)
(* what they share.                                                        *)
LEMMA SessionJoined ==
    ASSUME Session!SessionInv, SessionSteps
    PROVE  Session!JoinedOK'
<1>1. Session!PlacesOK /\ Session!JoinedOK /\ thread \in BOOLEAN /\ freed \in BOOLEAN
  BY DEF Session!SessionInv, Session!SessionTypeOK, Session!FlagsOK
<1> USE DEF Session!PlacesOK, Session!JoinedOK, Session!BackPcs, Session!FrontPcs,
            Session!FrontGoes, Session!BackGoes, Session!FrontOnly, Session!peer
<1>2. CASE Session!PostConnect \/ Session!Free
  BY <1>1, <1>2 DEF Session!PostConnect, Session!Free
<1>3. CASE Session!FrontStep /\ ~(Session!PostConnect \/ Session!Free)
  BY <1>1, <1>3 DEF Session!FrontStep, Session!InitializeFails,
     Session!PostConnectFails, Session!SeesAbort, Session!AbortSession, Session!AbortError,
     Session!SendUltimatum, Session!AbortLibrary, Session!Join
<1>4. CASE Session!ReceiveChannelData \/ Session!PeerLeaves \/ Session!TargetLost
           \/ Session!Redirect
  BY <1>1, <1>4 DEF Session!ReceiveChannelData, Session!PeerLeaves, Session!TargetLost,
     Session!Redirect
<1>5. CASE Session!BackStep
  <2>1. UNCHANGED <<front, thread, freed>> /\ back \notin {"none", "done"} /\ back' # "none"
    BY <1>5
       DEF Session!BackStep, Session!InitHookFails, Session!ConnectBegins, Session!Connects,
           Session!ReactivateFails, Session!ConnectFails, Session!Reconnect, Session!ResetDone,
           Session!Clear, Session!Redirected, Session!Disconnect, Session!PostDisconnect,
           Session!LoginFailureHookRefuses, Session!ConnectWithoutNla, Session!GiveUp,
           Session!LoopOnQueue, Session!LoopEnds, Session!ClientStop,
           Session!PostConnectSends, Session!SendQueued, Session!QueueSent, Session!Sent,
           Session!Sending
  <2> QED
    BY <1>1, <2>1
<1> QED
  BY <1>2, <1>3, <1>4, <1>5 DEF SessionSteps

(* The abort event is set at the end of one of the threads. *)
LEMMA SessionAbort ==
    ASSUME Session!SessionInv, SessionSteps
    PROVE  Session!AbortOK'
<1>1. Session!PlacesOK /\ Session!AbortOK /\ Session!ConnectedOK /\ Session!JoinedOK
      /\ abortEvent \in BOOLEAN /\ allowFail \in BOOLEAN
  BY DEF Session!SessionInv, Session!SessionTypeOK, Session!FlagsOK
<1> USE DEF Session!PlacesOK, Session!AbortOK, Session!BackPcs, Session!FrontPcs,
            Session!FrontGoes, Session!BackGoes, Session!FrontOnly, Session!peer
<1>2. CASE Session!PostConnect
  BY <1>1, <1>2 DEF Session!PostConnect, Session!JoinedOK
<1>3. CASE Session!FrontStep /\ ~Session!PostConnect
  BY <1>1, <1>3 DEF Session!FrontStep, Session!InitializeFails,
     Session!PostConnectFails, Session!SeesAbort, Session!AbortSession, Session!AbortError,
     Session!SendUltimatum, Session!AbortLibrary, Session!Join, Session!Free
<1>4. CASE Session!ReceiveChannelData \/ Session!PeerLeaves \/ Session!TargetLost
           \/ Session!Redirect
  BY <1>1, <1>4 DEF Session!ReceiveChannelData, Session!PeerLeaves, Session!TargetLost,
     Session!Redirect
<1>5. CASE Session!PostDisconnect
  BY <1>1, <1>5 DEF Session!PostDisconnect
<1>6. CASE Session!BackStep /\ ~Session!PostDisconnect
  BY <1>1, <1>6
     DEF Session!BackStep, Session!InitHookFails, Session!ConnectBegins, Session!Connects,
         Session!ReactivateFails, Session!ConnectFails, Session!Reconnect, Session!ResetDone,
         Session!Clear, Session!Redirected, Session!Disconnect, Session!AbortOwn,
         Session!LoginFailureHookRefuses, Session!ConnectWithoutNla, Session!GiveUp,
         Session!LoopOnQueue, Session!LoopEnds, Session!ClientStop,
         Session!PostConnectSends, Session!SendQueued, Session!QueueSent, Session!Sent,
         Session!Sending
<1> QED
  BY <1>2, <1>3, <1>4, <1>5, <1>6 DEF SessionSteps

(* A session begins with all of this. *)
LEMMA SessionInit ==
    ASSUME Session!Init
    PROVE  Session!SessionInv /\ ForwardedInOrder
<1> USE DEF Session!Init
<1>1. Session!PlacesOK
  BY Bounds DEF Session!PlacesOK, Session!FrontPcs, Session!BackPcs
<1>2. Session!FlagsOK
  BY DEF Session!FlagsOK
<1>3. Session!DataOK
  BY DEF Session!DataOK
<1>4. Session!ConnectedOK /\ Session!JoinedOK /\ Session!AbortOK
  BY DEF Session!ConnectedOK, Session!JoinedOK, Session!AbortOK, Session!InLoop, Session!Sending
<1>5. forwarded \o queue = <<>> /\ DOMAIN (forwarded \o queue) = {} /\ Len(received) = 0
  OBVIOUS
<1>6. ForwardedInOrder
  BY <1>5 DEF ForwardedInOrder, Session!ForwardedInOrder
<1> QED
  BY <1>1, <1>2, <1>3, <1>4, <1>6 DEF Session!SessionInv, Session!SessionTypeOK

(* A step of the session keeps what holds of it. *)
LEMMA SessionStep ==
    ASSUME Session!SessionInv, ForwardedInOrder, SessionSteps
    PROVE  Session!SessionInv' /\ ForwardedInOrder'
  BY SessionPlaces, SessionFlags, SessionData, SessionConnected, SessionJoined, SessionAbort,
     OrderStep DEF Session!SessionInv, Session!SessionTypeOK

(* As long as the retry is to come or under way, the abort event is clear. *)
LEMMA FallbackOK ==
    ASSUME Session!AbortOK
    PROVE  FallbackKeepsPeer
  BY DEF Session!AbortOK, FallbackKeepsPeer, Session!FallbackKeepsPeer


-----------------------------------------------------------------------------
(***************************************************************************)
(* The server.                                                             *)
(***************************************************************************)

(* The steps of the server. *)
ServerSteps ==
    \/ MainStep \/ Stop \/ Sleep
    \/ \E p \in Peers : StartPeer(p) \/ SessionOver(p) \/ Removal(p)

(* Whoever is accepted has no session yet, and who removes himself has the *)
(* lock.                                                                   *)
LEMMA ServerTurns ==
    ASSUME ServerInv, ServerSteps
    PROVE  TurnsOK'
<1>1. MainOK /\ PeersOK /\ TurnsOK /\ Nobody \notin Peers
  BY ServerAssumption DEF ServerInv, ServerTypeOK
<1> USE DEF MainOK, PeersOK, TurnsOK, Removing, MainGoes, PeerGoes, list
<1>2. CASE AppendReads \/ AppendRaises \/ RunEnds \/ Free \/ Stop \/ Sleep
  BY <1>1, <1>2 DEF AppendReads, AppendRaises, RunEnds, Free, Stop, Sleep, vars
<1>3. CASE AppendSets
  BY <1>1, <1>3 DEF AppendSets
<1>4. CASE AppendFails
  BY <1>1, <1>4 DEF AppendFails
<1>5. ASSUME NEW p \in Peers, StartPeer(p) PROVE TurnsOK'
  <2>1. main = "run" /\ main' = "append" /\ pc[p] = "away" /\ new' = p
        /\ pc' = [pc EXCEPT ![p] = "suspended"] /\ lock' = lock /\ races' = races
        /\ (races \/ \A q \in Peers : pc[q] \notin Removing)
    BY <1>5 DEF StartPeer
  <2>2. ~races => lock = Nobody
    BY <1>1, <2>1
  <2> QED
    BY <1>1, <2>1, <2>2
<1>6. ASSUME NEW p \in Peers, SessionOver(p) \/ Find(p) \/ Shift(p) \/ ReadAgain(p)
                              \/ Decrement(p)
      PROVE  TurnsOK'
  BY <1>1, <1>6 DEF SessionOver, Find, Shift, ReadAgain, Decrement
<1>7. ASSUME NEW p \in Peers, LockList(p) PROVE TurnsOK'
  BY <1>1, <1>7 DEF LockList
<1>8. ASSUME NEW p \in Peers, UnlockList(p) PROVE TurnsOK'
  BY <1>1, <1>8 DEF UnlockList
<1> QED
  BY <1>2, <1>3, <1>4, <1>5, <1>6, <1>7, <1>8 DEF ServerSteps, MainStep, Removal

(* Peers that have connected: each comes once. *)
LEMMA StartedFinite ==
    ASSUME ServerInv
    PROVE  /\ IsFiniteSet(Started) /\ Cardinality(Started) \in Nat
           /\ Cardinality(Peers) \in Nat /\ Cardinality(Started) <= Cardinality(Peers)
<1>1. Started \subseteq Peers /\ IsFiniteSet(Peers)
  BY ServerAssumption DEF Started
<1>2. IsFiniteSet(Started) /\ Cardinality(Started) <= Cardinality(Peers)
  BY <1>1, FS_Subset
<1> QED
  BY <1>1, <1>2, FS_CardinalityType

(* A connection is one peer more. *)
LEMMA StartedMore ==
    ASSUME ServerInv, NEW p \in Peers, StartPeer(p)
    PROVE  Cardinality(Started') = Cardinality(Started) + 1
<1>1. pc[p] = "away" /\ pc' = [pc EXCEPT ![p] = "suspended"]
  BY DEF StartPeer
<1>2. Started' = Started \cup {p} /\ p \notin Started
  BY <1>1 DEF Started, ServerInv, ServerTypeOK, PeersOK
<1> QED
  BY <1>2, StartedFinite, FS_AddElement

(* No other step of the server changes who has connected. *)
LEMMA StartedSame ==
    ASSUME ServerInv, \/ MainStep \/ Stop \/ Sleep
                      \/ \E p \in Peers : SessionOver(p) \/ Removal(p)
    PROVE  Started' = Started
<1>1. PeersOK /\ MainOK /\ TurnsOK /\ Nobody \notin Peers
  BY ServerAssumption DEF ServerInv, ServerTypeOK
<1> USE DEF MainOK, PeersOK, TurnsOK, Removing, MainGoes, PeerGoes, Started
<1>2. CASE AppendReads \/ AppendRaises \/ RunEnds \/ Free \/ Stop \/ Sleep
  BY <1>2 DEF AppendReads, AppendRaises, RunEnds, Free, Stop, Sleep, vars
<1>3. CASE AppendSets \/ AppendFails
  BY <1>1, <1>3 DEF AppendSets, AppendFails
<1>4. ASSUME NEW p \in Peers, SessionOver(p) \/ Removal(p) PROVE Started' = Started
  BY <1>1, <1>4 DEF SessionOver, Removal, LockList, Find, Shift, ReadAgain, Decrement, UnlockList
<1> QED
  BY <1>2, <1>3, <1>4 DEF MainStep


(* The list never gets longer than there were connections. *)
LEMMA ServerSize ==
    ASSUME ServerInv, ServerSteps
    PROVE  SizeOK'
<1>1. MainOK /\ PeersOK /\ TurnsOK /\ SizeOK /\ Nobody \notin Peers
  BY ServerAssumption DEF ServerInv, ServerTypeOK
<1> DEFINE s == Cardinality(Started)
           Of(c) == /\ size' <= c
                    /\ main' \in {"append", "raise"} => size' < c
                    /\ main' = "raise" => slot' < c
                    /\ \A q \in Peers : /\ pc'[q] \in {"shift", "decrement"} => size' > 0
                                        /\ pc'[q] = "decrement" => index'[q] \in 1 .. c
<1>2. /\ s \in Nat /\ size \in Nat /\ slot \in Nat /\ size <= s
      /\ main \in {"append", "raise"} => size < s
      /\ main = "raise" => slot < s
      /\ \A q \in Peers : /\ pc[q] \in {"shift", "decrement"} => size > 0
                          /\ pc[q] = "decrement" => index[q] \in 1 .. s
  BY <1>1, StartedFinite DEF SizeOK, MainOK
<1>3. Of(Cardinality(Started')) => SizeOK'
  BY DEF SizeOK
<1>4. /\ \A q \in Peers : (pc[q] \in Removing) <=> (lock = q)
      /\ main \in {"append", "raise", "set"} => new \in Peers
      /\ DOMAIN pc = Peers /\ DOMAIN index = Peers
  BY <1>1 DEF TurnsOK, PeersOK, MainOK
<1> HIDE DEF s
<1> USE DEF Removing, MainGoes, PeerGoes, list
<1>5. CASE AppendReads \/ AppendRaises \/ RunEnds \/ Free \/ Stop \/ Sleep
  <2>1. Of(s)
    BY <1>2, <1>5 DEF AppendReads, AppendRaises, RunEnds, Free, Stop, Sleep, vars
  <2> QED
    BY <1>3, <1>5, <2>1, StartedSame DEF s, MainStep
<1>6. CASE AppendSets \/ AppendFails
  <2>1. Of(s)
    BY <1>2, <1>4, <1>6 DEF AppendSets, AppendFails
  <2> QED
    BY <1>3, <1>6, <2>1, StartedSame DEF s, MainStep
<1>7. ASSUME NEW p \in Peers, StartPeer(p) PROVE SizeOK'
  <2>1. Of(s + 1)
    BY <1>2, <1>4, <1>7 DEF StartPeer
  <2> QED
    BY <1>3, <1>7, <2>1, StartedMore DEF s
<1>8. ASSUME NEW p \in Peers, SessionOver(p) \/ Removal(p) PROVE Of(s)
  <2>1. CASE SessionOver(p) \/ LockList(p) \/ UnlockList(p)
    BY <1>2, <1>4, <2>1 DEF SessionOver, LockList, UnlockList
  <2>2. CASE Find(p)
    <3>1. UNCHANGED <<main, slot, size>> /\ pc[p] = "find"
      BY <2>2 DEF Find
    <3>2. CASE pc' = [pc EXCEPT ![p] = "unlock"] /\ UNCHANGED index
      BY <1>2, <1>4, <3>1, <3>2
    <3>3. CASE /\ pc' = [pc EXCEPT ![p] = "shift"]
               /\ \E i \in Slots : i < size /\ index' = [index EXCEPT ![p] = i]
      <4>1. size > 0
        <5>1. PICK i \in Slots : i < size
          BY <3>3
        <5>2. i \in Nat
          BY StartedFinite DEF Slots
        <5> QED
          BY <1>2, <5>1, <5>2
      <4>2. \A q \in Peers : pc'[q] # "decrement"
        BY <1>4, <3>1, <3>3
      <4> QED
        BY <1>2, <3>1, <4>1, <4>2
    <3> QED
      BY <2>2, <3>2, <3>3 DEF Find
  <2>3. CASE Shift(p)
    <3>1. UNCHANGED <<main, slot, size>> /\ pc[p] = "shift" /\ index' = [index EXCEPT ![p] = size]
          /\ pc' = [pc EXCEPT ![p] = "decrement"]
      BY <2>3 DEF Shift
    <3>2. size > 0 /\ \A q \in Peers : pc[q] = "decrement" => q = p
      BY <1>2, <1>4, <3>1
    <3> QED
      BY <1>2, <1>4, <3>1, <3>2
  <2>4. CASE Decrement(p)
    <3>1. UNCHANGED <<main, slot, index>> /\ pc[p] = "decrement" /\ size' = index[p] - 1
          /\ pc' = [pc EXCEPT ![p] = "unlock"]
      BY <2>4 DEF Decrement
    <3>2. \A q \in Peers : pc'[q] \notin {"shift", "decrement"}
      BY <1>4, <3>1
    <3>3. index[p] \in 1 .. s
      BY <1>2, <3>1
    <3> QED
      BY <1>2, <3>1, <3>2, <3>3
  <2>5. CASE ReadAgain(p)
    <3>1. UNCHANGED <<main, slot, size, pc>> /\ pc[p] = "decrement"
          /\ index' = [index EXCEPT ![p] = size]
      BY <2>5 DEF ReadAgain
    <3>2. size > 0 /\ \A q \in Peers : pc[q] = "decrement" => q = p
      BY <1>2, <1>4, <3>1
    <3> QED
      BY <1>2, <1>4, <3>1, <3>2
  <2> QED
    BY <1>8, <2>1, <2>2, <2>3, <2>4, <2>5 DEF Removal
<1>9. ASSUME NEW p \in Peers, SessionOver(p) \/ Removal(p) PROVE SizeOK'
  BY <1>3, <1>8, <1>9, StartedSame DEF s
<1> QED
  BY <1>5, <1>6, <1>7, <1>9 DEF ServerSteps, MainStep


(* The types of the server. *)
LEMMA ServerTypes ==
    ASSUME ServerInv, ServerSteps
    PROVE  ServerTypeOK'
<1> DEFINE N == Cardinality(Peers)
<1>1. MainOK /\ PeersOK /\ TurnsOK /\ SizeOK /\ Nobody \notin Peers
  BY ServerAssumption DEF ServerInv, ServerTypeOK
<1>2. /\ N \in Nat /\ Cardinality(Started) \in Nat /\ Cardinality(Started) <= N
      /\ main = "raise" => slot < Cardinality(Started)
      /\ \A q \in Peers : pc[q] = "decrement" => index[q] \in 1 .. Cardinality(Started)
  BY <1>1, StartedFinite DEF SizeOK
<1>3. main \in {"append", "raise", "set"} => new \in Peers
  BY <1>1 DEF TurnsOK, MainOK
<1> USE DEF Removing, MainGoes, PeerGoes, list, ServerTypeOK
<1>4. CASE AppendReads \/ RunEnds \/ Free \/ Stop \/ Sleep
  BY <1>1, <1>4 DEF AppendReads, RunEnds, Free, Stop, Sleep, vars, MainOK, PeersOK
<1>5. CASE AppendRaises
  <2>1. main = "raise" /\ main' = "set" /\ size' = slot + 1
        /\ UNCHANGED <<new, slot, array, lock, pc, index, stop, races>>
    BY <1>5 DEF AppendRaises
  <2>2. slot + 1 \in 0 .. N
    BY <1>1, <1>2, <2>1 DEF MainOK
  <2> QED
    BY <1>1, <2>1, <2>2 DEF MainOK, PeersOK
<1>6. CASE AppendSets \/ AppendFails
  BY <1>1, <1>3, <1>6 DEF AppendSets, AppendFails, MainOK, PeersOK
<1>7. ASSUME NEW p \in Peers, StartPeer(p) \/ SessionOver(p) \/ LockList(p) \/ UnlockList(p)
      PROVE  ServerTypeOK'
  BY <1>1, <1>7 DEF StartPeer, SessionOver, LockList, UnlockList, MainOK, PeersOK
<1>8. ASSUME NEW p \in Peers, Find(p) PROVE ServerTypeOK'
  <2>1. MainOK'
    BY <1>1, <1>8 DEF Find, MainOK
  <2>2. Slots \subseteq 0 .. N
    BY <1>2 DEF Slots
  <2>3. PeersOK'
    BY <1>1, <1>8, <2>2 DEF Find, PeersOK
  <2> QED
    BY <2>1, <2>3
<1>9. ASSUME NEW p \in Peers, Shift(p) PROVE ServerTypeOK'
  <2>1. MainOK' /\ size \in 0 .. N
    BY <1>1, <1>9 DEF Shift, MainOK
  <2>2. \A i \in Slots : i + 1 < size => i + 1 \in Slots
    BY <1>2, <2>1 DEF Slots
  <2>3. array' \in [Slots -> Peers \cup {Nobody}]
    BY <1>1, <1>9, <2>2 DEF Shift, PeersOK
  <2>4. pc' = [pc EXCEPT ![p] = "decrement"] /\ index' = [index EXCEPT ![p] = size]
    BY <1>9 DEF Shift
  <2>5. PeersOK'
    BY <1>1, <2>1, <2>3, <2>4 DEF PeersOK
  <2> QED
    BY <2>1, <2>5
<1>10. ASSUME NEW p \in Peers, Decrement(p) PROVE ServerTypeOK'
  <2>1. index[p] - 1 \in 0 .. N /\ size' = index[p] - 1
    BY <1>2, <1>10 DEF Decrement
  <2> QED
    BY <1>1, <1>10, <2>1 DEF Decrement, MainOK, PeersOK
<1>11. ASSUME NEW p \in Peers, ReadAgain(p) PROVE ServerTypeOK'
  BY <1>1, <1>11 DEF ReadAgain, MainOK, PeersOK
<1> QED
  BY <1>4, <1>5, <1>6, <1>7, <1>8, <1>9, <1>10, <1>11 DEF ServerSteps, MainStep, Removal

-----------------------------------------------------------------------------
(***************************************************************************)
(* The list of peers, unless ArrayList_Append races with a removal.        *)
(***************************************************************************)

(* What the list has to hold is the running peers. *)
LEMMA ListedFinite ==
    ASSUME ServerInv
    PROVE  /\ Listed \subseteq Peers /\ IsFiniteSet(Listed) /\ Cardinality(Listed) \in Nat
           /\ Cardinality(Listed) <= Cardinality(Peers)
<1>1. Listed \subseteq Peers /\ IsFiniteSet(Peers)
  BY ServerAssumption DEF Listed
<1> QED
  BY <1>1, FS_Subset, FS_CardinalityType


(* The first n items of an array are the members of L, each once. *)
Fills(a, L, n) ==
    /\ n = Cardinality(L)
    /\ {a[i] : i \in 0 .. n - 1} = L
    /\ \A i, j \in 0 .. n - 1 : a[i] = a[j] => i = j

(* An item is appended. *)
LEMMA FillsAppend ==
    ASSUME NEW a, NEW L, NEW n \in Nat, NEW D, NEW x, IsFiniteSet(L), x \notin L,
           DOMAIN a = D, n \in D, 0 .. n - 1 \subseteq D, Fills(a, L, n)
    PROVE  Fills([a EXCEPT ![n] = x], L \cup {x}, n + 1)
<1> DEFINE b == [a EXCEPT ![n] = x]
<1>1. n = Cardinality(L) /\ {a[i] : i \in 0 .. n - 1} = L
      /\ \A i, j \in 0 .. n - 1 : a[i] = a[j] => i = j
  BY DEF Fills
<1>2. n + 1 = Cardinality(L \cup {x})
  BY <1>1, FS_AddElement
<1>3. b[n] = x /\ \A i \in D : i # n => b[i] = a[i]
  OBVIOUS
<1>4. \A i : i \in 0 .. (n + 1) - 1 <=> (i \in 0 .. n - 1 \/ i = n)
  OBVIOUS
<1>5. \A i \in 0 .. n - 1 : i # n /\ a[i] \in L
  BY <1>1
<1> HIDE DEF b
<1>6. \A i \in 0 .. n - 1 : b[i] = a[i] /\ b[i] \in L /\ b[i] # x
  BY <1>3, <1>5
<1>7. {b[i] : i \in 0 .. (n + 1) - 1} = L \cup {x}
  <2>1. \A y \in L : \E i \in 0 .. (n + 1) - 1 : b[i] = y
    <3> SUFFICES ASSUME NEW y \in L PROVE \E i \in 0 .. (n + 1) - 1 : b[i] = y
      OBVIOUS
    <3>1. PICK i \in 0 .. n - 1 : a[i] = y
      BY <1>1
    <3> QED
      BY <1>4, <1>6, <3>1
  <2>2. n \in 0 .. (n + 1) - 1 /\ b[n] = x
    BY <1>3, <1>4
  <2>3. \A i \in 0 .. (n + 1) - 1 : b[i] \in L \cup {x}
    BY <1>3, <1>4, <1>6
  <2> QED
    BY <2>1, <2>2, <2>3
<1>8. \A i, j \in 0 .. (n + 1) - 1 : b[i] = b[j] => i = j
  <2> SUFFICES ASSUME NEW i \in 0 .. (n + 1) - 1, NEW j \in 0 .. (n + 1) - 1, b[i] = b[j]
               PROVE  i = j
    OBVIOUS
  <2>1. (i \in 0 .. n - 1 \/ i = n) /\ (j \in 0 .. n - 1 \/ j = n)
    BY <1>4
  <2> QED
    BY <1>1, <1>3, <1>6, <2>1
<1> QED
  BY <1>2, <1>7, <1>8 DEF Fills, b

(* An item is removed and the later ones move down. *)
LEMMA FillsRemove ==
    ASSUME NEW a, NEW b, NEW L, NEW n \in Nat, NEW k \in 0 .. n - 1, NEW x,
           IsFiniteSet(L), Fills(a, L, n), a[k] = x,
           \A i \in 0 .. n - 2 : b[i] = IF k <= i THEN a[i + 1] ELSE a[i]
    PROVE  Fills(b, L \ {x}, n - 1)
<1> DEFINE At(i) == IF k <= i THEN i + 1 ELSE i
<1>1. n = Cardinality(L) /\ {a[i] : i \in 0 .. n - 1} = L
      /\ \A i, j \in 0 .. n - 1 : a[i] = a[j] => i = j
  BY DEF Fills
<1>2. x \in L
  BY <1>1
<1>3. n - 1 = Cardinality(L \ {x})
  BY <1>1, <1>2, FS_RemoveElement
<1>4. (n - 1) - 1 = n - 2 /\ k \in Nat /\ k <= n - 1
  OBVIOUS
<1>5. \A i \in 0 .. n - 2 : b[i] = a[At(i)] /\ At(i) \in 0 .. n - 1 /\ At(i) # k
  BY <1>4
<1>6. \A i, j \in 0 .. n - 2 : At(i) = At(j) => i = j
  BY <1>4
<1>7. \A i \in 0 .. n - 1 : i # k => \E j \in 0 .. n - 2 : At(j) = i
  <2> SUFFICES ASSUME NEW i \in 0 .. n - 1, i # k PROVE \E j \in 0 .. n - 2 : At(j) = i
    OBVIOUS
  <2>1. CASE i < k
    <3>1. i \in 0 .. n - 2 /\ At(i) = i
      BY <1>4, <2>1
    <3> QED
      BY <3>1
  <2>2. CASE i > k
    <3>1. i - 1 \in 0 .. n - 2 /\ At(i - 1) = i
      BY <1>4, <2>2
    <3> QED
      BY <3>1
  <2> QED
    BY <1>4, <2>1, <2>2
<1> HIDE DEF At
<1>8. \A i, j \in 0 .. n - 2 : b[i] = b[j] => i = j
  BY <1>1, <1>5, <1>6
<1>9. \A i \in 0 .. n - 2 : b[i] \in L /\ b[i] # x
  BY <1>1, <1>5
<1>10. \A y \in L \ {x} : \E j \in 0 .. n - 2 : b[j] = y
  <2> SUFFICES ASSUME NEW y \in L \ {x} PROVE \E j \in 0 .. n - 2 : b[j] = y
    OBVIOUS
  <2>1. PICK i \in 0 .. n - 1 : a[i] = y
    BY <1>1
  <2>2. PICK j \in 0 .. n - 2 : At(j) = i
    BY <1>7, <2>1
  <2> QED
    BY <1>5, <2>1, <2>2
<1>11. {b[i] : i \in 0 .. n - 2} = L \ {x}
  BY <1>9, <1>10
<1> QED
  BY <1>3, <1>4, <1>8, <1>11 DEF Fills


(* Unless they race, the list holds each running peer once. *)
LEMMA ServerList ==
    ASSUME ServerInv, ServerSteps
    PROVE  ListOK'
<1> DEFINE D == 0 .. Cardinality(Peers) - 1
           NoDecrement == \A q \in Peers : pc[q] # "decrement"
           Main == /\ (main' # "set" /\ \A q \in Peers : pc'[q] # "decrement")
                      => Fills(array', Listed', size')
                   /\ main' = "raise" => slot' = size'
                   /\ main' = "set" => Fills(array', Listed', slot') /\ size' = slot' + 1
           Shifts(q) == pc'[q] = "shift" => index'[q] < size' /\ array'[index'[q]] = q
           Lowers(q) == pc'[q] = "decrement" => Fills(array', Listed', size' - 1)
                                                /\ index'[q] = size'
<1>1. MainOK /\ PeersOK /\ TurnsOK /\ Nobody \notin Peers
  BY ServerAssumption DEF ServerInv, ServerTypeOK
<1>2. races' = races
  BY DEF ServerSteps, MainStep, Removal, AppendReads, AppendRaises, AppendSets, AppendFails,
     RunEnds, Free, Stop, Sleep, StartPeer, SessionOver, LockList, Find, Shift, ReadAgain,
     Decrement, UnlockList, vars
<1>3. (~races => Main /\ \A q \in Peers : Shifts(q) /\ Lowers(q)) => ListOK'
  BY <1>2 DEF ListOK, Holds, Fills
<1> SUFFICES ASSUME ~races PROVE Main /\ \A q \in Peers : Shifts(q) /\ Lowers(q)
  BY <1>3
<1>4. /\ (main # "set" /\ NoDecrement) => Fills(array, Listed, size)
      /\ main = "raise" => slot = size
      /\ main = "set" => Fills(array, Listed, slot) /\ size = slot + 1
      /\ \A q \in Peers : pc[q] = "shift" => index[q] < size /\ array[index[q]] = q
      /\ \A q \in Peers : pc[q] = "decrement" => Fills(array, Listed, size - 1) /\ index[q] = size
  BY DEF ServerInv, ListOK, Holds, Fills
<1>5. /\ size \in Nat /\ slot \in Nat /\ DOMAIN pc = Peers /\ DOMAIN index = Peers
      /\ DOMAIN array = D /\ Cardinality(Peers) \in Nat /\ \A q \in Peers : index[q] \in Nat
      /\ size <= Cardinality(Peers)
  BY <1>1, StartedFinite DEF MainOK, PeersOK, Slots
<1>6. /\ \A q \in Peers : (pc[q] \in Removing) <=> (lock = q)
      /\ \A q \in Peers : (pc[q] = "suspended") <=> (new = q)
      /\ main \in {"append", "raise", "set"} => new \in Peers
      /\ main \in {"append", "raise", "set"} => lock = Nobody
      /\ main \in {"append", "raise", "set"} => \A q \in Peers : pc[q] \notin Removing
  BY <1>1 DEF TurnsOK, MainOK
<1> HIDE DEF D
<1> USE DEF Removing, MainGoes, PeerGoes, list
<1>7. CASE AppendReads \/ AppendRaises \/ RunEnds \/ Free \/ Stop \/ Sleep
  <2>1. UNCHANGED <<array, pc, index>> /\ Listed' = Listed
    BY <1>7 DEF AppendReads, AppendRaises, RunEnds, Free, Stop, Sleep, vars, Listed
  <2>2. CASE AppendReads \/ AppendRaises
    <3>1. NoDecrement /\ \A q \in Peers : pc[q] # "shift"
      BY <1>6, <2>2 DEF AppendReads, AppendRaises
    <3>2. Main
      BY <1>4, <2>1, <2>2, <3>1 DEF AppendReads, AppendRaises
    <3> QED
      BY <2>1, <3>1, <3>2
  <2>3. CASE RunEnds \/ Free \/ Stop \/ Sleep
    <3>1. size' = size /\ slot' = slot /\ (main' = main \/ (main # "set" /\ main' \notin {"raise", "set"}))
      BY <2>3 DEF RunEnds, Free, Stop, Sleep, vars
    <3> QED
      BY <1>4, <2>1, <3>1
  <2> QED
    BY <1>7, <2>2, <2>3
<1>8. CASE AppendFails
  <2>1. main = "set" /\ slot >= size
    BY <1>8 DEF AppendFails
  <2> QED
    BY <1>4, <1>5, <2>1
<1>9. CASE AppendSets
  <2>1. /\ main = "set" /\ main' = "run" /\ size' = size
        /\ array' = [array EXCEPT ![slot] = new] /\ pc' = [pc EXCEPT ![new] = "session"]
    BY <1>9 DEF AppendSets
  <2>2. new \in Peers /\ pc[new] = "suspended" /\ Fills(array, Listed, slot) /\ size = slot + 1
    BY <1>4, <1>6, <2>1
  <2>3. Listed' = Listed \cup {new} /\ new \notin Listed
    BY <1>5, <2>1, <2>2 DEF Listed
  <2>4. slot \in D /\ 0 .. slot - 1 \subseteq D
    BY <1>5, <2>2 DEF D
  <2>5. Fills(array', Listed', size')
    BY <1>5, <2>1, <2>2, <2>3, <2>4, FillsAppend, ListedFinite
  <2>6. \A q \in Peers : pc'[q] \notin {"shift", "decrement"}
    BY <1>5, <1>6, <2>1
  <2> QED
    BY <2>1, <2>5, <2>6
<1>10. ASSUME NEW p \in Peers, StartPeer(p) PROVE Main /\ \A q \in Peers : Shifts(q) /\ Lowers(q)
  <2>1. /\ main = "run" /\ main' = "append" /\ UNCHANGED <<slot, array, size, index>>
        /\ pc[p] = "away" /\ pc' = [pc EXCEPT ![p] = "suspended"]
        /\ \A q \in Peers : pc[q] \notin Removing
    BY <1>10 DEF StartPeer
  <2>2. Listed' = Listed /\ \A q \in Peers : pc'[q] \notin {"shift", "decrement"}
    BY <1>5, <2>1 DEF Listed
  <2> QED
    BY <1>4, <2>1, <2>2
<1>11. ASSUME NEW p \in Peers, SessionOver(p) \/ LockList(p) \/ UnlockList(p)
       PROVE  Main /\ \A q \in Peers : Shifts(q) /\ Lowers(q)
  <2>1. UNCHANGED <<main, slot, array, size, index>>
    BY <1>11 DEF SessionOver, LockList, UnlockList
  <2>2. Listed' = Listed
    BY <1>5, <1>11 DEF SessionOver, LockList, UnlockList, Listed
  <2>3. \A q \in Peers : (pc'[q] = "shift" <=> pc[q] = "shift")
                         /\ (pc'[q] = "decrement" <=> pc[q] = "decrement")
    BY <1>5, <1>11 DEF SessionOver, LockList, UnlockList
  <2> QED
    BY <1>4, <2>1, <2>2, <2>3
<1>12. ASSUME NEW p \in Peers, pc[p] \in Removing
       PROVE  main \notin {"raise", "set"} /\ \A q \in Peers : pc[q] \in Removing => q = p
  BY <1>1, <1>6, <1>12
<1>13. ASSUME NEW p \in Peers, Find(p) PROVE Main /\ \A q \in Peers : Shifts(q) /\ Lowers(q)
  <2>1. pc[p] = "find" /\ UNCHANGED <<main, slot, array, size>>
    BY <1>13 DEF Find
  <2>2. Fills(array, Listed, size) /\ main \notin {"raise", "set"}
    BY <1>4, <1>12, <2>1
  <2>3. PICK i \in 0 .. size - 1 : array[i] = p
    BY <2>1, <2>2 DEF Fills, Listed
  <2>4. i \in Slots /\ i < size
    BY <1>5, <2>3 DEF Slots
  <2>5. PICK k \in Slots : /\ k < size /\ array[k] = p /\ pc' = [pc EXCEPT ![p] = "shift"]
                           /\ index' = [index EXCEPT ![p] = k]
    BY <1>13, <2>3, <2>4 DEF Find
  <2>6. Listed' = Listed
    BY <1>5, <2>1, <2>5 DEF Listed
  <2>7. \A q \in Peers : pc'[q] # "decrement" /\ (pc'[q] = "shift" => q = p)
    BY <1>5, <1>12, <2>1, <2>5
  <2>8. index'[p] = k
    BY <1>5, <2>5
  <2> QED
    BY <2>1, <2>2, <2>5, <2>6, <2>7, <2>8
<1>14. ASSUME NEW p \in Peers, Shift(p) PROVE Main /\ \A q \in Peers : Shifts(q) /\ Lowers(q)
  <2>1. /\ pc[p] = "shift" /\ UNCHANGED <<main, slot, size>>
        /\ pc' = [pc EXCEPT ![p] = "decrement"] /\ index' = [index EXCEPT ![p] = size]
        /\ array' = [j \in Slots |-> IF index[p] <= j /\ j + 1 < size
                                     THEN array[j + 1] ELSE array[j]]
    BY <1>14 DEF Shift
  <2>2. Fills(array, Listed, size) /\ main \notin {"raise", "set"}
    BY <1>4, <1>12, <2>1
  <2>3. index[p] \in 0 .. size - 1 /\ array[index[p]] = p
    BY <1>4, <1>5, <2>1
  <2>4. \A j \in 0 .. size - 2 : array'[j] = IF index[p] <= j THEN array[j + 1] ELSE array[j]
    <3>1. \A j \in 0 .. size - 2 : j \in Slots /\ j + 1 < size
      BY <1>5 DEF Slots
    <3> QED
      BY <2>1, <3>1
  <2>5. Listed' = Listed \ {p}
    BY <1>5, <2>1 DEF Listed
  <2>6. Fills(array', Listed', size - 1)
    BY <1>5, <2>2, <2>3, <2>4, <2>5, FillsRemove, ListedFinite
  <2>7. \A q \in Peers : pc'[q] # "shift" /\ (pc'[q] = "decrement" => q = p)
    BY <1>5, <1>12, <2>1
  <2>8. index'[p] = size /\ pc'[p] = "decrement"
    BY <1>5, <2>1
  <2> QED
    BY <2>1, <2>2, <2>6, <2>7, <2>8
<1>15. ASSUME NEW p \in Peers, Decrement(p) PROVE Main /\ \A q \in Peers : Shifts(q) /\ Lowers(q)
  <2>1. /\ pc[p] = "decrement" /\ UNCHANGED <<main, slot, array, index>>
        /\ pc' = [pc EXCEPT ![p] = "unlock"] /\ size' = index[p] - 1
    BY <1>15 DEF Decrement
  <2>2. Fills(array, Listed, size - 1) /\ main \notin {"raise", "set"} /\ index[p] = size
    BY <1>4, <1>12, <2>1
  <2>3. Listed' = Listed
    BY <1>5, <2>1 DEF Listed
  <2>4. \A q \in Peers : pc'[q] \notin {"shift", "decrement"}
    BY <1>5, <1>12, <2>1
  <2> QED
    BY <2>1, <2>2, <2>3, <2>4
<1>16. ASSUME NEW p \in Peers, ReadAgain(p) PROVE FALSE
  BY <1>4, <1>16 DEF ReadAgain
<1> QED
  BY <1>7, <1>8, <1>9, <1>10, <1>11, <1>13, <1>14, <1>15, <1>16 DEF ServerSteps, MainStep, Removal


(* The server is freed when the list is empty, and then, unless they race, *)
(* nobody has a session.                                                   *)
LEMMA ServerFree ==
    ASSUME ServerInv, ServerSteps
    PROVE  NoPeerForgotten'
<1>1. MainOK /\ PeersOK /\ TurnsOK /\ NoPeerForgotten /\ Nobody \notin Peers
  BY ServerAssumption DEF ServerInv, ServerTypeOK
<1> USE DEF Removing, MainGoes, PeerGoes, list, NoPeerForgotten, PeersOK
<1>2. CASE Free
  <2>1. main = "wait" /\ size = 0 /\ UNCHANGED <<pc, races>>
    BY <1>2 DEF Free
  <2>2. ASSUME ~races PROVE Listed = {}
    <3>1. /\ (\A p \in Peers : pc[p] # "decrement") => 0 = Cardinality(Listed)
          /\ \A p \in Peers : pc[p] = "decrement" => 0 - 1 = Cardinality(Listed)
      BY <2>1, <2>2 DEF ServerInv, ListOK, Holds
    <3>2. Cardinality(Listed) \in Nat /\ IsFiniteSet(Listed)
      BY ListedFinite
    <3>3. Cardinality(Listed) = 0
      BY <3>1, <3>2
    <3> QED
      BY <3>2, <3>3, FS_EmptySet
  <2> QED
    BY <2>1, <2>2 DEF Listed
<1>3. CASE AppendReads \/ AppendRaises \/ RunEnds \/ Stop \/ Sleep
  BY <1>1, <1>3 DEF AppendReads, AppendRaises, RunEnds, Stop, Sleep, vars
<1>4. CASE AppendSets \/ AppendFails
  BY <1>4 DEF AppendSets, AppendFails
<1>5. ASSUME NEW p \in Peers, StartPeer(p) \/ SessionOver(p) \/ Removal(p) PROVE NoPeerForgotten'
  BY <1>1, <1>5 DEF StartPeer, SessionOver, Removal, LockList, Find, Shift, ReadAgain,
     Decrement, UnlockList
<1> QED
  BY <1>2, <1>3, <1>4, <1>5 DEF ServerSteps, MainStep

(* The server starts with an empty list and no peers. *)
LEMMA ServerInit ==
    ASSUME Init
    PROVE  ServerInv
<1> USE DEF Init
<1>1. Cardinality(Peers) \in Nat /\ Nobody \notin Peers
  BY ServerAssumption, FS_CardinalityType
<1>2. ServerTypeOK
  <2>1. 0 \in 0 .. Cardinality(Peers)
    BY <1>1
  <2>2. MainOK
    BY <2>1 DEF MainOK
  <2>3. PeersOK
    BY <2>1 DEF PeersOK
  <2> QED
    BY <2>2, <2>3 DEF ServerTypeOK
<1>3. TurnsOK
  BY <1>1 DEF TurnsOK, Removing
<1>4. Started = {} /\ Listed = {}
  BY DEF Started, Listed
<1>5. Cardinality({}) = 0
  BY FS_EmptySet
<1>6. SizeOK
  BY <1>4, <1>5 DEF SizeOK
<1>7. Holds(size)
  BY <1>4, <1>5 DEF Holds
<1>8. ListOK /\ NoPeerForgotten
  BY <1>7 DEF ListOK, NoPeerForgotten
<1> QED
  BY <1>2, <1>3, <1>6, <1>8 DEF ServerInv

(* A step of the server keeps what holds of it. *)
LEMMA ServerStep ==
    ASSUME ServerInv, ServerSteps
    PROVE  ServerInv'
  BY ServerTypes, ServerTurns, ServerSize, ServerList, ServerFree DEF ServerInv

-----------------------------------------------------------------------------
(***************************************************************************)
(* Both together.                                                          *)
(***************************************************************************)

(* What is proved of all states. *)
IndProxy == ServerInv /\ Session!SessionInv /\ SessionInThread /\ ForwardedInOrder

(* A step of the proxy is one of the session or one of the server. *)
LEMMA OneOrTheOther ==
    ASSUME ProxyNext
    PROVE  \/ SessionSteps /\ UNCHANGED vars
           \/ ServerSteps /\ UNCHANGED sessionVars
           \/ UNCHANGED proxyVars
<1>1. CASE FrontMoves \/ BackMoves \/ SessionEvent \/ TargetEvent \/ SeesStop \/ FreeSession
  BY <1>1 DEF FrontMoves, BackMoves, SessionEvent, TargetEvent, SeesStop, FreeSession,
     SessionSteps, Session!FrontStep
<1>2. CASE LeaveSession \/ ServerMoves
  BY <1>2, Bounds DEF LeaveSession, ServerMoves, ServerSteps, Others
<1>3. CASE ProxyDone
  BY <1>3 DEF ProxyDone
<1> QED
  BY <1>1, <1>2, <1>3 DEF ProxyNext

(* What does not change keeps what holds of it. *)
LEMMA ServerSame ==
    ASSUME ServerInv, UNCHANGED vars
    PROVE  ServerInv'
<1>1. UNCHANGED <<main, new, slot, array, size, lock, pc, index, stop, races>>
  BY DEF vars, list
<1>2. Listed' = Listed /\ Started' = Started
  BY <1>1 DEF Listed, Started
<1>3. ServerTypeOK' /\ TurnsOK' /\ NoPeerForgotten'
  BY <1>1 DEF ServerInv, ServerTypeOK, MainOK, PeersOK, TurnsOK, NoPeerForgotten
<1>4. SizeOK'
  BY <1>1, <1>2 DEF ServerInv, SizeOK
<1>5. ListOK'
  BY <1>1, <1>2 DEF ServerInv, ListOK, Holds
<1> QED
  BY <1>3, <1>4, <1>5 DEF ServerInv

(* What does not change keeps what holds of it. *)
LEMMA SessionSame ==
    ASSUME Session!SessionInv, ForwardedInOrder, UNCHANGED sessionVars
    PROVE  Session!SessionInv' /\ ForwardedInOrder'
  BY DEF Session!SessionInv, Session!SessionTypeOK, Session!PlacesOK, Session!FlagsOK,
     Session!DataOK, Session!ConnectedOK, Session!JoinedOK, Session!AbortOK, ForwardedInOrder,
     Session!ForwardedInOrder, sessionVars

(* Where the thread of One may go. *)
LEMMA ThreadOfOneGoes ==
    ASSUME ServerInv, ServerMoves
    PROVE  \/ pc'[One] = pc[One]
           \/ pc[One] \in {"away", "suspended"} /\ pc'[One] \in {"suspended", "session", "refused"}
           \/ pc[One] \in {"lock"} \cup Removing /\ pc'[One] \in {"gone"} \cup Removing
<1>1. MainOK /\ PeersOK /\ TurnsOK /\ Nobody \notin Peers /\ One \in Peers
  BY ServerAssumption, Bounds DEF ServerInv, ServerTypeOK
<1> USE DEF Removing, MainGoes, PeerGoes, MainOK, PeersOK, TurnsOK
<1>2. CASE AppendReads \/ AppendRaises \/ RunEnds \/ Free \/ Stop \/ Sleep
  BY <1>2 DEF AppendReads, AppendRaises, RunEnds, Free, Stop, Sleep, vars
<1>3. CASE AppendSets \/ AppendFails
  BY <1>1, <1>3 DEF AppendSets, AppendFails
<1>4. CASE \E p \in Peers : StartPeer(p) \/ Removal(p)
  BY <1>1, <1>4 DEF StartPeer, Removal, LockList, Find, Shift, ReadAgain, Decrement, UnlockList
<1>5. CASE \E p \in Others : SessionOver(p)
  BY <1>1, <1>5 DEF Others, SessionOver
<1> QED
  BY <1>2, <1>3, <1>4, <1>5 DEF ServerMoves, MainStep

(* The session of One keeps to its thread. *)
LEMMA InThread ==
    ASSUME IndProxy, ProxyNext
    PROVE  SessionInThread'
<1>1. PeersOK /\ SessionInThread /\ ServerInv /\ One \in Peers
  BY Bounds DEF IndProxy, ServerInv, ServerTypeOK
<1>2. CASE FrontMoves \/ SessionEvent \/ SeesStop
  BY <1>2 DEF FrontMoves, SessionEvent, SeesStop, vars, SessionInThread, Removing
<1>3. CASE BackMoves
  <2>1. front' = front
    BY <1>3 DEF BackMoves,
       Session!BackStep, Session!InitHookFails, Session!ConnectBegins, Session!Connects,
       Session!ReactivateFails, Session!ConnectFails, Session!Reconnect, Session!ResetDone,
       Session!Clear, Session!Redirected, Session!Disconnect, Session!PostDisconnect,
       Session!LoginFailureHookRefuses, Session!ConnectWithoutNla, Session!GiveUp,
       Session!LoopOnQueue, Session!LoopEnds, Session!ClientStop,
       Session!PostConnectSends, Session!SendQueued, Session!QueueSent, Session!Sent,
       Session!Sending, Session!peer
  <2> QED
    BY <1>1, <1>3, <2>1 DEF BackMoves, vars, SessionInThread
<1>4. CASE TargetEvent
  BY <1>1, <1>4 DEF TargetEvent, Session!TargetLost, Session!Redirect, Session!peer, vars,
     SessionInThread
<1>5. CASE LeaveSession
  BY <1>1, <1>5 DEF LeaveSession, SessionOver, PeerGoes, sessionVars, SessionInThread, PeersOK,
     Removing
<1>6. CASE FreeSession
  BY <1>1, <1>6 DEF FreeSession, Session!Free, Session!FrontGoes, vars, SessionInThread, Removing
<1>7. CASE ServerMoves
  <2>1. front' = front
    BY <1>7 DEF ServerMoves, sessionVars
  <2> QED
    BY <1>1, <1>7, <2>1, ThreadOfOneGoes DEF SessionInThread, Removing
<1>8. CASE ProxyDone
  BY <1>1, <1>8 DEF ProxyDone, proxyVars, vars, sessionVars, SessionInThread
<1> QED
  BY <1>2, <1>3, <1>4, <1>5, <1>6, <1>7, <1>8 DEF ProxyNext

(* What holds of both together implies that nothing is freed too early. *)
LEMMA NothingFreedEarly ==
    ASSUME IndProxy
    PROVE  FreedAfterClient
<1>1. PeersOK /\ SessionInThread /\ NoPeerForgotten /\ Session!JoinedOK /\ One \in Peers
  BY Bounds DEF IndProxy, ServerInv, ServerTypeOK, Session!SessionInv
<1> QED
  BY <1>1 DEF PeersOK, Removing, SessionInThread, NoPeerForgotten, Session!JoinedOK,
     FreedAfterClient

(* Every step keeps all of it. *)
LEMMA ProxyStep ==
    ASSUME IndProxy, [ProxyNext]_proxyVars
    PROVE  IndProxy'
<1>1. ServerInv /\ Session!SessionInv /\ SessionInThread /\ ForwardedInOrder
  BY DEF IndProxy
<1>2. CASE ProxyNext
  <2>1. SessionInThread'
    BY <1>2, InThread
  <2>2. ServerInv'
    BY <1>1, <1>2, OneOrTheOther, ServerStep, ServerSame DEF proxyVars
  <2>3. Session!SessionInv' /\ ForwardedInOrder'
    BY <1>1, <1>2, OneOrTheOther, SessionStep, SessionSame DEF proxyVars
  <2> QED
    BY <2>1, <2>2, <2>3 DEF IndProxy
<1>3. CASE UNCHANGED proxyVars
  <2>1. UNCHANGED vars /\ UNCHANGED sessionVars
    BY <1>3 DEF proxyVars
  <2>2. SessionInThread'
    BY <1>1, <2>1 DEF SessionInThread, vars, sessionVars
  <2> QED
    BY <1>1, <2>1, <2>2, ServerSame, SessionSame DEF IndProxy
<1> QED
  BY <1>2, <1>3

(* The inductive invariant holds in every state. *)
LEMMA Induction == ProxySpec => []IndProxy
<1>1. ProxyInit => IndProxy
  <2> SUFFICES ASSUME ProxyInit PROVE IndProxy
    OBVIOUS
  <2>1. ServerInv /\ Session!SessionInv /\ ForwardedInOrder
    BY ServerInit, SessionInit DEF ProxyInit
  <2>2. SessionInThread
    BY Bounds DEF ProxyInit, Init, Session!Init, SessionInThread, Removing
  <2> QED
    BY <2>1, <2>2 DEF IndProxy
<1>2. IndProxy /\ [ProxyNext]_proxyVars => IndProxy'
  BY ProxyStep
<1> QED
  BY <1>1, <1>2, PTL DEF ProxySpec

(* In every state of the proxy its types are right; the list of peers      *)
(* (pf_server.c), in which ArrayList_Append and ArrayList_Remove of other  *)
(* threads meet, stays within bounds, and holds each running peer once     *)
(* unless a connection comes in the middle of a removal; pf_server_free    *)
(* then frees nothing while a session runs; and proxy_data_free comes      *)
(* after the client's thread has ended.                                    *)
THEOREM ProxyInvariance == ProxySpec => []ProxyInv
<1>1. IndProxy => ProxyInv
  BY NothingFreedEarly DEF IndProxy, ProxyInv
<1> QED
  BY <1>1, Induction, PTL

(* Channel data of the peer reaches the target in the order it came, each  *)
(* message once, over any number of reconnects and redirections; of a      *)
(* channel that the target has none is lost but those SendChannelPacket    *)
(* failed for, and of the others, which sendQueuedChannelData drops, none  *)
(* is sent.                                                                *)
THEOREM DataInOrder == ProxySpec => []ForwardedInOrder
<1>1. IndProxy => ForwardedInOrder
  BY DEF IndProxy
<1> QED
  BY <1>1, Induction, PTL

(* "Only close the connection if NLA fallback process is done": a first    *)
(* connect that fails and is to be retried without NLA does not end the    *)
(* peer's session (pf_client_post_disconnect).                             *)
THEOREM FallbackKept == ProxySpec => []FallbackKeepsPeer
<1>1. IndProxy => FallbackKeepsPeer
  BY FallbackOK DEF IndProxy, Session!SessionInv
<1> QED
  BY <1>1, Induction, PTL
=============================================================================
