------------------- MODULE ShadowMultiClientEventProofs -------------------
(***************************************************************************)
(* Proofs about the multi-client event, for any finite set of clients: the *)
(* inductive invariant, the assertions in the code, the stability of the   *)
(* frame, and that every step is a step of FrameRound.                     *)
(***************************************************************************)
EXTENDS ShadowMultiClientEvent, FiniteSetTheorems, TLAPS

(* The sets behind the two counters are finite, and a counter is zero      *)
(* exactly when its set is empty.                                          *)
LEMMA CountedSets ==
    ASSUME IndInv
    PROVE  /\ IsFiniteSet(Owing) /\ IsFiniteSet(Held) /\ IsFiniteSet(subscribers)
           /\ consuming = 0 <=> Owing = {}
           /\ waiting = 0 <=> Held = {}
<1>1. Owing \subseteq Client /\ Held \subseteq Client /\ subscribers \subseteq Client
  BY DEF IndInv, TypeOK, Owing, Held
<1>2. IsFiniteSet(Owing) /\ IsFiniteSet(Held) /\ IsFiniteSet(subscribers)
  BY <1>1, ClientFinite, FS_Subset
<1> QED
  BY <1>2, FS_EmptySet DEF IndInv, CountersOK

(* Outside a wait of the server nothing is counted: the server publishes   *)
(* into a finished round.                                                  *)
LEMMA QuietServer ==
    ASSUME IndInv, server # "wait"
    PROVE  /\ consuming = 0 /\ waiting = 0
           /\ Owing = {} /\ Held = {}
           /\ ~event /\ ~barrierEvent /\ doneEvent
<1>1. doneEvent
  BY DEF IndInv, WaitersOK
<1>2. consuming = 0 /\ waiting = 0
  BY <1>1 DEF IndInv, EventsOK
<1> QED
  BY <1>1, <1>2, CountedSets DEF IndInv, EventsOK

(* The constructor establishes the inductive invariant. *)
LEMMA InitInv == Init => IndInv
<1> SUFFICES ASSUME Init PROVE IndInv
  OBVIOUS
<1>1. Owing = {} /\ Held = {}
  BY DEF Init, Owing, Held
<1>2. TypeOK
  BY DEF Init, TypeOK
<1>3. SubscribersOK
  BY <1>1 DEF Init, SubscribersOK
<1>4. CountersOK
  BY <1>1, FS_EmptySet DEF Init, CountersOK
<1>5. EventsOK /\ WaitersOK
  BY DEF Init, EventsOK, WaitersOK
<1> QED
  BY <1>2, <1>3, <1>4, <1>5 DEF IndInv

(* Publishing starts a round in which exactly the subscribers owe a share. *)
LEMMA PublishInv ==
    ASSUME IndInv, PublishAndWait
    PROVE  IndInv'
<1> USE DEF PublishAndWait, Publish
<1>1. /\ consuming = 0 /\ waiting = 0 /\ Owing = {} /\ Held = {}
      /\ ~event /\ ~barrierEvent /\ doneEvent
  BY QuietServer
<1>2. IsFiniteSet(subscribers)
  BY CountedSets
<1>3. consuming' = Cardinality(subscribers) /\ consuming' \in Nat
  BY <1>1, <1>2, FS_CardinalityType
<1>4. consuming' = 0 <=> subscribers = {}
  BY <1>2, <1>3, FS_EmptySet
<1>5. /\ event' <=> consuming' > 0
      /\ doneEvent' <=> consuming' = 0
  BY <1>1
<1>6. Held' = {}
  BY <1>1 DEF Held
<1>7. \A c \in Client : c \in subscribers <=> client[c] \in {"loop", "frame"}
  BY <1>1 DEF IndInv, SubscribersOK, TypeOK, Held
<1>8. Owing' = subscribers
  <2>1. CASE subscribers = {}
    BY <2>1, <1>3, <1>4, <1>5 DEF Owing
  <2>2. CASE subscribers # {}
    <3>1. event'
      BY <2>2, <1>3, <1>4, <1>5
    <3> QED
      BY <3>1, <1>7 DEF Owing, IndInv, TypeOK
  <2> QED
    BY <2>1, <2>2
<1>9. TypeOK'
  BY <1>3, <1>5 DEF IndInv, TypeOK
<1>10. SubscribersOK'
  <2>1. \A c \in Client : client[c] # "frame"
    BY <1>1 DEF IndInv, SubscribersOK
  <2> QED
    BY <2>1, <1>8 DEF IndInv, SubscribersOK, TypeOK
<1>11. CountersOK'
  BY <1>1, <1>3, <1>6, <1>8, FS_EmptySet DEF CountersOK
<1>12. EventsOK'
  BY <1>1, <1>3, <1>5 DEF EventsOK
<1>13. WaitersOK'
  <2>1. \A c \in Client : client[c] # "awake"
    BY <1>1 DEF Held
  <2>2. server' # "wait" => doneEvent'
    BY <1>3, <1>5
  <2> QED
    BY <2>1, <2>2 DEF WaitersOK
<1> QED
  BY <1>9, <1>10, <1>11, <1>12, <1>13 DEF IndInv

(* A step of the server that leaves the events and the clients alone. *)
LEMMA ServerReturnInv ==
    ASSUME IndInv, ServerWakes \/ ServerReturns
    PROVE  IndInv'
<1> USE DEF ServerWakes, ServerReturns
<1>1. Owing' = Owing /\ Held' = Held
  BY DEF Owing, Held
<1>2. TypeOK' /\ SubscribersOK'
  BY <1>1 DEF IndInv, TypeOK, SubscribersOK
<1>3. CountersOK' /\ EventsOK'
  BY <1>1 DEF IndInv, CountersOK, EventsOK
<1>4. WaitersOK'
  BY DEF IndInv, WaitersOK
<1> QED
  BY <1>2, <1>3, <1>4 DEF IndInv

(* Subscribing: at the barrier while a round runs, else straight into the  *)
(* loop.                                                                   *)
LEMMA GetSubscriberInv ==
    ASSUME IndInv, NEW c \in Client, GetSubscriber(c)
    PROVE  IndInv'
<1> USE DEF GetSubscriber, Consume
<1>1. consuming' = consuming /\ consuming \in Nat /\ waiting \in Nat
  BY DEF IndInv, TypeOK
<1>2. c \notin Owing /\ c \notin Held
  BY DEF Owing, Held
<1>3. CASE consuming = 0
  <2>1. ~event /\ ~event' /\ Owing = {} /\ Owing' = {}
    BY <1>1, <1>3 DEF IndInv, EventsOK, Owing
  <2>2. Held' = Held /\ waiting' = waiting
    BY <1>1, <1>3 DEF Held, IndInv, TypeOK
  <2>3. barrierEvent' = barrierEvent /\ doneEvent' = doneEvent
    BY <1>1, <1>3 DEF IndInv, EventsOK, TypeOK
  <2>4. client' = [client EXCEPT ![c] = "loop"]
    BY <1>1, <1>3
  <2>5. TypeOK'
    BY <1>1, <2>1, <2>2, <2>3, <2>4 DEF IndInv, TypeOK
  <2>6. SubscribersOK'
    BY <2>1, <2>4 DEF IndInv, SubscribersOK, TypeOK
  <2>7. CountersOK' /\ EventsOK'
    BY <1>1, <2>1, <2>2, <2>3 DEF IndInv, CountersOK, EventsOK
  <2>8. WaitersOK'
    BY <2>3, <2>4 DEF IndInv, WaitersOK, TypeOK
  <2> QED
    BY <2>5, <2>6, <2>7, <2>8 DEF IndInv
<1>4. CASE consuming # 0
  <2>1. /\ client' = [client EXCEPT ![c] = "barrier"]
        /\ waiting' = waiting + 1
        /\ event' = event /\ barrierEvent' = barrierEvent /\ doneEvent' = doneEvent
    BY <1>1, <1>4
  <2>2. Held' = Held \cup {c} /\ Owing' = Owing
    BY <2>1 DEF Held, Owing, IndInv, TypeOK
  <2>3. Cardinality(Held') = Cardinality(Held) + 1
    BY <1>2, <2>2, CountedSets, FS_AddElement
  <2>4. event /\ ~barrierEvent /\ ~doneEvent
    BY <1>1, <1>4 DEF IndInv, EventsOK
  <2>5. TypeOK'
    BY <1>1, <2>1 DEF IndInv, TypeOK
  <2>6. SubscribersOK'
    BY <1>2, <2>1, <2>2 DEF IndInv, SubscribersOK, TypeOK
  <2>7. CountersOK'
    BY <1>1, <2>1, <2>2, <2>3 DEF IndInv, CountersOK
  <2>8. EventsOK'
    BY <1>1, <1>4, <2>1 DEF IndInv, EventsOK
  <2>9. WaitersOK'
    BY <2>1, <2>4 DEF IndInv, WaitersOK, TypeOK
  <2> QED
    BY <2>5, <2>6, <2>7, <2>8, <2>9 DEF IndInv
<1> QED
  BY <1>3, <1>4

(* A subscriber in its loop or at a frame owes a share exactly while the   *)
(* event is set, and consuming it leaves the other debtors.                *)
LEMMA ShareCounted ==
    ASSUME IndInv, event, NEW c \in Client, client[c] \in {"loop", "frame"}
    PROVE  /\ c \in Owing /\ c \notin Held /\ pleaseHandle[c]
           /\ consuming - 1 \in Nat
           /\ consuming - 1 = Cardinality(Owing \ {c})
           /\ consuming - 1 = 0 <=> Owing = {c}
           /\ ~barrierEvent /\ ~doneEvent
<1>1. c \in Owing /\ c \notin Held /\ pleaseHandle[c]
  BY DEF Owing, Held, IndInv, SubscribersOK
<1>2. consuming \in Nat /\ consuming > 0
  BY DEF IndInv, TypeOK, EventsOK
<1>3. Cardinality(Owing \ {c}) = consuming - 1 /\ IsFiniteSet(Owing \ {c})
  BY <1>1, CountedSets, FS_RemoveElement DEF IndInv, CountersOK
<1>4. consuming - 1 = 0 <=> Owing \ {c} = {}
  BY <1>3, FS_EmptySet
<1> QED
  BY <1>1, <1>2, <1>3, <1>4 DEF IndInv, EventsOK

(* The last debtor of a round ends it, by consuming or by leaving: to is   *)
(* "loop" or "out".                                                        *)
LEMMA LastShareInv ==
    ASSUME IndInv, event, NEW c \in Client, client[c] \in {"loop", "frame"},
           NEW to \in {"loop", "out"}, NEW wait,
           consuming = 1, Consume(c, pleaseHandle[c], wait, to), UNCHANGED <<pleaseHandle, server>>,
           subscribers' = IF to = "out" THEN subscribers \ {c} ELSE subscribers
    PROVE  IndInv'
<1>1. /\ Owing = {c} /\ c \notin Held /\ pleaseHandle[c]
      /\ ~barrierEvent /\ ~doneEvent
  <2>1. consuming - 1 = 0
    OBVIOUS
  <2> QED
    BY <2>1, ShareCounted
<1>2. consuming' = 0
  BY <1>1 DEF Consume
<1>3. /\ ~event' /\ event' \in BOOLEAN
      /\ barrierEvent' \in BOOLEAN /\ (barrierEvent' <=> waiting > 0)
      /\ doneEvent' \in BOOLEAN /\ (doneEvent' <=> waiting = 0)
      /\ client' = [client EXCEPT ![c] = to]
      /\ waiting' = waiting
  BY <1>1, <1>2 DEF Consume
<1>4. Owing' = {} /\ Held' = Held
  BY <1>1, <1>3 DEF Owing, Held, IndInv, TypeOK
<1>5. \A d \in Client : client'[d] # "frame" /\ client'[d] # "awake"
  <2>1. \A d \in Client : d # c => client[d] \notin {"loop", "frame"}
    BY <1>1 DEF Owing
  <2>2. \A d \in Client : client[d] # "awake"
    BY <1>1 DEF IndInv, WaitersOK
  <2> QED
    BY <1>3, <2>1, <2>2 DEF IndInv, TypeOK
<1>6. TypeOK'
  BY <1>2, <1>3 DEF IndInv, TypeOK
<1>7. SubscribersOK'
  BY <1>3, <1>4, <1>5 DEF IndInv, SubscribersOK, TypeOK
<1>8. CountersOK'
  BY <1>2, <1>3, <1>4, FS_EmptySet DEF IndInv, CountersOK
<1>9. EventsOK'
  BY <1>2, <1>3 DEF EventsOK
<1>10. WaitersOK'
  BY <1>1, <1>5 DEF IndInv, WaitersOK
<1> QED
  BY <1>6, <1>7, <1>8, <1>9, <1>10 DEF IndInv

(* Consuming a frame. *)
LEMMA ConsumeFrameInv ==
    ASSUME IndInv, NEW c \in Client, ConsumeFrame(c)
    PROVE  IndInv'
<1> USE DEF ConsumeFrame
<1>1. event /\ client[c] \in {"loop", "frame"}
  BY DEF IndInv, SubscribersOK
<1>2. /\ c \in Owing /\ c \notin Held /\ pleaseHandle[c]
      /\ consuming - 1 \in Nat
      /\ consuming - 1 = Cardinality(Owing \ {c})
      /\ ~barrierEvent /\ ~doneEvent
  BY <1>1, ShareCounted
<1>3. CASE consuming = 1
  BY <1>1, <1>3, LastShareInv
<1>4. CASE consuming # 1
  <2>1. consuming' = consuming - 1 /\ consuming' # 0
    BY <1>1, <1>2, <1>4 DEF Consume, IndInv, TypeOK
  <2>2. /\ client' = [client EXCEPT ![c] = "barrier"]
        /\ waiting' = waiting + 1
        /\ event' = event /\ barrierEvent' = barrierEvent /\ doneEvent' = doneEvent
    BY <2>1 DEF Consume
  <2>3. Held' = Held \cup {c} /\ Owing' = Owing \ {c}
    BY <1>1, <2>2 DEF Held, Owing, IndInv, TypeOK
  <2>4. Cardinality(Held') = Cardinality(Held) + 1
    BY <1>2, <2>3, CountedSets, FS_AddElement
  <2>5. TypeOK'
    BY <1>2, <2>1, <2>2 DEF IndInv, TypeOK
  <2>6. SubscribersOK'
    BY <2>2, <2>3 DEF IndInv, SubscribersOK, TypeOK
  <2>7. CountersOK'
    BY <1>2, <2>1, <2>2, <2>3, <2>4 DEF IndInv, CountersOK, TypeOK
  <2>8. EventsOK'
    <3>1. consuming' > 0
      BY <1>2, <2>1 DEF IndInv, TypeOK
    <3>2. event' /\ ~barrierEvent' /\ ~doneEvent'
      BY <1>1, <1>2, <2>2 DEF IndInv, TypeOK
    <3> QED
      BY <3>1, <3>2 DEF EventsOK
  <2>9. WaitersOK'
    BY <1>2, <2>2 DEF IndInv, WaitersOK, TypeOK
  <2> QED
    BY <2>5, <2>6, <2>7, <2>8, <2>9 DEF IndInv
<1> QED
  BY <1>3, <1>4

(* Releasing a subscriber, in a round or between rounds. *)
LEMMA ReleaseSubscriberInv ==
    ASSUME IndInv, NEW c \in Client, ReleaseSubscriber(c)
    PROVE  IndInv'
<1> USE DEF ReleaseSubscriber
<1>1. CASE event
  <2>1. /\ c \in Owing /\ c \notin Held /\ pleaseHandle[c]
        /\ consuming - 1 \in Nat
        /\ consuming - 1 = Cardinality(Owing \ {c})
        /\ ~barrierEvent /\ ~doneEvent
    BY <1>1, ShareCounted
  <2>2. CASE consuming = 1
    BY <1>1, <2>2, LastShareInv
  <2>3. CASE consuming # 1
    <3>1. consuming' = consuming - 1 /\ consuming' # 0
      BY <1>1, <2>1, <2>3 DEF Consume, IndInv, TypeOK
    <3>2. /\ client' = [client EXCEPT ![c] = "out"]
          /\ waiting' = waiting
          /\ event' = event /\ barrierEvent' = barrierEvent /\ doneEvent' = doneEvent
      BY <3>1 DEF Consume
    <3>3. Held' = Held /\ Owing' = Owing \ {c}
      BY <1>1, <3>2 DEF Held, Owing, IndInv, TypeOK
    <3>4. TypeOK'
      BY <2>1, <3>1, <3>2 DEF IndInv, TypeOK
    <3>5. SubscribersOK'
      BY <3>2, <3>3 DEF IndInv, SubscribersOK, TypeOK
    <3>6. CountersOK'
      BY <2>1, <3>1, <3>2, <3>3 DEF IndInv, CountersOK
    <3>7. EventsOK'
      <4>1. consuming' > 0
        BY <2>1, <3>1 DEF IndInv, TypeOK
      <4>2. event' /\ ~barrierEvent' /\ ~doneEvent'
        BY <1>1, <2>1, <3>2 DEF IndInv, TypeOK
      <4> QED
        BY <4>1, <4>2 DEF EventsOK
    <3>8. WaitersOK'
      BY <2>1, <3>2 DEF IndInv, WaitersOK, TypeOK
    <3> QED
      BY <3>4, <3>5, <3>6, <3>7, <3>8 DEF IndInv
  <2> QED
    BY <2>2, <2>3
<1>2. CASE ~event
  <2>1. consuming = 0 /\ consuming' = 0
    BY <1>2 DEF Consume, IndInv, EventsOK, TypeOK
  <2>2. /\ client' = [client EXCEPT ![c] = "out"]
        /\ waiting' = waiting /\ ~event' /\ event' \in BOOLEAN
        /\ barrierEvent' = barrierEvent /\ doneEvent' = doneEvent
    BY <2>1 DEF Consume, IndInv, EventsOK, TypeOK
  <2>3. Held' = Held /\ Owing = {} /\ Owing' = {}
    BY <1>2, <2>2 DEF Held, Owing, IndInv, TypeOK
  <2>4. TypeOK'
    BY <2>1, <2>2 DEF IndInv, TypeOK
  <2>5. SubscribersOK'
    BY <1>2, <2>2, <2>3 DEF IndInv, SubscribersOK, TypeOK
  <2>6. CountersOK' /\ EventsOK'
    BY <1>2, <2>1, <2>2, <2>3 DEF IndInv, CountersOK, EventsOK
  <2>7. WaitersOK'
    BY <2>2 DEF IndInv, WaitersOK, TypeOK
  <2> QED
    BY <2>4, <2>5, <2>6, <2>7 DEF IndInv
<1> QED
  BY <1>1, <1>2

(* Starting on a frame and returning from the barrier wait only move the   *)
(* thread.                                                                 *)
LEMMA StartFrameInv ==
    ASSUME IndInv, NEW c \in Client, StartFrame(c)
    PROVE  IndInv'
<1> USE DEF StartFrame
<1>1. Owing' = Owing /\ Held' = Held
  BY DEF Owing, Held, IndInv, TypeOK
<1>2. TypeOK' /\ SubscribersOK'
  BY <1>1 DEF IndInv, TypeOK, SubscribersOK
<1>3. CountersOK' /\ EventsOK'
  BY <1>1 DEF IndInv, CountersOK, EventsOK
<1>4. WaitersOK'
  BY DEF IndInv, WaitersOK, TypeOK
<1> QED
  BY <1>2, <1>3, <1>4 DEF IndInv

LEMMA LeaveBarrierInv ==
    ASSUME IndInv, NEW c \in Client, LeaveBarrier(c)
    PROVE  IndInv'
<1> USE DEF LeaveBarrier
<1>1. Owing' = Owing /\ Held' = Held
  BY DEF Owing, Held, IndInv, TypeOK
<1>2. TypeOK' /\ SubscribersOK'
  BY <1>1 DEF IndInv, TypeOK, SubscribersOK
<1>3. CountersOK' /\ EventsOK'
  BY <1>1 DEF IndInv, CountersOK, EventsOK
<1>4. WaitersOK'
  BY DEF IndInv, WaitersOK, TypeOK
<1> QED
  BY <1>2, <1>3, <1>4 DEF IndInv

(* Leaving the barrier: the last thread to leave closes it and lets the    *)
(* server continue.                                                        *)
LEMMA ResumeConsumeInv ==
    ASSUME IndInv, NEW c \in Client, ResumeConsume(c)
    PROVE  IndInv'
<1> USE DEF ResumeConsume
<1>1. barrierEvent /\ ~event /\ ~doneEvent /\ consuming = 0
  BY DEF IndInv, WaitersOK, EventsOK, TypeOK
<1>2. c \in Held /\ Held' = Held \ {c} /\ Owing = {} /\ Owing' = {}
  BY <1>1 DEF Held, Owing, IndInv, TypeOK
<1>3. waiting' = Cardinality(Held') /\ waiting' \in Nat /\ (waiting' = 0 <=> Held' = {})
  <2>1. Cardinality(Held') = Cardinality(Held) - 1 /\ IsFiniteSet(Held')
    BY <1>2, CountedSets, FS_RemoveElement
  <2>2. waiting' = Cardinality(Held')
    BY <2>1 DEF IndInv, CountersOK
  <2> QED
    BY <2>1, <2>2, FS_CardinalityType, FS_EmptySet
<1>4. (barrierEvent' <=> waiting' > 0) /\ (doneEvent' <=> waiting' = 0)
  <2>1. (barrierEvent' <=> waiting' # 0) /\ (doneEvent' <=> waiting' = 0)
    BY <1>1
  <2>2. waiting' # 0 <=> waiting' > 0
    <3>1. waiting' \in Nat
      BY <1>3
    <3> HIDE DEF ResumeConsume
    <3> QED
      BY <3>1
  <2> QED
    BY <2>1, <2>2
<1>5. TypeOK'
  BY <1>3, <1>4 DEF IndInv, TypeOK
<1>6. SubscribersOK'
  BY <1>1, <1>2 DEF IndInv, SubscribersOK, TypeOK
<1>7. CountersOK'
  BY <1>1, <1>2, <1>3, FS_EmptySet DEF IndInv, CountersOK
<1>8. EventsOK'
  BY <1>1, <1>4 DEF EventsOK, IndInv, TypeOK
<1>9. WaitersOK'
  <2>1. server = "wait"
    BY <1>1 DEF IndInv, WaitersOK
  <2>2. ASSUME NEW d \in Client, client'[d] = "awake" PROVE barrierEvent'
    <3>1. d \in Held'
      BY <2>2 DEF Held
    <3>2. waiting' # 0
      BY <3>1, <1>3
    <3> QED
      BY <3>2, <1>1
  <2> QED
    BY <2>1, <2>2 DEF WaitersOK
<1> QED
  BY <1>5, <1>6, <1>7, <1>8, <1>9 DEF IndInv

(* Every step preserves the inductive invariant. *)
LEMMA NextInv == IndInv /\ [Next]_mceVars => IndInv'
<1> SUFFICES ASSUME IndInv, [Next]_mceVars PROVE IndInv'
  OBVIOUS
<1>1. CASE PublishAndWait
  BY <1>1, PublishInv
<1>2. CASE ServerWakes \/ ServerReturns
  BY <1>2, ServerReturnInv
<1>3. CASE \E c \in Client : ClientNext(c)
  <2> PICK c \in Client : ClientNext(c)
    BY <1>3
  <2> QED
    BY GetSubscriberInv, StartFrameInv, ConsumeFrameInv, LeaveBarrierInv,
       ResumeConsumeInv, ReleaseSubscriberInv DEF ClientNext
<1>4. CASE UNCHANGED mceVars
  <2>1. Owing' = Owing /\ Held' = Held
    BY <1>4 DEF mceVars, Owing, Held
  <2>2. TypeOK' /\ SubscribersOK'
    BY <1>4, <2>1 DEF mceVars, IndInv, TypeOK, SubscribersOK
  <2>3. CountersOK' /\ EventsOK' /\ WaitersOK'
    BY <1>4, <2>1 DEF mceVars, IndInv, CountersOK, EventsOK, WaitersOK
  <2> QED
    BY <2>2, <2>3 DEF IndInv
<1> QED
  BY <1>1, <1>2, <1>3, <1>4 DEF Next, ServerNext

(* The counters, the events and the threads' positions agree at all times, *)
(* for any number of client threads.                                       *)
THEOREM Invariance == Spec => []IndInv
<1> QED
  BY InitInv, NextInv, PTL DEF Spec

(* The type invariant. *)
THEOREM TypeCorrect == Spec => []TypeOK
<1>1. IndInv => TypeOK
  BY DEF IndInv
<1> QED
  BY <1>1, Invariance, PTL

(* No WINPR_ASSERT of shadow_mcevent.c can fail. *)
THEOREM Assertions == Spec => []AssertionsHold
<1>1. IndInv => AssertionsHold
  <2> SUFFICES ASSUME IndInv PROVE AssertionsHold
    OBVIOUS
  <2>1. server # "wait" => consuming = 0 /\ ~event
    BY QuietServer
  <2>2. consuming >= 0
    BY DEF IndInv, TypeOK
  <2> QED
    BY <2>1, <2>2 DEF AssertionsHold
<1> QED
  BY <1>1, Invariance, PTL

(* No client works on a frame that the subsystem thread could change. *)
THEOREM FrameStability == Spec => []FrameIsStable
<1>1. IndInv => FrameIsStable
  <2> SUFFICES ASSUME IndInv, NEW c \in Client, client[c] = "frame"
               PROVE  server = "wait" /\ event /\ ~doneEvent
    BY DEF FrameIsStable
  <2>1. event
    BY DEF IndInv, SubscribersOK
  <2> QED
    BY <2>1, QuietServer DEF IndInv, EventsOK, TypeOK
<1> QED
  BY <1>1, Invariance, PTL

(* Every step of a client thread is a step of FrameRound or none at all.   *)
LEMMA ClientStepAbstract ==
    ASSUME IndInv, IndInv', NEW c \in Client, ClientNext(c)
    PROVE  Abstract!Next \/ UNCHANGED Abstract!frVars
<1>1. CASE GetSubscriber(c)
  <2> USE <1>1 DEF GetSubscriber, Consume
  <2>1. c \notin subscribers /\ consuming' = consuming /\ UNCHANGED server
    BY DEF IndInv, SubscribersOK
  <2>2. CASE consuming = 0
    <3>1. Owing = {} /\ Owing' = {}
      BY <2>1, <2>2, CountedSets DEF IndInv, EventsOK, Owing
    <3>2. Held' = Held
      BY <2>1, <2>2 DEF Held, IndInv, TypeOK
    <3> QED
      BY <2>1, <3>1, <3>2 DEF Abstract!Next, Abstract!Join
  <2>3. CASE consuming # 0
    <3>1. client' = [client EXCEPT ![c] = "barrier"] /\ event' = event
      BY <2>1, <2>3
    <3>2. Owing' = Owing /\ Held' = Held \cup {c}
      BY <3>1 DEF Owing, Held, IndInv, TypeOK
    <3>3. Owing # {}
      BY <2>3, CountedSets
    <3> QED
      BY <2>1, <3>2, <3>3 DEF Abstract!Next, Abstract!Join
  <2> QED
    BY <2>2, <2>3
<1>2. CASE StartFrame(c) \/ LeaveBarrier(c)
  <2>1. Owing' = Owing /\ Held' = Held
    BY <1>2 DEF StartFrame, LeaveBarrier, Owing, Held, IndInv, TypeOK
  <2>2. UNCHANGED <<subscribers, server>>
    BY <1>2 DEF StartFrame, LeaveBarrier
  <2> QED
    BY <2>1, <2>2 DEF Abstract!frVars
<1>3. CASE ConsumeFrame(c)
  <2> USE <1>3 DEF ConsumeFrame, Consume
  <2>1. event /\ UNCHANGED <<subscribers, server>>
    BY DEF IndInv, SubscribersOK
  <2>2. c \in Owing /\ pleaseHandle[c] /\ (consuming - 1 = 0 <=> Owing = {c})
    BY <2>1, ShareCounted
  <2>3. consuming' = consuming - 1
    BY <2>1, <2>2
  <2>4. CASE consuming' = 0
    <3>1. Owing' = {} /\ Owing = {c}
      BY <2>2, <2>3, <2>4 DEF Owing
    <3>2. Held' = Held
      BY <2>4 DEF Held, IndInv, TypeOK
    <3>3. Owing' = Owing \ {c}
      BY <3>1
    <3> QED
      BY <2>1, <2>2, <3>1, <3>2, <3>3 DEF Abstract!Next, Abstract!Take
  <2>5. CASE consuming' # 0
    <3>1. client' = [client EXCEPT ![c] = "barrier"] /\ event' = event
      BY <2>5
    <3>2. Owing' = Owing \ {c} /\ Held' = Held \cup {c}
      BY <2>1, <3>1 DEF Owing, Held, IndInv, TypeOK
    <3>3. Owing' # {}
      BY <2>2, <2>3, <2>5, <3>2
    <3> QED
      BY <2>1, <2>2, <3>2, <3>3 DEF Abstract!Next, Abstract!Take
  <2> QED
    BY <2>4, <2>5
<1>4. CASE ResumeConsume(c)
  <2> USE <1>4 DEF ResumeConsume
  <2>1. ~event /\ UNCHANGED <<event, subscribers, server>>
    BY DEF IndInv, WaitersOK, EventsOK, TypeOK
  <2>2. c \in Held /\ Held' = Held \ {c} /\ Owing = {} /\ Owing' = {}
    BY <2>1 DEF Held, Owing, IndInv, TypeOK
  <2> QED
    BY <2>1, <2>2 DEF Abstract!Next, Abstract!LetGo
<1>5. CASE ReleaseSubscriber(c)
  <2> USE <1>5 DEF ReleaseSubscriber
  <2>1. c \in subscribers /\ c \notin Held /\ subscribers' = subscribers \ {c} /\ UNCHANGED server
    BY DEF IndInv, SubscribersOK, Held
  <2>2. client' = [client EXCEPT ![c] = "out"]
    BY DEF Consume
  <2>3. Held' = Held
    BY <2>2 DEF Held, IndInv, TypeOK
  <2>4. Owing' = Owing \ {c}
    <3>1. CASE event' = event
      BY <2>2, <3>1 DEF Owing, IndInv, TypeOK
    <3>2. CASE event' # event
      <4>1. consuming' = 0 /\ event /\ ~event'
        BY <3>2 DEF Consume, IndInv, TypeOK
      <4>2. consuming - 1 = 0 /\ Owing = {c}
        BY <4>1, ShareCounted DEF Consume
      <4> QED
        BY <4>1, <4>2 DEF Owing
    <3> QED
      BY <3>1, <3>2
  <2> QED
    BY <2>1, <2>3, <2>4 DEF Abstract!Next, Abstract!Leave
<1> QED
  BY <1>1, <1>2, <1>3, <1>4, <1>5 DEF ClientNext

(* Every step of the server is a step of FrameRound or none at all. *)
LEMMA ServerStepAbstract ==
    ASSUME IndInv, IndInv', ServerNext
    PROVE  Abstract!Next \/ UNCHANGED Abstract!frVars
<1>1. CASE PublishAndWait
  <2> USE <1>1 DEF PublishAndWait, Publish
  <2>1. consuming = 0 /\ Held = {} /\ ~event /\ server = "idle"
    BY QuietServer
  <2>2. IsFiniteSet(subscribers)
    BY CountedSets
  <2>3. consuming' = Cardinality(subscribers) /\ consuming' \in Nat
    BY <2>1, <2>2, FS_CardinalityType
  <2>4. consuming' > 0 <=> subscribers # {}
    BY <2>2, <2>3, FS_EmptySet
  <2>5. event' <=> subscribers # {}
    BY <2>1, <2>4
  <2>6. Owing' = subscribers /\ Held' = Held
    BY <2>1, <2>5 DEF Owing, Held, IndInv, SubscribersOK, TypeOK
  <2>7. (server # "idle")' <=> subscribers # {}
    BY <2>4
  <2> QED
    BY <2>1, <2>6, <2>7 DEF Abstract!Next, Abstract!Open
<1>2. CASE ServerWakes
  <2>1. Owing' = Owing /\ Held' = Held /\ UNCHANGED subscribers
    BY <1>2 DEF ServerWakes, Owing, Held
  <2>2. server # "idle" /\ server' # "idle"
    BY <1>2 DEF ServerWakes
  <2> QED
    BY <2>1, <2>2 DEF Abstract!frVars
<1>3. CASE ServerReturns
  <2>1. Owing' = Owing /\ Held' = Held /\ UNCHANGED subscribers
    BY <1>3 DEF ServerReturns, Owing, Held
  <2>2. server = "awake" /\ server' = "idle"
    BY <1>3 DEF ServerReturns
  <2>3. Owing = {} /\ Held = {}
    BY <2>2, QuietServer
  <2> QED
    BY <2>1, <2>2, <2>3 DEF Abstract!Next, Abstract!Close
<1> QED
  BY <1>1, <1>2, <1>3 DEF ServerNext

(* Every step is a step of FrameRound or none at all. *)
LEMMA NextAbstract ==
    ASSUME IndInv, IndInv', [Next]_mceVars
    PROVE  Abstract!Next \/ UNCHANGED Abstract!frVars
<1>1. CASE ServerNext
  BY <1>1, ServerStepAbstract
<1>2. CASE \E c \in Client : ClientNext(c)
  BY <1>2, ClientStepAbstract
<1>3. CASE UNCHANGED mceVars
  BY <1>3 DEF mceVars, Abstract!frVars, Owing, Held
<1> QED
  BY <1>1, <1>2, <1>3 DEF Next

(* A new event is a new FrameRound. *)
LEMMA InitAbstract == Init => Abstract!Init
  BY DEF Init, Abstract!Init, Owing, Held

(* shadow_mcevent.c implements FrameRound, for any finite set of clients:  *)
(* whoever owes a share, is held or is let go is what FrameRound allows,   *)
(* whatever threads join, leave or fail on the way.                        *)
THEOREM Refinement == Spec => IsFrameRound
<1>1. IndInv /\ IndInv' /\ [Next]_mceVars => [Abstract!Next]_(Abstract!frVars)
  BY NextAbstract
<1> QED
  BY <1>1, InitAbstract, Invariance, PTL DEF Spec, IsFrameRound, Abstract!Spec
=============================================================================
