-------------------------- MODULE ThreadPoolProofs --------------------------
(***************************************************************************)
(* Proofs about the thread pool, for any finite sets of callers and        *)
(* threads: the countdown event counts what is owed, and a wait returns    *)
(* only when nothing of that caller is left (WorkBatches).                 *)
(***************************************************************************)
EXTENDS ThreadPool, FiniteSetTheorems, TLAPS

(* The sets that are counted are finite, and their sizes are numbers. *)
LEMMA CountedSetsFinite ==
    /\ IsFiniteSet(Counted) /\ Cardinality(Counted) \in Nat
    /\ IsFiniteSet(Signalling) /\ Cardinality(Signalling) \in Nat
    /\ \A c : IsFiniteSet(RunFor(c)) /\ Cardinality(RunFor(c)) \in Nat
<1>1. /\ Counted \subseteq Caller /\ Signalling \subseteq Worker
      /\ \A c : RunFor(c) \subseteq Worker
  BY DEF Counted, Signalling, RunFor
<1>2. IsFiniteSet(Caller) /\ IsFiniteSet(Worker)
  BY ThreadPoolAssumption
<1>3. IsFiniteSet(Counted) /\ IsFiniteSet(Signalling) /\ \A c : IsFiniteSet(RunFor(c))
  BY <1>1, <1>2, FS_Subset
<1> QED
  BY <1>3, FS_CardinalityType

-----------------------------------------------------------------------------
(***************************************************************************)
(* PoolInv is inductive.                                                   *)
(***************************************************************************)

(* InitializeThreadpool leaves nothing to be counted. *)
LEMMA InitInv == Init => PoolInv
<1> SUFFICES ASSUME Init PROVE PoolInv
  OBVIOUS
<1> USE DEF Init
<1>1. Counted = {} /\ Signalling = {}
  BY DEF Counted, Signalling
<1>2. CallersOK
  BY ThreadPoolAssumption DEF CallersOK
<1>3. QueueOK
  BY ThreadPoolAssumption DEF QueueOK
<1>4. WorkersOK
  BY DEF WorkersOK
<1>5. OwnerOK /\ FlagsOK
  BY DEF OwnerOK, FlagsOK
<1>6. CountOwed
  BY <1>1, FS_EmptySet DEF CountOwed
<1> QED
  BY <1>2, <1>3, <1>4, <1>5, <1>6 DEF PoolInv, PoolTypeOK

(* A caller counts a callback before it queues it. *)
LEMMA AddCountInv ==
    ASSUME PoolInv, NEW c \in Caller, AddCount(c)
    PROVE  PoolInv'
<1> USE DEF AddCount, queueVars, workerVars, ownerVars
<1> USE DEF PoolInv, PoolTypeOK
<1>1. Counted' = Counted \cup {c} /\ c \notin Counted /\ Signalling' = Signalling
  BY DEF CallersOK, Counted, Signalling
<1>2. Cardinality(Counted') = Cardinality(Counted) + 1
  BY <1>1, CountedSetsFinite, FS_AddElement
<1>3. CallersOK' /\ QueueOK'
  BY DEF CallersOK, QueueOK
<1>4. WorkersOK' /\ OwnerOK' /\ FlagsOK'
  BY DEF WorkersOK, OwnerOK, FlagsOK
<1>5. CountOwed'
  <2>1. count' = Cardinality(Counted') + Len(pending') + Cardinality(Signalling') + lost'
    BY <1>1, <1>2, CountedSetsFinite DEF QueueOK, CountOwed
  <2>2. count' # 0
    BY DEF QueueOK
  <2>3. ~complete'
    BY DEF CountOwed
  <2> QED
    BY <2>1, <2>2, <2>3 DEF CountOwed
<1> QED
  BY <1>3, <1>4, <1>5

(* What was counted goes into the queue, or is lost. *)
LEMMA EnqueueInv ==
    ASSUME PoolInv, NEW c \in Caller, Enqueue(c) \/ EnqueueLost(c)
    PROVE  PoolInv'
<1> USE DEF Enqueue, EnqueueLost, queueVars, countVars, workerVars, ownerVars
<1> USE DEF PoolInv, PoolTypeOK
<1>1. Counted' = Counted \ {c} /\ c \in Counted /\ Signalling' = Signalling
  BY DEF CallersOK, Counted, Signalling
<1>2. Cardinality(Counted') = Cardinality(Counted) - 1
  BY <1>1, CountedSetsFinite, FS_RemoveElement
<1>3. QueueOK'
  <2>1. pending \in Seq(Caller) /\ count \in Nat /\ lost \in 0..MaxLost /\ count' = count
    BY DEF QueueOK
  <2>2. CASE Enqueue(c)
    <3>1. pending' = Append(pending, c) /\ lost' = lost
      BY <2>2
    <3> QED
      BY <2>1, <3>1 DEF QueueOK
  <2>3. CASE EnqueueLost(c)
    <3>1. pending' = pending /\ lost' = lost + 1 /\ lost < MaxLost
      BY <2>3
    <3> QED
      BY <2>1, <3>1, ThreadPoolAssumption DEF QueueOK
  <2> QED
    BY <2>2, <2>3
<1>4. Len(pending') + lost' = Len(pending) + lost + 1
  <2>1. Len(pending) \in Nat /\ lost \in Nat
    BY ThreadPoolAssumption DEF QueueOK
  <2>2. CASE Enqueue(c)
    <3>1. Len(pending') = Len(pending) + 1
      BY <2>2 DEF QueueOK
    <3> QED
      BY <2>1, <2>2, <3>1
  <2>3. CASE EnqueueLost(c)
    BY <2>1, <2>3
  <2> QED
    BY <2>2, <2>3
<1>5. CallersOK'
  BY ThreadPoolAssumption DEF CallersOK
<1>6. WorkersOK' /\ OwnerOK' /\ FlagsOK'
  <2>1. queueEvent' \in BOOLEAN
    BY Zenon DEF FlagsOK
  <2> QED
    BY <2>1 DEF WorkersOK, OwnerOK, FlagsOK
<1>7. CountOwed'
  <2>1. count' = Cardinality(Counted') + Len(pending') + Cardinality(Signalling') + lost'
    <3>1. /\ Len(pending) \in Nat /\ Len(pending') \in Nat
          /\ lost \in Nat /\ lost' \in Nat
      BY <1>3, ThreadPoolAssumption DEF QueueOK
    <3> QED
      BY <1>1, <1>2, <1>4, <3>1, CountedSetsFinite DEF CountOwed
  <2>2. queueEvent' <=> pending' # <<>>
    <3>1. CASE Enqueue(c)
      <4>1. pending' # <<>>
        BY <3>1 DEF QueueOK
      <4>2. queueEvent'
        BY <3>1 DEF CountOwed
      <4> QED
        BY <4>1, <4>2
    <3>2. CASE EnqueueLost(c)
      BY <3>2 DEF CountOwed
    <3> QED
      BY <3>1, <3>2
  <2>3. complete' <=> count' = 0
    BY DEF CountOwed
  <2> QED
    BY <2>1, <2>2, <2>3 DEF CountOwed
<1> QED
  BY <1>3, <1>5, <1>6, <1>7

(* The other steps of a caller count nothing. *)
LEMMA CallerRestInv ==
    ASSUME PoolInv, NEW c \in Caller,
           SubmitFails(c) \/ WaitForCallbacks(c) \/ WaitReturns(c)
    PROVE  PoolInv'
<1> USE DEF SubmitFails, WaitForCallbacks, WaitReturns,
            queueVars, countVars, workerVars, ownerVars
<1> USE DEF PoolInv, PoolTypeOK
<1>1. Counted' = Counted /\ Signalling' = Signalling
  BY DEF CallersOK, Counted, Signalling
<1>2. CallersOK'
  BY ThreadPoolAssumption DEF CallersOK
<1>3. QueueOK' /\ WorkersOK' /\ OwnerOK' /\ FlagsOK'
  BY DEF QueueOK, WorkersOK, OwnerOK, FlagsOK
<1>4. CountOwed'
  BY <1>1 DEF CountOwed
<1> QED
  BY <1>2, <1>3, <1>4

(* A worker that waits for the next callback, or ends. *)
LEMMA WorkerWaitInv ==
    ASSUME PoolInv, NEW w \in Worker, WorkerExits(w) \/ WorkerWakes(w)
    PROVE  PoolInv'
<1> USE DEF WorkerExits, WorkerWakes, callerVars, queueVars, countVars, ownerVars
<1> USE DEF PoolInv, PoolTypeOK
<1>1. Counted' = Counted /\ Signalling' = Signalling
  BY DEF WorkersOK, Counted, Signalling
<1>2. WorkersOK'
  BY DEF WorkersOK
<1>3. CallersOK' /\ QueueOK' /\ OwnerOK' /\ FlagsOK'
  BY DEF CallersOK, QueueOK, OwnerOK, FlagsOK
<1>4. CountOwed'
  BY <1>1 DEF CountOwed
<1> QED
  BY <1>2, <1>3, <1>4

(* A worker takes the first callback of the queue, or finds it empty. *)
LEMMA DequeueInv ==
    ASSUME PoolInv, NEW w \in Worker, Dequeue(w)
    PROVE  PoolInv'
<1> USE DEF Dequeue, callerVars, countVars, ownerVars
<1> USE DEF PoolInv, PoolTypeOK
<1>1. CallersOK' /\ OwnerOK' /\ Counted' = Counted
  BY DEF CallersOK, OwnerOK, Counted
<1>2. CASE pending = <<>>
  <2>1. Signalling' = Signalling
    BY <1>2 DEF WorkersOK, Signalling
  <2>2. WorkersOK'
    BY <1>2 DEF WorkersOK
  <2>3. QueueOK' /\ FlagsOK'
    BY <1>2 DEF QueueOK, FlagsOK
  <2>4. CountOwed'
    BY <1>1, <1>2, <2>1 DEF CountOwed
  <2> QED
    BY <1>1, <2>2, <2>3, <2>4
<1>3. CASE pending # <<>>
  <2>1. /\ Head(pending) \in Caller /\ pending' \in Seq(Caller)
        /\ Len(pending') = Len(pending) - 1 /\ Len(pending) \in Nat \ {0}
    <3>1. pending \in Seq(Caller) /\ pending # <<>> /\ pending' = Tail(pending)
      BY <1>3 DEF QueueOK
    <3> QED
      BY <3>1
  <2>2. WorkersOK'
    BY <1>3, <2>1, ThreadPoolAssumption DEF WorkersOK
  <2>3. QueueOK'
    BY <2>1 DEF QueueOK
  <2>4. FlagsOK'
    <3>1. queueEvent' = (queueEvent /\ pending' # <<>>)
      BY <1>3
    <3>2. queueEvent' \in BOOLEAN
      BY <3>1, Zenon
    <3> QED
      BY <3>2 DEF FlagsOK
  <2>5. CountOwed'
    <3>1. Signalling' = Signalling \cup {w} /\ w \notin Signalling
      BY <1>3 DEF WorkersOK, Signalling
    <3>2. Cardinality(Signalling') = Cardinality(Signalling) + 1
      BY <3>1, CountedSetsFinite, FS_AddElement
    <3>3. count' = Cardinality(Counted') + Len(pending') + Cardinality(Signalling') + lost'
      BY <1>1, <2>1, <3>2, CountedSetsFinite, ThreadPoolAssumption DEF QueueOK, CountOwed
    <3>4. queueEvent' <=> pending' # <<>>
      BY <1>3 DEF CountOwed
    <3> QED
      BY <3>3, <3>4 DEF CountOwed
  <2> QED
    BY <1>1, <2>2, <2>3, <2>4, <2>5
<1> QED
  BY <1>2, <1>3

(* A callback stays counted when it has returned, until it is signalled. *)
LEMMA CallbackReturnsInv ==
    ASSUME PoolInv, NEW w \in Worker, CallbackReturns(w)
    PROVE  PoolInv'
<1> USE DEF CallbackReturns, callerVars, queueVars, countVars, ownerVars
<1> USE DEF PoolInv, PoolTypeOK
<1>1. Counted' = Counted /\ Signalling' = Signalling
  BY DEF WorkersOK, Counted, Signalling
<1>2. WorkersOK'
  BY DEF WorkersOK
<1>3. CallersOK' /\ QueueOK' /\ OwnerOK' /\ FlagsOK'
  BY DEF CallersOK, QueueOK, OwnerOK, FlagsOK
<1>4. CountOwed'
  BY <1>1 DEF CountOwed
<1> QED
  BY <1>2, <1>3, <1>4

(* The signal takes one away; there is one to take. *)
LEMMA SignalInv ==
    ASSUME PoolInv, NEW w \in Worker, Signal(w)
    PROVE  PoolInv'
<1> USE DEF Signal, callerVars, queueVars, ownerVars
<1> USE DEF PoolInv, PoolTypeOK
<1>1. Counted' = Counted /\ Signalling' = Signalling \ {w} /\ w \in Signalling
  BY DEF WorkersOK, Counted, Signalling
<1>2. /\ Cardinality(Signalling') = Cardinality(Signalling) - 1
      /\ Cardinality(Signalling') \in Nat
  <2>1. IsFiniteSet(Signalling)
    BY CountedSetsFinite
  <2>2. IsFiniteSet(Signalling \ {w})
        /\ Cardinality(Signalling \ {w}) = Cardinality(Signalling) - 1
    BY <1>1, <2>1, FS_RemoveElement
  <2> QED
    BY <1>1, <2>2, FS_CardinalityType
<1>3. /\ count = Cardinality(Counted) + Len(pending) + Cardinality(Signalling) + lost
      /\ Len(pending) \in Nat /\ lost \in Nat
  BY ThreadPoolAssumption DEF CountOwed, QueueOK
<1>4. count' = count - 1 /\ count' \in Nat
  BY <1>2, <1>3, CountedSetsFinite
<1>5. complete' <=> count' = 0
  <2>1. count # 0
    BY <1>4 DEF QueueOK
  <2>2. ~complete
    BY <2>1 DEF CountOwed
  <2> QED
    BY <2>2
<1>6. CountOwed'
  <2>1. count' = Cardinality(Counted') + Len(pending') + Cardinality(Signalling') + lost'
    BY <1>1, <1>2, <1>3, <1>4, CountedSetsFinite
  <2>2. queueEvent' <=> pending' # <<>>
    BY DEF CountOwed
  <2> QED
    BY <1>5, <2>1, <2>2 DEF CountOwed
<1>7. WorkersOK'
  BY DEF WorkersOK
<1>8. CallersOK' /\ QueueOK' /\ OwnerOK'
  BY <1>4 DEF CallersOK, QueueOK, OwnerOK
<1>9. FlagsOK'
  <2>1. complete' \in BOOLEAN
    BY Zenon DEF FlagsOK
  <2> QED
    BY <2>1 DEF FlagsOK
<1> QED
  BY <1>6, <1>7, <1>8, <1>9

(* The owner creates threads that wait, and joins threads that have ended: *)
(* neither has a callback.                                                 *)
LEMMA OwnerInv ==
    ASSUME PoolInv, OwnerSteps
    PROVE  PoolInv'
<1> USE DEF OwnerSteps, CreateThreads, JoinThreads, Close, CloseEnds, SetMinimum, SetMaximum
<1> USE DEF callerVars, queueVars, countVars, workerVars
<1> USE DEF PoolInv, PoolTypeOK
<1>1. CallersOK' /\ QueueOK' /\ Counted' = Counted
  BY DEF CallersOK, QueueOK, Counted
<1>2. OwnerOK' /\ FlagsOK'
  BY DEF OwnerOK, FlagsOK
<1>3. WorkersOK' /\ Signalling' = Signalling
  <2>1. CASE CreateThreads
    BY <2>1 DEF WorkersOK, Signalling
  <2>2. CASE JoinThreads \/ CloseEnds
    BY <2>2 DEF WorkersOK, Signalling
  <2>3. CASE UNCHANGED <<workerVars, threads>>
    BY <2>3 DEF WorkersOK, Signalling
  <2> QED
    BY <2>1, <2>2, <2>3
<1>4. CountOwed'
  BY <1>1, <1>3 DEF CountOwed
<1> QED
  BY <1>1, <1>2, <1>3, <1>4

(* Every step of the pool preserves the invariant. *)
LEMMA NextInv == PoolInv /\ [Next]_poolVars => PoolInv'
<1> SUFFICES ASSUME PoolInv, [Next]_poolVars PROVE PoolInv'
  OBVIOUS
<1>1. ASSUME NEW c \in Caller, CallerSteps(c) PROVE PoolInv'
  BY <1>1, AddCountInv, EnqueueInv, CallerRestInv DEF CallerSteps
<1>2. ASSUME NEW w \in Worker, WorkerSteps(w) PROVE PoolInv'
  BY <1>2, WorkerWaitInv, DequeueInv, CallbackReturnsInv, SignalInv DEF WorkerSteps
<1>3. CASE UNCHANGED poolVars
  <2> USE <1>3 DEF poolVars, callerVars, queueVars, countVars, workerVars, ownerVars
  <2>1. Counted' = Counted /\ Signalling' = Signalling
    BY DEF Counted, Signalling
  <2> QED
    BY <2>1 DEF PoolInv, PoolTypeOK, CallersOK, QueueOK, WorkersOK, OwnerOK, FlagsOK, CountOwed
<1> QED
  BY <1>1, <1>2, <1>3, OwnerInv DEF Next

(* For any callers, threads and sizes: the countdown event of the pool     *)
(* counts every callback from before SubmitThreadpoolWork queues it until  *)
(* thread_pool_work_func has signalled it, and is set exactly when nothing *)
(* is owed, whatever threads the owner ends and creates in between.        *)
THEOREM Invariance == Spec => []PoolInv
  BY InitInv, NextInv, PTL DEF Spec

-----------------------------------------------------------------------------
(***************************************************************************)
(* The refinement of WorkBatches.                                          *)
(***************************************************************************)

(* The entries of a queue that belong to a caller. *)
Entries(s, c) == {i \in DOMAIN s : s[i] = c}

(* They are finitely many. *)
LEMMA EntriesFinite ==
    ASSUME NEW s \in Seq(Caller), NEW c
    PROVE  IsFiniteSet(Entries(s, c)) /\ Cardinality(Entries(s, c)) \in Nat
<1>1. Entries(s, c) \subseteq 1..Len(s) /\ Len(s) \in Nat
  BY DEF Entries
<1>2. IsFiniteSet(1..Len(s))
  BY <1>1, FS_Interval
<1>3. IsFiniteSet(Entries(s, c))
  BY <1>1, <1>2, FS_Subset
<1> QED
  BY <1>3, FS_CardinalityType

(* Queue_Enqueue adds an entry of the caller who submits. *)
LEMMA EntriesAppend ==
    ASSUME NEW s \in Seq(Caller), NEW c \in Caller, NEW d \in Caller
    PROVE  Cardinality(Entries(Append(s, d), c)) =
           Cardinality(Entries(s, c)) + (IF c = d THEN 1 ELSE 0)
<1>1. Len(s) \in Nat /\ Len(s) + 1 \notin Entries(s, c)
  BY DEF Entries
<1>2. CASE c = d
  <2>1. Entries(Append(s, d), c) = Entries(s, c) \cup {Len(s) + 1}
    BY <1>1, <1>2 DEF Entries
  <2> QED
    BY <1>1, <1>2, <2>1, EntriesFinite, FS_AddElement
<1>3. CASE c # d
  <2>1. Entries(Append(s, d), c) = Entries(s, c)
    BY <1>1, <1>3 DEF Entries
  <2> QED
    BY <1>3, <2>1, EntriesFinite
<1> QED
  BY <1>2, <1>3

(* Queue_Dequeue removes the first entry, and the others move up. *)
LEMMA EntriesTail ==
    ASSUME NEW s \in Seq(Caller), s # <<>>, NEW c \in Caller
    PROVE  Cardinality(Entries(s, c)) =
           Cardinality(Entries(Tail(s), c)) + (IF c = Head(s) THEN 1 ELSE 0)
<1> DEFINE S == Entries(Tail(s), c)
           T == Entries(s, c) \ {1}
           f == [i \in S |-> i + 1]
<1>1. /\ Tail(s) \in Seq(Caller) /\ Len(s) \in Nat \ {0} /\ Len(Tail(s)) = Len(s) - 1
      /\ \A i \in 1..Len(Tail(s)) : Tail(s)[i] = s[i + 1]
      /\ Head(s) = s[1]
  OBVIOUS
<1>2. S = {i \in 1..(Len(s) - 1) : s[i + 1] = c}
  BY <1>1 DEF Entries
<1>3. T = {i \in 2..Len(s) : s[i] = c}
  BY <1>1 DEF Entries
<1>4. f \in [S -> T]
  BY <1>1, <1>2, <1>3
<1>5. \A i, j \in S : f[i] = f[j] => i = j
  BY <1>1, <1>2
<1>6. \A k \in T : \E i \in S : f[i] = k
  <2> TAKE k \in T
  <2>1. k - 1 \in S
    BY <1>1, <1>2, <1>3
  <2>2. f[k - 1] = k
    BY <1>1, <1>3, <2>1
  <2> QED
    BY <2>1, <2>2
<1> HIDE DEF f
<1>7. f \in Bijection(S, T)
  BY <1>4, <1>5, <1>6 DEF Bijection, Injection, Surjection, IsInjective
<1>8. IsFiniteSet(S) /\ Cardinality(S) \in Nat
  BY <1>1, EntriesFinite
<1>9. Cardinality(T) = Cardinality(S)
  BY <1>7, <1>8, FS_Bijection DEF ExistsBijection
<1>10. 1 \in Entries(s, c) <=> c = Head(s)
  BY <1>1 DEF Entries
<1>11. IsFiniteSet(Entries(s, c)) /\ Cardinality(Entries(s, c)) \in Nat
  BY EntriesFinite
<1>12. Cardinality(T) = IF 1 \in Entries(s, c) THEN Cardinality(Entries(s, c)) - 1
                                              ELSE Cardinality(Entries(s, c))
  BY <1>11, FS_RemoveElement
<1> HIDE DEF S, T
<1>13. Cardinality(Entries(s, c)) = Cardinality(S) + (IF c = Head(s) THEN 1 ELSE 0)
  BY <1>8, <1>9, <1>10, <1>11, <1>12
<1> QED
  BY <1>13 DEF S

(* What is outstanding is a number for every caller. *)
LEMMA OutstandingIs ==
    ASSUME PoolInv
    PROVE  /\ Outstanding \in [Caller -> Nat]
           /\ \A c \in Caller : Outstanding[c] =
                Cardinality(Entries(pending, c)) + Cardinality(RunFor(c))
                + (IF caller[c] = "counted" THEN 1 ELSE 0)
           /\ \A c \in Caller : Cardinality(Entries(pending, c)) \in Nat
           /\ \A c \in Caller : Cardinality(RunFor(c)) \in Nat
<1>1. \A c \in Caller : InPending(c) = Entries(pending, c)
  BY DEF InPending, Entries
<1>2. \A c \in Caller : Cardinality(Entries(pending, c)) \in Nat
  BY EntriesFinite DEF PoolInv, PoolTypeOK, QueueOK
<1>3. \A c \in Caller : Cardinality(RunFor(c)) \in Nat
  BY CountedSetsFinite
<1> QED
  BY <1>1, <1>2, <1>3 DEF Outstanding

(* The same in the next state. *)
LEMMA OutstandingBecomes ==
    ASSUME PoolInv'
    PROVE  /\ Outstanding' \in [Caller -> Nat]
           /\ \A c \in Caller : Outstanding'[c] =
                Cardinality(Entries(pending', c)) + Cardinality(RunFor(c)')
                + (IF caller'[c] = "counted" THEN 1 ELSE 0)
<1>1. \A c \in Caller : InPending(c)' = Entries(pending', c)
  BY DEF InPending, Entries
<1>2. \A c \in Caller : Cardinality(Entries(pending', c)) \in Nat
  BY EntriesFinite DEF PoolInv, PoolTypeOK, QueueOK
<1>3. \A c \in Caller : IsFiniteSet(RunFor(c)') /\ Cardinality(RunFor(c)') \in Nat
  <2>1. \A c \in Caller : RunFor(c)' \in SUBSET Worker
    BY DEF RunFor
  <2> QED
    BY <2>1, ThreadPoolAssumption, FS_Subset, FS_CardinalityType
<1> QED
  BY <1>1, <1>2, <1>3 DEF Outstanding

(* What changes is known from what changes for each caller. *)
LEMMA OutstandingMoves ==
    ASSUME PoolInv, PoolInv'
    PROVE  /\ (\A d \in Caller : Outstanding'[d] = Outstanding[d])
                => Outstanding' = Outstanding
           /\ \A c \in Caller :
                (\A d \in Caller : Outstanding'[d] = Outstanding[d] + (IF d = c THEN 1 ELSE 0))
                => Outstanding' = [Outstanding EXCEPT ![c] = @ + 1]
           /\ \A c \in Caller :
                (\A d \in Caller : Outstanding[d] = Outstanding'[d] + (IF d = c THEN 1 ELSE 0))
                => Outstanding' = [Outstanding EXCEPT ![c] = @ - 1] /\ Outstanding[c] > 0
<1>1. Outstanding \in [Caller -> Nat] /\ Outstanding' \in [Caller -> Nat]
  BY OutstandingIs, OutstandingBecomes
<1> QED
  BY <1>1

(* Nothing is outstanding once the countdown event is set. *)
LEMMA CompleteMeansDone ==
    ASSUME PoolInv, complete, NEW c \in Caller
    PROVE  Outstanding[c] = 0
<1>1. /\ Cardinality(Counted) = 0 /\ Len(pending) = 0 /\ Cardinality(Signalling) = 0
  <2>1. count = 0 /\ Len(pending) \in Nat /\ lost \in Nat
    BY ThreadPoolAssumption DEF PoolInv, PoolTypeOK, QueueOK, CountOwed
  <2>2. Cardinality(Counted) + Len(pending) + Cardinality(Signalling) + lost = 0
    BY <2>1 DEF PoolInv, CountOwed
  <2> QED
    BY <2>1, <2>2, CountedSetsFinite
<1>2. Counted = {} /\ Signalling = {}
  BY <1>1, CountedSetsFinite, FS_EmptySet
<1>3. Entries(pending, c) = {}
  BY <1>1 DEF Entries, PoolInv, PoolTypeOK, QueueOK
<1>4. RunFor(c) = {}
  BY <1>2, ThreadPoolAssumption DEF RunFor, Signalling, PoolInv, PoolTypeOK, WorkersOK
<1>5. caller[c] # "counted"
  BY <1>2 DEF Counted
<1> QED
  <2>1. Cardinality(Entries(pending, c)) = 0 /\ Cardinality(RunFor(c)) = 0
    BY <1>3, <1>4, FS_EmptySet
  <2> QED
    BY <1>5, <2>1, OutstandingIs

(* The steps of a caller: it hands over a callback when it counts it,      *)
(* waits, and returns when nothing is outstanding.                         *)
LEMMA CallerRefines ==
    ASSUME PoolInv, PoolInv', NEW c \in Caller, CallerSteps(c)
    PROVE  Batches!Next \/ UNCHANGED Batches!batchVars
<1> USE DEF queueVars, countVars, workerVars, ownerVars
<1>1. caller \in [Caller -> {"free", "counted", "wait"}]
  BY DEF PoolInv, PoolTypeOK, CallersOK
<1>2. \A d \in Caller : RunFor(d)' = RunFor(d)
  BY DEF RunFor, CallerSteps, AddCount, Enqueue, EnqueueLost, SubmitFails, WaitForCallbacks,
         WaitReturns
<1>3. CASE AddCount(c)
  <2>1. Waiting' = Waiting /\ c \notin Waiting
    BY <1>1, <1>3 DEF AddCount, Waiting
  <2>2. /\ UNCHANGED pending /\ caller[c] # "counted"
        /\ caller' = [caller EXCEPT ![c] = "counted"]
    BY <1>3 DEF AddCount
  <2>3. Outstanding' = [Outstanding EXCEPT ![c] = @ + 1]
    <3>1. \A d \in Caller : Outstanding'[d] = Outstanding[d] + (IF d = c THEN 1 ELSE 0)
      BY <1>1, <1>2, <2>2, OutstandingIs, OutstandingBecomes
    <3> QED
      BY <3>1, OutstandingMoves
  <2> QED
    BY <2>1, <2>3 DEF Batches!Next, Batches!HandOver
<1>4. CASE Enqueue(c)
  <2>1. Waiting' = Waiting
    BY <1>1, <1>4 DEF Enqueue, Waiting
  <2>2. /\ pending' = Append(pending, c) /\ caller[c] = "counted"
        /\ caller' = [caller EXCEPT ![c] = "free"]
    BY <1>4 DEF Enqueue
  <2>3. \A d \in Caller : Cardinality(Entries(pending', d)) =
            Cardinality(Entries(pending, d)) + (IF d = c THEN 1 ELSE 0)
    BY <2>2, EntriesAppend DEF PoolInv, PoolTypeOK, QueueOK
  <2>4. Outstanding' = Outstanding
    <3>1. \A d \in Caller : Outstanding'[d] = Outstanding[d]
      <4> TAKE d \in Caller
      <4>1. CASE d = c
        BY <1>1, <1>2, <2>2, <2>3, <4>1, OutstandingIs, OutstandingBecomes
      <4>2. CASE d # c
        <5>1. caller'[d] = caller[d] /\ RunFor(d)' = RunFor(d)
          BY <1>1, <1>2, <2>2, <4>2
        <5>2. Cardinality(Entries(pending', d)) = Cardinality(Entries(pending, d))
          BY <2>3, <4>2, OutstandingIs
        <5> QED
          BY <5>1, <5>2, OutstandingIs, OutstandingBecomes
      <4> QED
        BY <4>1, <4>2
    <3> QED
      BY <3>1, OutstandingMoves
  <2> QED
    BY <2>1, <2>4 DEF Batches!batchVars
<1>5. CASE EnqueueLost(c)
  <2>1. Waiting' = Waiting
    BY <1>1, <1>5 DEF EnqueueLost, Waiting
  <2>2. /\ UNCHANGED pending /\ caller[c] = "counted"
        /\ caller' = [caller EXCEPT ![c] = "free"]
    BY <1>5 DEF EnqueueLost
  <2>3. Outstanding' = [Outstanding EXCEPT ![c] = @ - 1] /\ Outstanding[c] > 0
    <3>1. \A d \in Caller : Outstanding[d] = Outstanding'[d] + (IF d = c THEN 1 ELSE 0)
      BY <1>1, <1>2, <2>2, OutstandingIs, OutstandingBecomes
    <3> QED
      BY <3>1, OutstandingMoves
  <2> QED
    BY <2>1, <2>3 DEF Batches!Next, Batches!Settle
<1>6. CASE SubmitFails(c)
  <2>1. Waiting' = Waiting /\ UNCHANGED <<pending, caller>>
    BY <1>6 DEF SubmitFails, Waiting
  <2>2. Outstanding' = Outstanding
    <3>1. \A d \in Caller : Outstanding'[d] = Outstanding[d]
      BY <1>2, <2>1, OutstandingIs, OutstandingBecomes
    <3> QED
      BY <3>1, OutstandingMoves
  <2> QED
    BY <2>1, <2>2 DEF Batches!batchVars
<1>7. CASE WaitForCallbacks(c)
  <2>1. Waiting' = Waiting \cup {c} /\ c \notin Waiting
    BY <1>1, <1>7 DEF WaitForCallbacks, Waiting
  <2>2. /\ UNCHANGED pending /\ caller[c] = "free"
        /\ caller' = [caller EXCEPT ![c] = "wait"]
    BY <1>7 DEF WaitForCallbacks
  <2>3. Outstanding' = Outstanding
    <3>1. \A d \in Caller : Outstanding'[d] = Outstanding[d]
      BY <1>1, <1>2, <2>2, OutstandingIs, OutstandingBecomes
    <3> QED
      BY <3>1, OutstandingMoves
  <2> QED
    BY <2>1, <2>3 DEF Batches!Next, Batches!Wait
<1>8. CASE WaitReturns(c)
  <2>1. Waiting' = Waiting \ {c} /\ c \in Waiting
    BY <1>1, <1>8 DEF WaitReturns, Waiting
  <2>2. /\ UNCHANGED pending /\ caller[c] = "wait" /\ complete
        /\ caller' = [caller EXCEPT ![c] = "free"]
    BY <1>8 DEF WaitReturns
  <2>3. Outstanding' = Outstanding
    <3>1. \A d \in Caller : Outstanding'[d] = Outstanding[d]
      BY <1>1, <1>2, <2>2, OutstandingIs, OutstandingBecomes
    <3> QED
      BY <3>1, OutstandingMoves
  <2>4. Outstanding[c] = 0
    BY <2>2, CompleteMeansDone
  <2> QED
    BY <2>1, <2>3, <2>4 DEF Batches!Next, Batches!Return
<1> QED
  BY <1>3, <1>4, <1>5, <1>6, <1>7, <1>8 DEF CallerSteps

(* A step that touches neither queue, callbacks nor callers is none of     *)
(* WorkBatches.                                                            *)
LEMMA Stutters ==
    ASSUME PoolInv, PoolInv', UNCHANGED <<pending, current, caller>>
    PROVE  UNCHANGED Batches!batchVars
<1>1. Waiting' = Waiting /\ \A d \in Caller : RunFor(d)' = RunFor(d)
  BY DEF Waiting, RunFor
<1>2. \A d \in Caller : Outstanding'[d] = Outstanding[d]
  BY <1>1, OutstandingIs, OutstandingBecomes
<1> QED
  BY <1>1, <1>2, OutstandingMoves DEF Batches!batchVars

(* The steps of a worker: a callback is settled when it has returned, and  *)
(* is outstanding on its way from the queue to the worker.                 *)
LEMMA WorkerRefines ==
    ASSUME PoolInv, PoolInv', NEW w \in Worker, WorkerSteps(w)
    PROVE  Batches!Next \/ UNCHANGED Batches!batchVars
<1> USE DEF callerVars, queueVars, countVars, ownerVars
<1>1. CASE WorkerExits(w) \/ WorkerWakes(w) \/ Signal(w)
  BY <1>1, Stutters DEF WorkerExits, WorkerWakes, Signal
<1>2. CASE Dequeue(w)
  <2>1. CASE pending = <<>>
    BY <1>2, <2>1, Stutters DEF Dequeue
  <2>2. CASE pending # <<>>
    <3>1. /\ pending \in Seq(Caller) /\ pending' = Tail(pending)
          /\ current' = [current EXCEPT ![w] = Head(pending)] /\ UNCHANGED caller
          /\ current \in [Worker -> Caller \cup {None}] /\ current[w] = None
      BY <1>2, <2>2 DEF Dequeue, PoolInv, PoolTypeOK, QueueOK, WorkersOK
    <3>2. \A d \in Caller : Cardinality(Entries(pending, d)) =
              Cardinality(Entries(pending', d)) + (IF d = Head(pending) THEN 1 ELSE 0)
      BY <2>2, <3>1, EntriesTail
    <3>3. \A d \in Caller : Cardinality(RunFor(d)') =
              Cardinality(RunFor(d)) + (IF d = Head(pending) THEN 1 ELSE 0)
      <4> TAKE d \in Caller
      <4>1. CASE d = Head(pending)
        <5>1. RunFor(d)' = RunFor(d) \cup {w} /\ w \notin RunFor(d)
          BY <3>1, <4>1, ThreadPoolAssumption DEF RunFor
        <5> QED
          BY <4>1, <5>1, CountedSetsFinite, FS_AddElement
      <4>2. CASE d # Head(pending)
        <5>1. RunFor(d)' = RunFor(d)
          BY <3>1, <4>2, ThreadPoolAssumption DEF RunFor
        <5> QED
          BY <4>2, <5>1, CountedSetsFinite
      <4> QED
        BY <4>1, <4>2
    <3>4. \A d \in Caller : Cardinality(Entries(pending', d)) \in Nat
      BY EntriesFinite DEF PoolInv, PoolTypeOK, QueueOK
    <3>5. \A d \in Caller : Outstanding'[d] = Outstanding[d]
      <4> TAKE d \in Caller
      <4>1. CASE d = Head(pending)
        BY <3>1, <3>2, <3>3, <3>4, <4>1, OutstandingIs, OutstandingBecomes
      <4>2. CASE d # Head(pending)
        BY <3>1, <3>2, <3>3, <3>4, <4>2, OutstandingIs, OutstandingBecomes
      <4> QED
        BY <4>1, <4>2
    <3>6. Waiting' = Waiting
      BY <3>1 DEF Waiting
    <3> QED
      BY <3>5, <3>6, OutstandingMoves DEF Batches!batchVars
  <2> QED
    BY <2>1, <2>2
<1>3. CASE CallbackReturns(w)
  <2>1. /\ current \in [Worker -> Caller \cup {None}] /\ current[w] \in Caller
        /\ current' = [current EXCEPT ![w] = None] /\ UNCHANGED <<pending, caller>>
    BY <1>3 DEF CallbackReturns, PoolInv, PoolTypeOK, WorkersOK
  <2> DEFINE c == current[w]
  <2>2. \A d \in Caller : Cardinality(RunFor(d)) =
            Cardinality(RunFor(d)') + (IF d = c THEN 1 ELSE 0)
    <3> TAKE d \in Caller
    <3>1. CASE d = c
      <4>1. RunFor(d)' = RunFor(d) \ {w} /\ w \in RunFor(d)
        BY <2>1, <3>1, ThreadPoolAssumption DEF RunFor
      <4>2. Cardinality(RunFor(d)') = Cardinality(RunFor(d)) - 1
        BY <4>1, CountedSetsFinite, FS_RemoveElement
      <4> QED
        BY <3>1, <4>2, CountedSetsFinite
    <3>2. CASE d # c
      <4>1. RunFor(d)' = RunFor(d)
        BY <2>1, <3>2, ThreadPoolAssumption DEF RunFor
      <4> QED
        BY <3>2, <4>1, CountedSetsFinite
    <3> QED
      BY <3>1, <3>2
  <2>3. \A d \in Caller : Cardinality(RunFor(d)') \in Nat
    <3>1. \A d \in Caller : RunFor(d)' \in SUBSET Worker
      BY DEF RunFor
    <3> QED
      BY <3>1, ThreadPoolAssumption, FS_Subset, FS_CardinalityType
  <2> HIDE DEF c
  <2>4. \A d \in Caller : Outstanding[d] = Outstanding'[d] + (IF d = c THEN 1 ELSE 0)
    <3> TAKE d \in Caller
    <3>1. CASE d = c
      BY <2>1, <2>2, <2>3, <3>1, OutstandingIs, OutstandingBecomes
    <3>2. CASE d # c
      BY <2>1, <2>2, <2>3, <3>2, OutstandingIs, OutstandingBecomes
    <3> QED
      BY <3>1, <3>2
  <2>5. c \in Caller /\ Waiting' = Waiting
    BY <2>1 DEF Waiting, c
  <2>6. Outstanding' = [Outstanding EXCEPT ![c] = @ - 1] /\ Outstanding[c] > 0
    BY <2>4, <2>5, OutstandingMoves
  <2> QED
    BY <2>5, <2>6 DEF Batches!Next, Batches!Settle
<1> QED
  BY <1>1, <1>2, <1>3 DEF WorkerSteps

(* The pool implements WorkBatches, for any callers, threads and sizes: a  *)
(* caller whose WaitForThreadpoolWorkCallbacks returns has no callback in  *)
(* the queue or running, although the count is shared and threads are      *)
(* ended and created at any time (pool.c, work.c).                         *)
THEOREM Refinement == Spec => IsWorkBatches
<1>1. Init => Batches!Init
  <2> SUFFICES ASSUME Init PROVE Batches!Init
    OBVIOUS
  <2>1. /\ \A c \in Caller : InPending(c) = {} /\ RunFor(c) = {} /\ caller[c] = "free"
        /\ Waiting = {}
    BY ThreadPoolAssumption DEF Init, InPending, RunFor, Waiting
  <2> QED
    BY <2>1, FS_EmptySet DEF Batches!Init, Outstanding
<1>2. PoolInv /\ PoolInv' /\ [Next]_poolVars => [Batches!Next]_(Batches!batchVars)
  <2> SUFFICES ASSUME PoolInv, PoolInv', [Next]_poolVars
               PROVE  Batches!Next \/ UNCHANGED Batches!batchVars
    OBVIOUS
  <2>1. CASE OwnerSteps \/ UNCHANGED poolVars
    BY <2>1, Stutters DEF OwnerSteps, CreateThreads, JoinThreads, Close, CloseEnds,
       SetMinimum, SetMaximum, poolVars, callerVars, queueVars, workerVars
  <2>2. CASE \E c \in Caller : CallerSteps(c)
    BY <2>2, CallerRefines
  <2>3. CASE \E w \in Worker : WorkerSteps(w)
    BY <2>3, WorkerRefines
  <2> QED
    BY <2>1, <2>2, <2>3 DEF Next
<1> QED
  BY <1>1, <1>2, Invariance, PTL DEF Spec, IsWorkBatches, Batches!Spec
=============================================================================
