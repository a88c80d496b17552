----------------------------- MODULE WinPRProofs -----------------------------
(***************************************************************************)
(* Proofs about the objects of WinPR.  The queues (MessageQueue.c and      *)
(* Queue.c): for every initial capacity of at least two, any messages or   *)
(* objects, any readers and any size that a queue grows to.  The critical  *)
(* section (mutual exclusion, the counts of critical.c, and that it        *)
(* implements a recursive lock), one-time initialisation and the barrier:  *)
(* for any finite set of threads and any value of the bounds.  Then the    *)
(* objects together.                                                       *)
(***************************************************************************)
EXTENDS WinPRObjects, SequenceTheorems, FiniteSetTheorems, TLAPS

-----------------------------------------------------------------------------
(***************************************************************************)
(* The message queue.                                                      *)
(***************************************************************************)

(* Arithmetic of the ring.                                                 *)

(* One step over the end of a ring of c slots. *)
LEMMA RingStep ==
    ASSUME NEW c \in Nat, c >= 2, NEW x \in Nat, x < c
    PROVE  (x + 1) % c = IF x + 1 < c THEN x + 1 ELSE 0
<1>1. CASE x + 1 < c
  BY <1>1, Z3
<1>2. CASE x + 1 = c
  <2>1. c % c = 0
    BY Z3
  <2> QED
    BY <1>2, <2>1
<1> QED
  BY <1>1, <1>2

(* Any number of steps, once over the end at most. *)
LEMMA RingSteps ==
    ASSUME NEW c \in Nat, c >= 2, NEW x \in Nat, NEW k \in Nat, x < c, k < c
    PROVE  (x + k) % c = IF x + k < c THEN x + k ELSE x + k - c
<1>1. CASE x + k < c
  BY <1>1, Z3
<1>2. CASE x + k >= c
  <2> DEFINE y == x + k - c
  <2>1. y \in Nat /\ y < c /\ x + k = y + c
    BY <1>2
  <2> HIDE DEF y
  <2>2. (y + c) % c = y
    BY <2>1, Z3
  <2>3. (x + k) % c = y
    BY <2>1, <2>2
  <2> QED
    BY <1>2, <2>3 DEF y
<1> QED
  BY <1>1, <1>2

(* A queue that must grow has one free slot; it grows to twice its size,   *)
(* and its free slot is then right behind its last message.                *)
LEMMA Growing ==
    ASSUME IndInv, MustGrow
    PROVE  /\ size = capacity - 1
           /\ NewCapacity = 2 * capacity
           /\ Wrapped <=> head > 0
           /\ GrownTail = head + size
           /\ GrownTail + 1 < NewCapacity
<1>1. size = capacity - 1
  BY DEF IndInv, TypeOK, RingOK, MustGrow
<1>2. NewCapacity = 2 * capacity
  BY <1>1 DEF IndInv, TypeOK, RingOK, NewCapacity
<1>3. tail = IF head > 0 THEN head - 1 ELSE capacity - 1
  BY <1>1 DEF IndInv, TypeOK, RingOK, Slot
<1>4. Wrapped <=> head > 0
  BY <1>3 DEF IndInv, TypeOK, Wrapped
<1>5. GrownTail = head + size
  BY <1>1, <1>3, <1>4 DEF IndInv, TypeOK, GrownTail
<1> QED
  BY <1>1, <1>2, <1>4, <1>5 DEF IndInv, TypeOK

(* In the grown array the messages lie in one piece. *)
LEMMA GrownContents ==
    ASSUME IndInv, MustGrow, NEW k \in 0..(size - 1)
    PROVE  /\ head + k < NewCapacity
           /\ GrownArray[head + k] = array[Slot(head, capacity, k)]
<1>1. /\ size = capacity - 1 /\ NewCapacity = 2 * capacity
      /\ Wrapped <=> head > 0
  BY Growing
<1>2. tail = IF head > 0 THEN head - 1 ELSE capacity - 1
  BY <1>1 DEF IndInv, TypeOK, RingOK, Slot
<1>3. head + k \in 0..(NewCapacity - 1)
  BY <1>1 DEF IndInv, TypeOK
<1>4. CASE head + k < capacity
  BY <1>1, <1>3, <1>4 DEF IndInv, TypeOK, GrownArray, Slot
<1>5. CASE head + k >= capacity
  <2>1. head > 0 /\ Wrapped /\ head + k - capacity < tail
    BY <1>1, <1>2, <1>5 DEF IndInv, TypeOK
  <2>2. GrownArray[head + k] = array[head + k - capacity]
    BY <1>3, <1>5, <2>1 DEF GrownArray, IndInv, TypeOK
  <2> QED
    BY <1>1, <1>3, <1>5, <2>2 DEF Slot, IndInv, TypeOK
<1> QED
  BY <1>1, <1>3, <1>4, <1>5 DEF IndInv, TypeOK

-----------------------------------------------------------------------------
(* What the operations that move the ring do to it.                        *)

(* A message is sent: the slots of the others keep their contents, the     *)
(* next one holds the new message.                                         *)
LEMMA Sent ==
    ASSUME IndInv, NEW m \in AnyMessage, Dispatch(m)
    PROVE  /\ IndInv'
           /\ size' = size + 1
           /\ \A k \in 0..(size - 1) :
                  array'[Slot(head', capacity', k)] = array[Slot(head, capacity, k)]
           /\ array'[Slot(head', capacity', size)] = m
<1>1. /\ size + 1 < capacity /\ size' = size + 1
      /\ array' = [array EXCEPT ![tail] = m]
      /\ tail' = (tail + 1) % capacity
      /\ UNCHANGED <<head, capacity, reader, got>>
      /\ event' = TRUE /\ closed' = (m = Quit)
  BY DEF Dispatch, Enqueue, MustGrow, IndInv, TypeOK
<1>2. capacity \in Nat /\ capacity >= 2 /\ tail \in Nat /\ tail < capacity
  BY DEF IndInv, TypeOK
<1>3. (tail + 1) % capacity = IF tail + 1 < capacity THEN tail + 1 ELSE 0
  BY <1>2, RingStep
<1>4. head \in Nat /\ head < capacity /\ size \in Nat /\ tail = Slot(head, capacity, size)
  BY DEF IndInv, TypeOK, RingOK
<1>5. tail' \in 0..(capacity - 1) /\ tail' = Slot(head, capacity, size + 1)
  BY <1>1, <1>2, <1>3, <1>4 DEF Slot
<1>6. \A k \in 0..(size - 1) : /\ Slot(head, capacity, k) # tail
                               /\ Slot(head, capacity, k) \in 0..(capacity - 1)
  BY <1>1, <1>2, <1>4 DEF Slot
<1>7. array \in [0..(capacity - 1) -> AnyMessage \cup {Nothing}]
  BY DEF IndInv, TypeOK
<1>8. \A k \in 0..(size - 1) : array'[Slot(head, capacity, k)] = array[Slot(head, capacity, k)]
  BY <1>1, <1>6, <1>7
<1>9. array'[tail] = m /\ array' \in [0..(capacity - 1) -> AnyMessage \cup {Nothing}]
  BY <1>1, <1>2, <1>7
<1>10. TypeOK'
  BY <1>1, <1>5, <1>9 DEF IndInv, TypeOK
<1>11. \A k \in 0..(size' - 1) : array'[Slot(head, capacity, k)] \in AnyMessage
  <2>1. \A k \in 0..(size - 1) : array[Slot(head, capacity, k)] \in AnyMessage
    BY DEF IndInv, RingOK
  <2> QED
    BY <1>1, <1>4, <1>8, <1>9, <2>1
<1>12. RingOK'
  BY <1>1, <1>2, <1>4, <1>5, <1>11 DEF RingOK
<1> QED
  BY <1>1, <1>4, <1>8, <1>9, <1>10, <1>12 DEF IndInv

(* The same for a queue that grows on the way. *)
LEMMA SentGrowing ==
    ASSUME IndInv, NEW m \in AnyMessage, DispatchGrowing(m)
    PROVE  /\ IndInv'
           /\ size' = size + 1
           /\ \A k \in 0..(size - 1) :
                  array'[Slot(head', capacity', k)] = array[Slot(head, capacity, k)]
           /\ array'[Slot(head', capacity', size)] = m
<1>1. /\ MustGrow /\ size' = size + 1
      /\ array' = [GrownArray EXCEPT ![GrownTail] = m]
      /\ tail' = (GrownTail + 1) % NewCapacity
      /\ capacity' = NewCapacity
      /\ UNCHANGED <<head, reader, got>>
      /\ event' = TRUE /\ closed' = (m = Quit)
  BY DEF DispatchGrowing, Enqueue
<1>2. /\ size = capacity - 1 /\ NewCapacity = 2 * capacity
      /\ GrownTail = head + size /\ GrownTail + 1 < NewCapacity
  BY <1>1, Growing
<1>3. /\ capacity \in Nat /\ capacity >= 2 /\ size \in Nat
      /\ head \in Nat /\ head < capacity
  BY DEF IndInv, TypeOK
<1>4. NewCapacity \in Nat /\ NewCapacity >= 2 /\ GrownTail \in Nat /\ GrownTail < NewCapacity
  BY <1>2, <1>3
<1>5. tail' = GrownTail + 1
  BY <1>1, <1>2, <1>4, RingStep
<1>6. \A k \in 0..(size + 1) : Slot(head', capacity', k) = head + k
  BY <1>1, <1>2, <1>3 DEF Slot
<1>7. \A k \in 0..(size - 1) : GrownArray[head + k] = array[Slot(head, capacity, k)]
  BY <1>1, GrownContents
<1>8. GrownArray \in [0..(NewCapacity - 1) -> AnyMessage \cup {Nothing}]
  <2>1. array \in [0..(capacity - 1) -> AnyMessage \cup {Nothing}]
    BY DEF IndInv, TypeOK
  <2>2. tail \in 0..(capacity - 1)
    BY DEF IndInv, TypeOK
  <2> QED
    BY <1>2, <1>3, <2>1, <2>2 DEF GrownArray
<1>9. \A k \in 0..(size - 1) : array'[head + k] = GrownArray[head + k]
  BY <1>1, <1>2, <1>3, <1>8
<1>10. \A k \in 0..(size - 1) :
           array'[Slot(head', capacity', k)] = array[Slot(head, capacity, k)]
  BY <1>3, <1>6, <1>7, <1>9
<1>11. array'[head + size] = m /\ array' \in [0..(NewCapacity - 1) -> AnyMessage \cup {Nothing}]
  BY <1>1, <1>2, <1>4, <1>8
<1>12. array'[Slot(head', capacity', size)] = m
  BY <1>3, <1>6, <1>11
<1>13. TypeOK'
  <2>1. capacity' \in Nat /\ capacity' >= 2 /\ head' \in 0..(capacity' - 1)
        /\ tail' \in 0..(capacity' - 1) /\ size' \in Nat
    BY <1>1, <1>2, <1>3, <1>4, <1>5
  <2> QED
    BY <1>1, <1>11, <2>1 DEF IndInv, TypeOK
<1>14. \A k \in 0..(size' - 1) : array'[Slot(head', capacity', k)] \in AnyMessage
  <2>1. \A k \in 0..(size - 1) : array[Slot(head, capacity, k)] \in AnyMessage
    BY DEF IndInv, RingOK
  <2> QED
    BY <1>1, <1>3, <1>10, <1>12, <2>1
<1>15. RingOK'
  BY <1>1, <1>2, <1>3, <1>5, <1>6, <1>14 DEF RingOK
<1> QED
  BY <1>1, <1>10, <1>12, <1>13, <1>15 DEF IndInv

(* A message is taken: it was the one at the head, and the others keep     *)
(* their slots and move up by one.                                         *)
LEMMA Taken ==
    ASSUME IndInv, NEW r \in Reader, size > 0, Dequeue(r),
           reader' \in [Reader -> {"out", "woken"}]
    PROVE  /\ IndInv'
           /\ size' = size - 1
           /\ got' = [got EXCEPT ![r] = array[Slot(head, capacity, 0)]]
           /\ \A k \in 0..(size' - 1) :
                  array'[Slot(head', capacity', k)] = array[Slot(head, capacity, k + 1)]
<1>1. /\ size' = size - 1
      /\ got' = [got EXCEPT ![r] = array[head]]
      /\ array' = [array EXCEPT ![head] = Nothing]
      /\ head' = (head + 1) % capacity
      /\ event' = (event /\ size' >= 1)
      /\ UNCHANGED <<tail, capacity, closed>>
  BY DEF Dequeue
<1>2. /\ capacity \in Nat /\ capacity >= 2 /\ head \in Nat /\ head < capacity
      /\ size \in Nat /\ size < capacity /\ tail = Slot(head, capacity, size)
  BY DEF IndInv, TypeOK, RingOK
<1>3. head' = IF head + 1 < capacity THEN head + 1 ELSE 0
  BY <1>1, <1>2, RingStep
<1>4. Slot(head, capacity, 0) = head
  BY <1>2 DEF Slot
<1>5. \A k \in 0..(size - 1) :
          Slot(head', capacity, k) = Slot(head, capacity, k + 1)
  BY <1>2, <1>3 DEF Slot
<1>6. \A k \in 1..(size - 1) : /\ Slot(head, capacity, k) # head
                               /\ Slot(head, capacity, k) \in 0..(capacity - 1)
  BY <1>2 DEF Slot
<1>7. array \in [0..(capacity - 1) -> AnyMessage \cup {Nothing}]
  BY DEF IndInv, TypeOK
<1>8. \A k \in 1..(size - 1) : array'[Slot(head, capacity, k)] = array[Slot(head, capacity, k)]
  BY <1>1, <1>6, <1>7
<1>9. \A k \in 0..(size' - 1) :
          array'[Slot(head', capacity', k)] = array[Slot(head, capacity, k + 1)]
  <2> SUFFICES ASSUME NEW k \in 0..(size' - 1)
               PROVE  array'[Slot(head', capacity', k)] = array[Slot(head, capacity, k + 1)]
    OBVIOUS
  <2>1. k \in 0..(size - 1) /\ k + 1 \in 1..(size - 1)
    BY <1>1, <1>2
  <2> QED
    BY <1>1, <1>5, <1>8, <2>1
<1>10. tail' = Slot(head', capacity', size')
  BY <1>1, <1>2, <1>3 DEF Slot
<1>11. \A k \in 0..(size - 1) : array[Slot(head, capacity, k)] \in AnyMessage
  BY DEF IndInv, RingOK
<1>12. \A k \in 0..(size' - 1) : array'[Slot(head', capacity', k)] \in AnyMessage
  <2> SUFFICES ASSUME NEW k \in 0..(size' - 1)
               PROVE  array[Slot(head, capacity, k + 1)] \in AnyMessage
    BY <1>9
  <2>1. k + 1 \in 0..(size - 1)
    BY <1>1, <1>2
  <2> QED
    BY <1>11, <2>1
<1>13. array[head] \in AnyMessage
  <2>1. 0 \in 0..(size - 1)
    BY <1>2
  <2> QED
    BY <1>4, <1>11, <2>1
<1>14. TypeOK'
  <2>1. head' \in 0..(capacity' - 1) /\ size' \in Nat
    BY <1>1, <1>2, <1>3
  <2>2. array' \in [0..(capacity' - 1) -> AnyMessage \cup {Nothing}]
    BY <1>1, <1>7
  <2>3. got' \in [Reader -> AnyMessage \cup {Nothing}]
    BY <1>1, <1>13 DEF IndInv, TypeOK
  <2> QED
    BY <1>1, <2>1, <2>2, <2>3 DEF IndInv, TypeOK
<1>15. event' <=> size' > 0
  <2>1. event
    BY DEF IndInv, RingOK
  <2>2. event' <=> size' >= 1
    BY <1>1, <2>1
  <2> QED
    BY <1>1, <1>2, <2>2
<1>16. RingOK'
  BY <1>1, <1>2, <1>10, <1>12, <1>15 DEF RingOK
<1> QED
  BY <1>1, <1>4, <1>9, <1>14, <1>16 DEF IndInv

(* Clearing leaves the head where the tail is. *)
LEMMA Cleared ==
    ASSUME IndInv, Clear
    PROVE  IndInv' /\ size' = 0
<1>1. /\ capacity \in Nat /\ capacity >= 2 /\ head \in Nat /\ head < capacity
      /\ size \in Nat /\ size < capacity /\ tail = Slot(head, capacity, size)
      /\ tail \in 0..(capacity - 1)
  BY DEF IndInv, TypeOK, RingOK
<1>2. /\ head' = (head + size) % capacity /\ size' = 0
      /\ event' = FALSE /\ closed' = FALSE
      /\ UNCHANGED <<tail, capacity, reader, got>>
  BY DEF Clear
<1>3. head' = tail
  BY <1>1, <1>2, RingSteps DEF Slot
<1>4. array' \in [0..(capacity - 1) -> AnyMessage \cup {Nothing}]
  <2>1. array \in [0..(capacity - 1) -> AnyMessage \cup {Nothing}]
    BY DEF IndInv, TypeOK
  <2> QED
    BY <2>1 DEF Clear
<1>5. TypeOK'
  BY <1>1, <1>2, <1>3, <1>4 DEF IndInv, TypeOK
<1>6. RingOK'
  BY <1>1, <1>2, <1>3 DEF RingOK, Slot
<1> QED
  BY <1>2, <1>5, <1>6 DEF IndInv

-----------------------------------------------------------------------------
(* The invariant.                                                          *)

LEMMA MessagesInit == Init => IndInv
<1> SUFFICES ASSUME Init PROVE IndInv
  OBVIOUS
<1>1. TypeOK
  <2>1. /\ capacity \in Nat /\ capacity >= 2 /\ size \in Nat
        /\ head \in 0..(capacity - 1) /\ tail \in 0..(capacity - 1)
    BY MessageQueueAssumption DEF Init
  <2>2. array \in [0..(capacity - 1) -> AnyMessage \cup {Nothing}]
    BY DEF Init
  <2>3. /\ closed \in BOOLEAN /\ event \in BOOLEAN
        /\ reader \in [Reader -> {"out", "woken"}]
        /\ got \in [Reader -> AnyMessage \cup {Nothing}]
    BY DEF Init
  <2> QED
    BY <2>1, <2>2, <2>3 DEF TypeOK
<1>2. RingOK
  BY MessageQueueAssumption DEF Init, RingOK, Slot
<1> QED
  BY <1>1, <1>2 DEF IndInv

(* A step that leaves the queue alone. *)
LEMMA QueueUntouched ==
    ASSUME IndInv, UNCHANGED queueVars,
           reader' \in [Reader -> {"out", "woken"}],
           got' \in [Reader -> AnyMessage \cup {Nothing}]
    PROVE  IndInv'
BY DEF IndInv, TypeOK, RingOK, queueVars

(* A reader that takes nothing. *)
LEMMA Looked ==
    ASSUME IndInv, NEW r \in Reader,
           Peek(r) \/ PeekEmpty(r) \/ GetWakes(r) \/ GetFails(r)
    PROVE  IndInv'
<1>1. reader' \in [Reader -> {"out", "woken"}]
  BY DEF Peek, PeekEmpty, GetWakes, GetFails, IndInv, TypeOK
<1>2. array[head] \in AnyMessage \cup {Nothing}
  BY DEF IndInv, TypeOK
<1>3. got' \in [Reader -> AnyMessage \cup {Nothing}]
  BY <1>2 DEF Peek, PeekEmpty, GetWakes, GetFails, IndInv, TypeOK
<1>4. UNCHANGED queueVars
  BY DEF Peek, PeekEmpty, GetWakes, GetFails
<1> QED
  BY <1>1, <1>3, <1>4, QueueUntouched

LEMMA MessagesNext == IndInv /\ [Next]_mqVars => IndInv'
<1> SUFFICES ASSUME IndInv, [Next]_mqVars PROVE IndInv'
  OBVIOUS
<1>1. ASSUME NEW m \in AnyMessage, Dispatch(m) PROVE IndInv'
  BY <1>1, Sent
<1>2. ASSUME NEW m \in AnyMessage, DispatchGrowing(m) PROVE IndInv'
  BY <1>2, SentGrowing
<1>3. ASSUME NEW r \in Reader, PeekRemove(r) \/ Get(r) PROVE IndInv'
  <2>1. Dequeue(r) /\ size > 0
    BY <1>3 DEF PeekRemove, Get
  <2>2. reader' \in [Reader -> {"out", "woken"}]
    BY <1>3 DEF PeekRemove, Get, IndInv, TypeOK
  <2> QED
    BY <2>1, <2>2, Taken
<1>4. ASSUME NEW r \in Reader,
             Peek(r) \/ PeekEmpty(r) \/ GetWakes(r) \/ GetFails(r)
      PROVE  IndInv'
  BY <1>4, Looked
<1>5. CASE Clear
  BY <1>5, Cleared
<1>6. CASE UNCHANGED mqVars
  BY <1>6, QueueUntouched DEF mqVars, IndInv, TypeOK
<1>7. CASE DispatchRefused
  BY <1>6, <1>7 DEF DispatchRefused
<1> QED
  BY <1>1, <1>2, <1>3, <1>4, <1>5, <1>6, <1>7 DEF Next, ReaderNext

(* The ring of MessageQueue.c is intact after any sequence of calls, for   *)
(* every initial capacity of at least two and however often it grows.      *)
THEOREM MessagesInvariance == Spec => []IndInv
<1> QED
  BY MessagesInit, MessagesNext, PTL DEF Spec

(* Types, as part of the invariant. *)
THEOREM MessagesTypeCorrect == Spec => []TypeOK
<1>1. IndInv => TypeOK
  BY DEF IndInv
<1> QED
  BY <1>1, MessagesInvariance, PTL

(* In particular the queue never fills up and its event is never wrong.    *)
THEOREM MessagesRingIntact == Spec => []RingOK
<1>1. IndInv => RingOK
  BY DEF IndInv
<1> QED
  BY <1>1, MessagesInvariance, PTL

-----------------------------------------------------------------------------
(* The refinement.                                                         *)

(* The contents are a sequence of messages, with array[head] first. *)
LEMMA ContentsSeq ==
    ASSUME IndInv
    PROVE  /\ Contents \in Seq(AnyMessage)
           /\ Len(Contents) = size
           /\ \A k \in 1..size : Contents[k] = array[Slot(head, capacity, k - 1)]
<1>1. size \in Nat
  BY DEF IndInv, TypeOK
<1>2. \A k \in 1..size : array[Slot(head, capacity, k - 1)] \in AnyMessage
  <2> SUFFICES ASSUME NEW k \in 1..size
               PROVE  array[Slot(head, capacity, k - 1)] \in AnyMessage
    OBVIOUS
  <2>1. k - 1 \in 0..(size - 1)
    BY <1>1
  <2> QED
    BY <2>1 DEF IndInv, RingOK
<1>3. Contents \in [1..size -> AnyMessage]
  BY <1>2 DEF Contents
<1> QED
  BY <1>1, <1>3 DEF Contents

(* What a send does to the contents. *)
LEMMA SendContents ==
    ASSUME IndInv, IndInv', NEW m \in AnyMessage, size' = size + 1,
           \A k \in 0..(size - 1) :
               array'[Slot(head', capacity', k)] = array[Slot(head, capacity, k)],
           array'[Slot(head', capacity', size)] = m
    PROVE  Contents' = Append(Contents, m)
<1>1. /\ Contents \in Seq(AnyMessage) /\ Len(Contents) = size /\ size \in Nat
      /\ \A k \in 1..size : Contents[k] = array[Slot(head, capacity, k - 1)]
  BY ContentsSeq DEF IndInv, TypeOK
<1>2. /\ Contents' \in Seq(AnyMessage) /\ Len(Contents') = size'
      /\ \A k \in 1..size' : Contents'[k] = array'[Slot(head', capacity', k - 1)]
  <2>1. (/\ Contents \in Seq(AnyMessage) /\ Len(Contents) = size
         /\ \A k \in 1..size : Contents[k] = array[Slot(head, capacity, k - 1)])'
    BY ContentsSeq, PTL
  <2> QED
    BY <2>1
<1> DEFINE s == Append(Contents, m)
<1>3. /\ s \in Seq(AnyMessage) /\ Len(s) = size'
      /\ \A k \in 1..size : s[k] = Contents[k]
      /\ s[size + 1] = m
  BY <1>1, AppendProperties
<1> HIDE DEF s
<1>4. \A k \in 1..size' : Contents'[k] = s[k]
  <2> SUFFICES ASSUME NEW k \in 1..size'
               PROVE  array'[Slot(head', capacity', k - 1)] = s[k]
    BY <1>2
  <2>1. CASE k = size + 1
    <3>1. k - 1 = size
      BY <1>1, <2>1
    <3> QED
      BY <1>3, <2>1, <3>1
  <2>2. CASE k \in 1..size
    <3>1. k - 1 \in 0..(size - 1)
      BY <1>1, <2>2
    <3> QED
      BY <1>1, <1>3, <2>2, <3>1
  <2> QED
    BY <1>1, <2>1, <2>2
<1>5. Contents' = s
  BY <1>2, <1>3, <1>4, SeqEqual
<1> QED
  BY <1>5 DEF s

(* What a read that removes does to the contents. *)
LEMMA TakeContents ==
    ASSUME IndInv, IndInv', size > 0, size' = size - 1,
           \A k \in 0..(size' - 1) :
               array'[Slot(head', capacity', k)] = array[Slot(head, capacity, k + 1)]
    PROVE  /\ Contents # <<>>
           /\ Head(Contents) = array[Slot(head, capacity, 0)]
           /\ Contents' = Tail(Contents)
<1>1. /\ Contents \in Seq(AnyMessage) /\ Len(Contents) = size /\ size \in Nat
      /\ \A k \in 1..size : Contents[k] = array[Slot(head, capacity, k - 1)]
  BY ContentsSeq DEF IndInv, TypeOK
<1>2. Contents # <<>>
  BY <1>1
<1>3. Head(Contents) = array[Slot(head, capacity, 0)]
  BY <1>1, <1>2
<1>4. /\ Contents' \in Seq(AnyMessage) /\ Len(Contents') = size'
      /\ \A k \in 1..size' : Contents'[k] = array'[Slot(head', capacity', k - 1)]
  <2>1. (/\ Contents \in Seq(AnyMessage) /\ Len(Contents) = size
         /\ \A k \in 1..size : Contents[k] = array[Slot(head, capacity, k - 1)])'
    BY ContentsSeq, PTL
  <2> QED
    BY <2>1
<1> DEFINE s == Tail(Contents)
<1>5. /\ s \in Seq(AnyMessage) /\ Len(s) = size'
      /\ \A k \in 1..size' : s[k] = Contents[k + 1]
  BY <1>1, <1>2, HeadTailProperties
<1> HIDE DEF s
<1>6. \A k \in 1..size' : Contents'[k] = s[k]
  <2> SUFFICES ASSUME NEW k \in 1..size'
               PROVE  array'[Slot(head', capacity', k - 1)] = Contents[k + 1]
    BY <1>4, <1>5
  <2>1. k - 1 \in 0..(size' - 1) /\ k + 1 \in 1..size /\ (k - 1) + 1 = (k + 1) - 1
    BY <1>1
  <2> QED
    BY <1>1, <2>1
<1>7. Contents' = s
  BY <1>4, <1>5, <1>6, SeqEqual
<1> QED
  BY <1>2, <1>3, <1>7 DEF s

(* A queue of size zero has no contents. *)
LEMMA EmptyContents == ASSUME size = 0 PROVE Contents = <<>>
BY DEF Contents

LEMMA StepIsFifo ==
    ASSUME IndInv, IndInv', [Next]_mqVars
    PROVE  [Fifo!Next]_(Fifo!fifoVars)
<1>1. ASSUME NEW m \in AnyMessage, Dispatch(m) \/ DispatchGrowing(m)
      PROVE  Fifo!Send(m)
  <2>1. Contents' = Append(Contents, m)
    BY <1>1, Sent, SentGrowing, SendContents
  <2>2. ~closed /\ closed' = (m = Quit) /\ event' = TRUE /\ UNCHANGED got
    BY <1>1 DEF Dispatch, DispatchGrowing, Enqueue
  <2> QED
    BY <2>1, <2>2 DEF Fifo!Send
<1>2. ASSUME NEW r \in Reader, PeekRemove(r) \/ Get(r)
      PROVE  Fifo!Take(r)
  <2>1. Dequeue(r) /\ size > 0 /\ UNCHANGED closed
    BY <1>2 DEF PeekRemove, Get, Dequeue
  <2>2. reader' \in [Reader -> {"out", "woken"}]
    BY DEF IndInv, TypeOK
  <2>3. /\ size' = size - 1
        /\ got' = [got EXCEPT ![r] = array[Slot(head, capacity, 0)]]
        /\ \A k \in 0..(size' - 1) :
               array'[Slot(head', capacity', k)] = array[Slot(head, capacity, k + 1)]
    BY <2>1, <2>2, Taken
  <2>4. /\ Contents # <<>> /\ Head(Contents) = array[Slot(head, capacity, 0)]
        /\ Contents' = Tail(Contents)
    BY <2>1, <2>3, TakeContents
  <2>5. event' = (Contents' # <<>>)
    <3>1. Contents' \in Seq(AnyMessage) /\ Len(Contents') = size' /\ size' \in Nat
      <4>1. (Contents \in Seq(AnyMessage) /\ Len(Contents) = size /\ size \in Nat)'
        BY ContentsSeq, PTL DEF IndInv, TypeOK
      <4> QED
        BY <4>1
    <3>2. Contents' # <<>> <=> size' > 0
      BY <3>1
    <3>3. (event' <=> size' > 0) /\ event' \in BOOLEAN
      BY DEF IndInv, RingOK, TypeOK
    <3> QED
      BY <3>2, <3>3
  <2> QED
    BY <2>1, <2>3, <2>4, <2>5 DEF Fifo!Take
<1>3. ASSUME NEW r \in Reader, Peek(r)
      PROVE  Fifo!Look(r)
  <2>1. /\ Contents \in Seq(AnyMessage) /\ Len(Contents) = size /\ size \in Nat
        /\ \A k \in 1..size : Contents[k] = array[Slot(head, capacity, k - 1)]
    BY ContentsSeq DEF IndInv, TypeOK
  <2>2. size > 0 /\ got' = [got EXCEPT ![r] = array[head]] /\ UNCHANGED queueVars
    BY <1>3 DEF Peek
  <2>3. Slot(head, capacity, 0) = head
    BY DEF Slot, IndInv, TypeOK
  <2>4. Contents # <<>> /\ Head(Contents) = array[head]
    BY <2>1, <2>2, <2>3
  <2>5. UNCHANGED <<Contents, closed, event>>
    BY <2>2 DEF queueVars, Contents
  <2> QED
    BY <2>2, <2>4, <2>5 DEF Fifo!Look
<1>4. ASSUME NEW r \in Reader, PeekEmpty(r) \/ GetFails(r)
      PROVE  Fifo!Miss(r)
  <2>1. size = 0 /\ got' = [got EXCEPT ![r] = Nothing] /\ UNCHANGED queueVars
    BY <1>4 DEF PeekEmpty, GetFails
  <2>2. Contents = <<>> /\ UNCHANGED <<Contents, closed, event>>
    BY <2>1, EmptyContents DEF queueVars, Contents
  <2> QED
    BY <2>1, <2>2 DEF Fifo!Miss
<1>5. CASE Clear
  <2>1. size' = 0 /\ event' = FALSE /\ closed' = FALSE /\ UNCHANGED got
    BY <1>5 DEF Clear
  <2>2. Contents' = <<>>
    BY <2>1 DEF Contents
  <2> QED
    BY <2>1, <2>2 DEF Fifo!Clear, Fifo!Next
<1>6. ASSUME UNCHANGED queueVars, UNCHANGED got
      PROVE  UNCHANGED Fifo!fifoVars
  BY <1>6 DEF queueVars, Contents, Fifo!fifoVars
<1>7. ASSUME NEW r \in Reader, GetWakes(r)
      PROVE  UNCHANGED Fifo!fifoVars
  BY <1>6, <1>7 DEF GetWakes
<1>8. CASE DispatchRefused \/ UNCHANGED mqVars
  BY <1>6, <1>8 DEF DispatchRefused, mqVars
<1> QED
  BY <1>1, <1>2, <1>3, <1>4, <1>5, <1>7, <1>8
     DEF Next, ReaderNext, AnyMessage, Fifo!Next

(* MessageQueue.c implements a queue: for every initial capacity of at     *)
(* least two, however the ring wraps, grows and is cleared and whoever     *)
(* reads it, messages come out once and in order.                          *)
THEOREM MessagesAreFifo == Spec => IsFifo
<1>1. Init => Fifo!Init
  BY DEF Init, Fifo!Init, Contents
<1>2. IndInv /\ IndInv' /\ [Next]_mqVars => [Fifo!Next]_(Fifo!fifoVars)
  BY StepIsFifo
<1> QED
  BY <1>1, <1>2, MessagesInvariance, PTL DEF Spec, IsFifo, Fifo!Spec


-----------------------------------------------------------------------------
(***************************************************************************)
(* The object queue.                                                       *)
(***************************************************************************)

(* What a slot of the ring or of a caller can hold. *)
Object == Message \cup {Nothing}

(* A function on 1 .. n is a sequence. *)
LEMMA FunctionIsSeq ==
    ASSUME NEW T, NEW n \in Nat, NEW s \in [1 .. n -> T]
    PROVE  s \in Seq(T) /\ Len(s) = n
OBVIOUS

(* One object more, where the others stay. *)
LEMMA AppendOne ==
    ASSUME NEW T, NEW n \in Nat, NEW u \in [1 .. n + 1 -> T], NEW s \in [1 .. n -> T],
           \A k \in 1 .. n : u[k] = s[k]
    PROVE  u = Append(s, u[n + 1])
<1> DEFINE v == Append(s, u[n + 1])
<1>1. s \in Seq(T) /\ Len(s) = n /\ u \in Seq(T) /\ Len(u) = n + 1 /\ u[n + 1] \in T
  BY FunctionIsSeq
<1>2. v \in Seq(T) /\ Len(v) = n + 1 /\ v[n + 1] = u[n + 1] /\ \A k \in 1 .. n : v[k] = s[k]
  BY <1>1, AppendProperties
<1> HIDE DEF v
<1>3. \A k \in 1 .. n + 1 : k \in 1 .. n \/ k = n + 1
  OBVIOUS
<1>4. \A k \in 1 .. n + 1 : u[k] = v[k]
  BY <1>2, <1>3
<1>5. u = v
  BY <1>1, <1>2, <1>4, SeqEqual
<1> QED
  BY <1>5 DEF v

(* One object less. *)
LEMMA TailOne ==
    ASSUME NEW T, NEW n \in Nat, NEW u \in [1 .. n -> T], NEW s \in [1 .. n + 1 -> T],
           \A k \in 1 .. n : u[k] = s[k + 1]
    PROVE  s # <<>> /\ Head(s) = s[1] /\ u = Tail(s)
<1> DEFINE v == Tail(s)
<1>1. s \in Seq(T) /\ Len(s) = n + 1 /\ u \in Seq(T) /\ Len(u) = n
  BY FunctionIsSeq
<1>2. s # <<>>
  BY <1>1
<1>3. v \in Seq(T) /\ Len(v) = n /\ \A k \in 1 .. n : v[k] = s[k + 1]
  BY <1>1, <1>2, HeadTailProperties
<1>4. Head(s) = s[1]
  BY <1>1, <1>2
<1> HIDE DEF v
<1>5. u = v
  BY <1>1, <1>3, SeqEqual
<1> QED
  BY <1>2, <1>4, <1>5 DEF v

(* The shape of the ring. *)
LEMMA QueueShape ==
    ASSUME Queue!QueueTypeOK
    PROVE  /\ qCapacity \in Nat /\ qCapacity >= 2
           /\ qHead \in 0 .. qCapacity - 1 /\ qSize \in 0 .. qCapacity - 1
           /\ qHead \in Nat /\ qSize \in Nat /\ qHead < qCapacity /\ qSize < qCapacity
           /\ qArray \in [0 .. qCapacity - 1 -> Message \cup {Nothing}]
           /\ qTail = Slot(qHead, qCapacity, qSize) /\ qTail \in 0 .. qCapacity - 1
<1>1. /\ qCapacity \in Nat /\ qCapacity >= 2
      /\ qHead \in 0 .. qCapacity - 1 /\ qSize \in 0 .. qCapacity - 1
      /\ qArray \in [0 .. qCapacity - 1 -> Message \cup {Nothing}]
      /\ qTail = (qHead + qSize) % qCapacity /\ qTail \in 0 .. qCapacity - 1
  BY DEF Queue!QueueTypeOK
<1>2. qHead \in Nat /\ qSize \in Nat /\ qHead < qCapacity /\ qSize < qCapacity
  BY <1>1
<1>3. qTail = Slot(qHead, qCapacity, qSize)
  BY <1>1, <1>2, RingSteps DEF Slot
<1> QED
  BY <1>1, <1>2, <1>3

(* Its contents. *)
LEMMA QueueContents ==
    ASSUME Queue!QueueTypeOK
    PROVE  /\ Queue!Contents \in [1 .. qSize -> Object]
           /\ \A k \in 1 .. qSize : Queue!Contents[k] = qArray[Slot(qHead, qCapacity, k - 1)]
<1>1. \A k \in 1 .. qSize : (qHead + k - 1) % qCapacity = Slot(qHead, qCapacity, k - 1)
  <2> SUFFICES ASSUME NEW k \in 1 .. qSize
               PROVE  (qHead + k - 1) % qCapacity = Slot(qHead, qCapacity, k - 1)
    OBVIOUS
  <2>1. k - 1 \in Nat /\ k - 1 < qCapacity /\ qHead + k - 1 = qHead + (k - 1)
    BY QueueShape
  <2>2. (qHead + (k - 1)) % qCapacity = IF qHead + (k - 1) < qCapacity THEN qHead + (k - 1)
                                        ELSE qHead + (k - 1) - qCapacity
    BY <2>1, QueueShape, RingSteps
  <2> QED
    BY <2>1, <2>2 DEF Slot
<1>2. \A k \in 1 .. qSize : Slot(qHead, qCapacity, k - 1) \in 0 .. qCapacity - 1
  BY QueueShape DEF Slot
<1>3. Queue!Contents = [k \in 1 .. qSize |-> qArray[(qHead + k - 1) % qCapacity]]
  BY DEF Queue!Contents
<1>4. \A k \in 1 .. qSize : qArray[Slot(qHead, qCapacity, k - 1)] \in Object
  BY <1>2, QueueShape DEF Object
<1> QED
  BY <1>1, <1>3, <1>4


(* And in the next state. *)
LEMMA NextContents ==
    Queue!QueueTypeOK' =>
        /\ Queue!Contents' \in [1 .. qSize' -> Object]
        /\ \A k \in 1 .. qSize' : Queue!Contents'[k] = qArray'[Slot(qHead', qCapacity', k - 1)]
<1>1. (Queue!QueueTypeOK =>
        /\ Queue!Contents \in [1 .. qSize -> Object]
        /\ \A k \in 1 .. qSize : Queue!Contents[k] = qArray[Slot(qHead, qCapacity, k - 1)])'
  BY QueueContents, PTL
<1> QED
  BY <1>1

(* An object is stored behind the last one of a ring with room for it, in  *)
(* which the others can still be found.                                    *)
LEMMA Stored ==
    ASSUME Queue!QueueTypeOK, NEW x \in Message,
           NEW arr, NEW cap \in Nat, NEW at \in 0 .. cap - 1, Queue!Store(x, arr, cap, at),
           cap >= 2, arr \in [0 .. cap - 1 -> Object],
           qHead \in 0 .. cap - 1, qSize + 1 \in 0 .. cap - 1, at = Slot(qHead, cap, qSize),
           \A k \in 0 .. qSize - 1 :
               arr[Slot(qHead, cap, k)] = qArray[Slot(qHead, qCapacity, k)]
    PROVE  Queue!QueueTypeOK' /\ Queue!Contents' = Append(Queue!Contents, x)
<1>1. /\ qArray' = [arr EXCEPT ![at] = x] /\ qCapacity' = cap
      /\ qTail' = (at + 1) % cap /\ qSize' = qSize + 1
      /\ qHead' = qHead /\ qGot' = qGot
  BY DEF Queue!Store
<1>2. qEvent' \in BOOLEAN /\ (qEvent' <=> qSize' > 0)
  <2>1. qEvent' = (qEvent \/ qSize = 0) /\ qEvent \in BOOLEAN /\ (qEvent <=> qSize > 0)
    BY DEF Queue!Store, Queue!QueueTypeOK
  <2>2. qSize = 0 \/ qSize > 0
    BY QueueShape
  <2>3. qSize' > 0
    BY <1>1, QueueShape
  <2> QED
    BY <2>1, <2>2, <2>3
<1>3. qArray' \in [0 .. cap - 1 -> Object]
  BY <1>1 DEF Object
<1>4. qSize \in Nat /\ qHead \in Nat
  BY QueueShape
<1>5. qTail' = (qHead' + qSize') % qCapacity' /\ qTail' \in 0 .. cap - 1
  <2>1. (at + 1) % cap = IF at + 1 < cap THEN at + 1 ELSE 0
    BY RingStep
  <2>2. (qHead + (qSize + 1)) % cap = IF qHead + (qSize + 1) < cap THEN qHead + (qSize + 1)
                                      ELSE qHead + (qSize + 1) - cap
    <3>1. qSize + 1 \in Nat /\ qSize + 1 < cap /\ qHead < cap
      BY <1>4
    <3> QED
      BY <1>4, <3>1, RingSteps
  <2>3. (at + 1) % cap = (qHead + (qSize + 1)) % cap /\ (at + 1) % cap \in 0 .. cap - 1
    BY <1>4, <2>1, <2>2 DEF Slot
  <2> QED
    BY <1>1, <2>3
<1>6. qGot' \in Object
  BY <1>1 DEF Queue!QueueTypeOK, Object
<1>7. Queue!QueueTypeOK'
  BY <1>1, <1>2, <1>3, <1>5, <1>6 DEF Queue!QueueTypeOK, Object
<1>8. \A k \in 1 .. qSize : qArray'[Slot(qHead, cap, k - 1)] = qArray[Slot(qHead, qCapacity, k - 1)]
  <2> SUFFICES ASSUME NEW k \in 1 .. qSize
               PROVE  qArray'[Slot(qHead, cap, k - 1)] = qArray[Slot(qHead, qCapacity, k - 1)]
    OBVIOUS
  <2>1. k - 1 \in 0 .. qSize - 1
    BY <1>4
  <2>2. Slot(qHead, cap, k - 1) # at /\ Slot(qHead, cap, k - 1) \in 0 .. cap - 1
    BY <1>4, <2>1 DEF Slot
  <2> QED
    BY <1>1, <2>1, <2>2
<1>9. qArray'[Slot(qHead, cap, qSize)] = x
  BY <1>1
<1> DEFINE s == Queue!Contents
           u == Queue!Contents'
<1>10. s \in [1 .. qSize -> Object] /\ \A k \in 1 .. qSize : s[k] = qArray[Slot(qHead, qCapacity, k - 1)]
  BY QueueContents
<1>11. /\ u \in [1 .. qSize + 1 -> Object]
       /\ \A k \in 1 .. qSize + 1 : u[k] = qArray'[Slot(qHead, cap, k - 1)]
  BY <1>1, <1>7, NextContents
<1> HIDE DEF s, u
<1>12. \A k \in 1 .. qSize : u[k] = s[k]
  <2> SUFFICES ASSUME NEW k \in 1 .. qSize PROVE u[k] = s[k]
    OBVIOUS
  <2>1. k \in 1 .. qSize + 1
    BY <1>4
  <2>2. u[k] = qArray'[Slot(qHead, cap, k - 1)]
    BY <1>11, <2>1, Zenon
  <2>3. s[k] = qArray[Slot(qHead, qCapacity, k - 1)]
    BY <1>10, Zenon
  <2> QED
    BY <1>8, <2>2, <2>3, Zenon
<1>13. u[qSize + 1] = x
  <2>1. PICK m \in 1 .. qSize + 1 : m = qSize + 1 /\ m - 1 = qSize
    BY <1>4
  <2>2. u[m] = qArray'[Slot(qHead, cap, m - 1)]
    BY <1>11, Zenon
  <2> QED
    BY <1>9, <2>1, <2>2, Zenon
<1>14. u = Append(s, u[qSize + 1])
  BY <1>4, <1>10, <1>11, <1>12, AppendOne
<1> QED
  BY <1>7, <1>13, <1>14 DEF s, u


(* A ring that must grow has one free slot; in the ring of twice the size  *)
(* the wrapped entries follow the old end, and the free slot follows them. *)
LEMMA QueueGrows ==
    ASSUME Queue!QueueTypeOK, Queue!MustGrow
    PROVE  /\ qSize = qCapacity - 1
           /\ Queue!GrownTail = Slot(qHead, 2 * qCapacity, qSize)
           /\ Queue!GrownTail \in 0 .. 2 * qCapacity - 1
           /\ Queue!GrownArray \in [0 .. 2 * qCapacity - 1 -> Object]
           /\ \A k \in 0 .. qSize - 1 :
                  Queue!GrownArray[Slot(qHead, 2 * qCapacity, k)] = qArray[Slot(qHead, qCapacity, k)]
<1>1. qSize = qCapacity - 1
  BY QueueShape DEF Queue!MustGrow
<1>2. qTail = IF qHead > 0 THEN qHead - 1 ELSE qCapacity - 1
  BY <1>1, QueueShape DEF Slot
<1>3. Queue!Wrapped <=> qHead > 0
  BY <1>2, QueueShape DEF Queue!Wrapped
<1>4. Queue!GrownTail = qHead + qSize
  BY <1>1, <1>2, <1>3, QueueShape DEF Queue!GrownTail
<1>5. /\ Queue!GrownTail = Slot(qHead, 2 * qCapacity, qSize)
      /\ Queue!GrownTail \in 0 .. 2 * qCapacity - 1
  BY <1>1, <1>4, QueueShape DEF Slot
<1> DEFINE c == qCapacity
           g == Queue!GrownArray
           Was(i) == IF i < c THEN qArray[i]
                     ELSE IF Queue!Wrapped /\ i - c < qTail THEN qArray[i - c] ELSE Nothing
<1>6. g = [i \in 0 .. 2 * c - 1 |-> Was(i)]
  BY DEF Queue!GrownArray
<1>7. \A i \in 0 .. 2 * c - 1 : Was(i) \in Object
  <2> SUFFICES ASSUME NEW i \in 0 .. 2 * c - 1 PROVE Was(i) \in Object
    OBVIOUS
  <2>1. CASE i < c
    BY <2>1, QueueShape DEF Object
  <2>2. CASE i >= c
    <3>1. i - c \in 0 .. c - 1
      BY <2>2, QueueShape
    <3> QED
      BY <2>2, <3>1, QueueShape DEF Object
  <2> QED
    BY <2>1, <2>2, QueueShape
<1>8. \A k \in 0 .. qSize - 1 :
          /\ Slot(qHead, 2 * c, k) = qHead + k /\ qHead + k \in 0 .. 2 * c - 1
          /\ qHead + k < c => Slot(qHead, c, k) = qHead + k
          /\ qHead + k >= c => Slot(qHead, c, k) = qHead + k - c /\ qHead + k - c < qTail /\ qHead > 0
  <2>1. /\ c \in Nat /\ qHead \in Nat /\ qHead < c /\ qSize = c - 1
        /\ qTail = IF qHead > 0 THEN qHead - 1 ELSE c - 1
    BY <1>1, <1>2, QueueShape
  <2> HIDE DEF c
  <2> SUFFICES ASSUME NEW k \in 0 .. qSize - 1
               PROVE  /\ Slot(qHead, 2 * c, k) = qHead + k /\ qHead + k \in 0 .. 2 * c - 1
                      /\ qHead + k < c => Slot(qHead, c, k) = qHead + k
                      /\ qHead + k >= c => /\ Slot(qHead, c, k) = qHead + k - c
                                          /\ qHead + k - c < qTail /\ qHead > 0
    BY Zenon
  <2>2. k \in Nat /\ k + 1 < c
    BY <2>1
  <2>3. Slot(qHead, 2 * c, k) = qHead + k /\ qHead + k \in 0 .. 2 * c - 1
    BY <2>1, <2>2 DEF Slot
  <2> QED
    BY <2>1, <2>2, <2>3 DEF Slot
<1>9. \A k \in 0 .. qSize - 1 : Was(qHead + k) = qArray[Slot(qHead, c, k)]
  <2> SUFFICES ASSUME NEW k \in 0 .. qSize - 1 PROVE Was(qHead + k) = qArray[Slot(qHead, c, k)]
    OBVIOUS
  <2>1. CASE qHead + k < c
    BY <1>8, <2>1
  <2>2. CASE qHead + k >= c
    BY <1>3, <1>8, <2>2, QueueShape
  <2> QED
    BY <2>1, <2>2, QueueShape
<1> HIDE DEF g, Was
<1>10. g \in [0 .. 2 * c - 1 -> Object]
  BY <1>6, <1>7
<1>11. \A k \in 0 .. qSize - 1 : g[Slot(qHead, 2 * c, k)] = qArray[Slot(qHead, c, k)]
  BY <1>6, <1>8, <1>9
<1> QED
  BY <1>1, <1>5, <1>10, <1>11 DEF g

(* Queue_Enqueue, in a ring with room and in one that grows. *)
LEMMA Enqueued ==
    ASSUME Queue!QueueTypeOK, NEW x \in Message, Queue!Enqueue(x)
    PROVE  Queue!QueueTypeOK' /\ Queue!Contents' = Append(Queue!Contents, x)
<1>1. CASE ~Queue!MustGrow /\ Queue!Store(x, qArray, qCapacity, qTail)
  <2>1. qSize + 1 \in 0 .. qCapacity - 1
    BY <1>1, QueueShape DEF Queue!MustGrow
  <2>2. /\ qCapacity \in Nat /\ qCapacity >= 2 /\ qTail \in 0 .. qCapacity - 1
        /\ qHead \in 0 .. qCapacity - 1 /\ qTail = Slot(qHead, qCapacity, qSize)
        /\ qArray \in [0 .. qCapacity - 1 -> Object]
    BY QueueShape DEF Object
  <2> QED
    BY <1>1, <2>1, <2>2, Stored
<1>2. CASE Queue!MustGrow /\ Queue!Store(x, Queue!GrownArray, 2 * qCapacity, Queue!GrownTail)
  <2> DEFINE cap == 2 * qCapacity
  <2>1. /\ cap \in Nat /\ cap >= 2 /\ Queue!GrownTail \in 0 .. cap - 1
        /\ Queue!GrownTail = Slot(qHead, cap, qSize)
        /\ Queue!GrownArray \in [0 .. cap - 1 -> Object]
        /\ \A k \in 0 .. qSize - 1 :
               Queue!GrownArray[Slot(qHead, cap, k)] = qArray[Slot(qHead, qCapacity, k)]
    BY <1>2, QueueGrows, QueueShape
  <2>2. qSize + 1 \in 0 .. cap - 1 /\ qHead \in 0 .. cap - 1
    BY <1>2, QueueGrows, QueueShape
  <2>3. Queue!Store(x, Queue!GrownArray, cap, Queue!GrownTail)
    BY <1>2
  <2> HIDE DEF cap
  <2> QED
    BY <2>1, <2>2, <2>3, Stored
<1> QED
  BY <1>1, <1>2 DEF Queue!Enqueue


(* The slots seen from the second one of them. *)
LEMMA SlotStep ==
    ASSUME NEW c \in Nat, c >= 2, NEW h \in 0 .. c - 1, NEW n \in 0 .. c - 1,
           NEW g, g = Slot(h, c, 1), NEW k \in 1 .. n
    PROVE  /\ Slot(g, c, k - 1) = Slot(h, c, k) /\ Slot(h, c, k) # h
           /\ Slot(h, c, k) \in 0 .. c - 1
BY DEF Slot

(* Queue_Dequeue of a queue that holds something. *)
LEMMA Dequeued ==
    ASSUME Queue!QueueTypeOK, Queue!Dequeue, qSize > 0
    PROVE  /\ Queue!QueueTypeOK'
           /\ Queue!Contents # <<>> /\ qGot' = Head(Queue!Contents)
           /\ Queue!Contents' = Tail(Queue!Contents)
           /\ qEvent' = (Queue!Contents' # <<>>)
<1>1. /\ qGot' = qArray[qHead] /\ qArray' = [qArray EXCEPT ![qHead] = Nothing]
      /\ qHead' = (qHead + 1) % qCapacity /\ qSize' = qSize - 1
      /\ qTail' = qTail /\ qCapacity' = qCapacity
  BY DEF Queue!Dequeue
<1>2. qEvent' \in BOOLEAN /\ (qEvent' <=> qSize' > 0)
  <2>1. qEvent' = (qEvent /\ qSize' >= 1) /\ qEvent \in BOOLEAN /\ qEvent
    BY DEF Queue!Dequeue, Queue!QueueTypeOK
  <2>2. qSize' >= 1 <=> qSize' > 0
    BY <1>1, QueueShape
  <2> QED
    BY <2>1, <2>2
<1>3. qHead' = Slot(qHead, qCapacity, 1) /\ qHead' \in 0 .. qCapacity - 1
  BY <1>1, QueueShape, RingStep DEF Slot
<1>4. qSize' \in 0 .. qCapacity - 1 /\ qSize' \in Nat
  BY <1>1, QueueShape
<1>5. qTail' = (qHead' + qSize') % qCapacity'
  <2>1. qHead' \in Nat /\ qHead' < qCapacity /\ qSize' < qCapacity
    BY <1>3, <1>4, QueueShape
  <2>2. (qHead' + qSize') % qCapacity = IF qHead' + qSize' < qCapacity THEN qHead' + qSize'
                                        ELSE qHead' + qSize' - qCapacity
    BY <1>4, <2>1, QueueShape, RingSteps
  <2>3. (qHead' + qSize') % qCapacity = Slot(qHead', qCapacity, qSize - 1)
    BY <1>1, <2>2 DEF Slot
  <2>4. Slot(qHead', qCapacity, qSize - 1) = Slot(qHead, qCapacity, qSize)
    <3>1. qSize \in 1 .. qSize
      BY QueueShape
    <3> QED
      BY <1>3, <3>1, QueueShape, SlotStep
  <2> QED
    BY <1>1, <2>3, <2>4, QueueShape
<1>6. qArray' \in [0 .. qCapacity - 1 -> Object] /\ qGot' \in Object
  BY <1>1, QueueShape DEF Object
<1>7. Queue!QueueTypeOK'
  BY <1>1, <1>2, <1>3, <1>4, <1>5, <1>6, QueueShape DEF Queue!QueueTypeOK, Object
<1>8. \A k \in 1 .. qSize' :
          qArray'[Slot(qHead', qCapacity, k - 1)] = qArray[Slot(qHead, qCapacity, k)]
  <2> SUFFICES ASSUME NEW k \in 1 .. qSize'
               PROVE  qArray'[Slot(qHead', qCapacity, k - 1)] = qArray[Slot(qHead, qCapacity, k)]
    OBVIOUS
  <2>1. /\ Slot(qHead', qCapacity, k - 1) = Slot(qHead, qCapacity, k)
        /\ Slot(qHead, qCapacity, k) # qHead /\ Slot(qHead, qCapacity, k) \in 0 .. qCapacity - 1
    <3>1. k \in 1 .. qSize
      BY <1>1, QueueShape
    <3> QED
      BY <1>3, <3>1, QueueShape, SlotStep
  <2> QED
    BY <1>1, <2>1, QueueShape
<1> DEFINE s == Queue!Contents
           u == Queue!Contents'
           n == qSize'
<1>9. qSize = n + 1 /\ n \in Nat
  BY <1>1, <1>4, QueueShape
<1>10. s \in [1 .. n + 1 -> Object] /\ \A k \in 1 .. n + 1 : s[k] = qArray[Slot(qHead, qCapacity, k - 1)]
  BY <1>9, QueueContents
<1>11. u \in [1 .. n -> Object] /\ \A k \in 1 .. n : u[k] = qArray'[Slot(qHead', qCapacity, k - 1)]
  BY <1>1, <1>7, NextContents
<1> HIDE DEF s, u
<1>12. \A k \in 1 .. n : u[k] = s[k + 1]
  <2> SUFFICES ASSUME NEW k \in 1 .. n PROVE u[k] = s[k + 1]
    OBVIOUS
  <2>1. PICK m \in 1 .. n + 1 : m = k + 1 /\ m - 1 = k
    <3> HIDE DEF n
    <3> QED
      BY <1>9
  <2>2. s[m] = qArray[Slot(qHead, qCapacity, m - 1)]
    BY <1>10, Zenon
  <2>3. u[k] = qArray'[Slot(qHead', qCapacity, k - 1)]
    BY <1>11, Zenon
  <2>4. s[k + 1] = qArray[Slot(qHead, qCapacity, k)]
    BY <2>1, <2>2
  <2> QED
    BY <1>8, <2>3, <2>4, Zenon
<1>13. s # <<>> /\ Head(s) = s[1] /\ u = Tail(s)
  <2> HIDE DEF n
  <2> QED
    BY <1>9, <1>10, <1>11, <1>12, TailOne
<1>14. s[1] = qArray[qHead]
  <2>1. Slot(qHead, qCapacity, 1 - 1) = qHead /\ 1 \in 1 .. n + 1
    <3> HIDE DEF n
    <3> QED
      BY <1>9, QueueShape DEF Slot
  <2> QED
    BY <1>10, <2>1
<1>15. qEvent' = (u # <<>>)
  <2>1. n > 0 <=> u # <<>>
    BY <1>9, <1>11
  <2> QED
    BY <1>2, <2>1
<1> QED
  BY <1>1, <1>7, <1>13, <1>14, <1>15 DEF s, u

(* An empty queue has no contents, and one that holds something has them.  *)
LEMMA EmptyQueue ==
    ASSUME Queue!QueueTypeOK
    PROVE  /\ qSize = 0 => Queue!Contents = <<>>
           /\ qSize > 0 => Queue!Contents # <<>> /\ Head(Queue!Contents) = qArray[qHead]
<1>1. qSize = 0 => Queue!Contents = <<>>
  BY DEF Queue!Contents
<1>2. ASSUME qSize > 0 PROVE Queue!Contents # <<>> /\ Head(Queue!Contents) = qArray[qHead]
  <2> DEFINE s == Queue!Contents
  <2>1. s \in [1 .. qSize -> Object] /\ \A k \in 1 .. qSize : s[k] = qArray[Slot(qHead, qCapacity, k - 1)]
    BY QueueContents
  <2> HIDE DEF s
  <2>2. qSize \in Nat /\ 1 \in 1 .. qSize /\ Slot(qHead, qCapacity, 1 - 1) = qHead
    BY <1>2, QueueShape DEF Slot
  <2>3. s \in Seq(Object) /\ Len(s) = qSize
    BY <2>1, <2>2, FunctionIsSeq
  <2>4. s # <<>> /\ Head(s) = s[1]
    BY <1>2, <2>3
  <2>5. s[1] = qArray[qHead]
    BY <2>1, <2>2
  <2> QED
    BY <2>4, <2>5 DEF s
<1> QED
  BY <1>1, <1>2

(* The functions that leave the ring alone: a queue that cannot grow, the  *)
(* look at its head, and Queue_Dequeue of an empty one.                    *)
LEMMA RingKept ==
    ASSUME Queue!QueueTypeOK, UNCHANGED Queue!ring, qGot' \in Object
    PROVE  Queue!QueueTypeOK' /\ Queue!Contents' = Queue!Contents
<1>1. /\ qHead' = qHead /\ qTail' = qTail /\ qSize' = qSize /\ qCapacity' = qCapacity
      /\ qArray' = qArray /\ qEvent' = qEvent
  BY DEF Queue!ring
<1>2. Queue!Contents' = Queue!Contents
  BY <1>1 DEF Queue!Contents
<1>3. Queue!QueueTypeOK'
  BY <1>1 DEF Queue!QueueTypeOK, Object
<1> QED
  BY <1>2, <1>3

(* Queue_Clear. *)
LEMMA QueueCleared ==
    ASSUME Queue!QueueTypeOK, Queue!Clear
    PROVE  Queue!QueueTypeOK' /\ Queue!Contents' = <<>> /\ qEvent' = FALSE /\ qGot' = qGot
<1>1. qHead' = 0 /\ qTail' = 0 /\ qSize' = 0 /\ qEvent' = FALSE /\ qCapacity' = qCapacity /\ qGot' = qGot
  BY DEF Queue!Clear
<1>2. qArray' \in [0 .. qCapacity - 1 -> Object]
  <2>1. \A i \in 0 .. qCapacity - 1 : qArray[i] \in Object
    BY QueueShape DEF Object
  <2> QED
    BY <2>1 DEF Queue!Clear, Object
<1>3. (0 + 0) % qCapacity = 0
  BY QueueShape, RingSteps
<1>4. 0 \in 0 .. qCapacity - 1 /\ qGot \in Object
  BY QueueShape DEF Queue!QueueTypeOK, Object
<1>5. Queue!QueueTypeOK'
  <2>1. qEvent' \in BOOLEAN /\ (qEvent' <=> qSize' > 0)
    <3>1. ~(qSize' > 0)
      BY <1>1
    <3> QED
      BY <1>1, <3>1, Zenon
  <2>2. qTail' = (qHead' + qSize') % qCapacity'
    BY <1>1, <1>3
  <2>3. /\ qHead' \in 0 .. qCapacity' - 1 /\ qTail' \in 0 .. qCapacity' - 1
        /\ qSize' \in 0 .. qCapacity' - 1 /\ qCapacity' \in Nat /\ qCapacity' >= 2
    BY <1>1, <1>4, QueueShape
  <2>4. qArray' \in [0 .. qCapacity' - 1 -> Object] /\ qGot' \in Object
    BY <1>1, <1>2, <1>4
  <2> QED
    BY <2>1, <2>2, <2>3, <2>4 DEF Queue!QueueTypeOK, Object
<1>6. Queue!Contents' = <<>>
  BY <1>1 DEF Queue!Contents
<1> QED
  BY <1>1, <1>5, <1>6


(* Queue_New makes an empty ring. *)
LEMMA QueueInit == Queue!Init => Queue!QueueTypeOK
<1> SUFFICES ASSUME Queue!Init PROVE Queue!QueueTypeOK
  OBVIOUS
<1>1. InitialCapacity \in Nat /\ InitialCapacity >= 2
  BY MessageQueueAssumption
<1>2. /\ qHead = 0 /\ qTail = 0 /\ qSize = 0 /\ qCapacity = InitialCapacity
      /\ qArray = [i \in 0 .. InitialCapacity - 1 |-> Nothing] /\ qEvent = FALSE /\ qGot = Nothing
  BY DEF Queue!Init
<1>3. (0 + 0) % InitialCapacity = 0
  BY <1>1, RingSteps
<1>4. qEvent \in BOOLEAN /\ (qEvent <=> qSize > 0)
  <2>1. ~(qSize > 0)
    BY <1>2
  <2> QED
    BY <1>2, <2>1, Zenon
<1>5. qArray \in [0 .. qCapacity - 1 -> Message \cup {Nothing}] /\ qGot \in Message \cup {Nothing}
  BY <1>2
<1>6. /\ qCapacity \in Nat /\ qCapacity >= 2 /\ qSize \in 0 .. qCapacity - 1
      /\ qHead \in 0 .. qCapacity - 1 /\ qTail \in 0 .. qCapacity - 1
      /\ qTail = (qHead + qSize) % qCapacity
  BY <1>1, <1>2, <1>3
<1> QED
  BY <1>4, <1>5, <1>6 DEF Queue!QueueTypeOK

(* Every function keeps the shape of the ring, and is a step of a queue.   *)
LEMMA QueueStep ==
    ASSUME Queue!QueueTypeOK, [Queue!Next]_(Queue!vars)
    PROVE  Queue!QueueTypeOK' /\ [Queue!Fifo!Next]_(Queue!Fifo!fifoVars)
<1> DEFINE g == [r \in {"caller"} |-> qGot]
           h == [r \in {"caller"} |-> qGot']
<1>1. h = [g EXCEPT !["caller"] = qGot']
  OBVIOUS
<1>2. qArray[qHead] \in Object /\ qGot \in Object /\ Nothing \in Object
  BY QueueShape DEF Queue!QueueTypeOK, Object
<1>3. ASSUME NEW x \in Message, Queue!Enqueue(x)
      PROVE  Queue!QueueTypeOK' /\ Queue!Fifo!Send(x)
  <2>1. Queue!QueueTypeOK' /\ Queue!Contents' = Append(Queue!Contents, x)
    BY <1>3, Enqueued
  <2>2. qGot' = qGot
    BY <1>3 DEF Queue!Enqueue, Queue!Store
  <2>3. qEvent' = TRUE
    <3>1. qEvent' = (qEvent \/ qSize = 0) /\ (qEvent <=> qSize > 0) /\ qEvent \in BOOLEAN
      BY <1>3 DEF Queue!Enqueue, Queue!Store, Queue!QueueTypeOK
    <3>2. qSize = 0 \/ qSize > 0
      BY QueueShape
    <3> QED
      BY <3>1, <3>2
  <2>4. FALSE = (x = Nothing)
    BY MessageQueueAssumption
  <2> QED
    BY <2>1, <2>2, <2>3, <2>4 DEF Queue!Fifo!Send
<1>4. ASSUME UNCHANGED Queue!vars
      PROVE  Queue!QueueTypeOK' /\ UNCHANGED Queue!Fifo!fifoVars
  <2>1. UNCHANGED Queue!ring /\ qGot' = qGot /\ qEvent' = qEvent
    BY <1>4 DEF Queue!vars, Queue!ring
  <2>2. Queue!QueueTypeOK' /\ Queue!Contents' = Queue!Contents
    BY <1>2, <2>1, RingKept
  <2> QED
    BY <2>1, <2>2 DEF Queue!Fifo!fifoVars
<1>5. CASE Queue!EnqueueFails \/ UNCHANGED Queue!vars
  BY <1>4, <1>5 DEF Queue!EnqueueFails
<1>6. CASE Queue!Dequeue /\ qSize > 0
  <2>1. /\ Queue!QueueTypeOK'
        /\ Queue!Contents # <<>> /\ qGot' = Head(Queue!Contents)
        /\ Queue!Contents' = Tail(Queue!Contents)
        /\ qEvent' = (Queue!Contents' # <<>>)
    BY <1>6, Dequeued
  <2>2. Queue!Fifo!Take("caller")
    BY <1>1, <2>1 DEF Queue!Fifo!Take
  <2> QED
    BY <2>1, <2>2 DEF Queue!Fifo!Next
<1>7. ASSUME Queue!Peek \/ (Queue!Dequeue /\ qSize = 0)
      PROVE  /\ Queue!QueueTypeOK' /\ Queue!Contents' = Queue!Contents /\ qEvent' = qEvent
             /\ qGot' = IF qSize > 0 THEN qArray[qHead] ELSE Nothing
  <2>1. qGot' = IF qSize > 0 THEN qArray[qHead] ELSE Nothing
    BY <1>7 DEF Queue!Peek, Queue!Dequeue
  <2>2. ASSUME Queue!Dequeue, qSize = 0 PROVE UNCHANGED Queue!ring
    <3>1. ~(qSize > 0)
      BY <2>2
    <3>2. UNCHANGED <<qHead, qTail, qSize, qCapacity, qArray>> /\ qEvent' = (qEvent /\ qSize' >= 1)
      BY <2>2, <3>1 DEF Queue!Dequeue
    <3>3. ~(qSize' >= 1)
      BY <2>2, <3>2
    <3>4. qEvent' = qEvent
      BY <3>1, <3>2, <3>3 DEF Queue!QueueTypeOK
    <3> QED
      BY <3>2, <3>4 DEF Queue!ring
  <2>3. UNCHANGED Queue!ring
    BY <1>7, <2>2 DEF Queue!Peek
  <2>4. qGot' \in Object
    BY <1>2, <2>1
  <2> QED
    BY <2>1, <2>3, <2>4, RingKept DEF Queue!ring
<1>8. CASE Queue!Peek \/ (Queue!Dequeue /\ qSize = 0)
  <2>1. CASE qSize > 0
    <3>1. Queue!Fifo!Look("caller")
      BY <1>1, <1>7, <1>8, <2>1, EmptyQueue DEF Queue!Fifo!Look
    <3> QED
      BY <1>7, <1>8, <3>1 DEF Queue!Fifo!Next
  <2>2. CASE qSize = 0
    <3>1. ~(qSize > 0)
      BY <2>2
    <3>2. Queue!Fifo!Miss("caller")
      BY <1>1, <1>7, <1>8, <2>2, <3>1, EmptyQueue DEF Queue!Fifo!Miss
    <3> QED
      BY <1>7, <1>8, <3>2 DEF Queue!Fifo!Next
  <2> QED
    BY <2>1, <2>2, QueueShape
<1>9. CASE Queue!Clear
  <2>1. Queue!QueueTypeOK' /\ Queue!Contents' = <<>> /\ qEvent' = FALSE /\ qGot' = qGot
    BY <1>9, QueueCleared
  <2>2. Queue!Fifo!Clear
    BY <2>1 DEF Queue!Fifo!Clear
  <2> QED
    BY <2>1, <2>2 DEF Queue!Fifo!Next
<1>10. qSize = 0 \/ qSize > 0
  BY QueueShape
<1>11. CASE \E x \in Message : Queue!Enqueue(x)
  BY <1>3, <1>11 DEF Queue!Fifo!Next
<1> QED
  BY <1>5, <1>6, <1>8, <1>9, <1>10, <1>11 DEF Queue!Next

(* The ring of Queue.c keeps its shape.                                    *)
THEOREM ObjectsInvariance == Queue!Spec => []Queue!QueueTypeOK
<1>1. Queue!QueueTypeOK /\ [Queue!Next]_(Queue!vars) => Queue!QueueTypeOK'
  BY QueueStep
<1> QED
  BY <1>1, QueueInit, PTL DEF Queue!Spec

(* Queue.c implements a queue: for every initial capacity of at least two, *)
(* however the ring wraps, grows in the middle of a wrap and is cleared,   *)
(* and also when it cannot grow, objects come out once and in order, and   *)
(* the event is set exactly while there is one.                            *)
THEOREM ObjectsAreFifo == Queue!Spec => QueueIsFifo
<1>1. Queue!Init => Queue!Fifo!Init
  <2> SUFFICES ASSUME Queue!Init PROVE Queue!Fifo!Init
    OBVIOUS
  <2>1. Queue!Contents = <<>>
    BY QueueInit, EmptyQueue DEF Queue!Init
  <2> QED
    BY <2>1 DEF Queue!Init, Queue!Fifo!Init
<1>2. Queue!QueueTypeOK /\ [Queue!Next]_(Queue!vars) => [Queue!Fifo!Next]_(Queue!Fifo!fifoVars)
  BY QueueStep
<1> QED
  BY <1>1, <1>2, ObjectsInvariance, PTL DEF Queue!Spec, QueueIsFifo, Queue!IsFifo, Queue!Fifo!Spec

-----------------------------------------------------------------------------
(***************************************************************************)
(* The critical section.                                                   *)
(***************************************************************************)

\* Holder and Times as functions of the depths.
HolderOf(d) == IF {t \in Thread : d[t] > 0} = {} THEN Nobody
               ELSE CHOOSE t \in {u \in Thread : d[u] > 0} : TRUE
TimesOf(d) == IF {t \in Thread : d[t] > 0} = {} THEN 0 ELSE d[HolderOf(d)]

\* They are Holder and Times of the state and of the next one.
LEMMA HolderTimes ==
    /\ Holder = HolderOf(depth) /\ Times = TimesOf(depth)
    /\ Holder' = HolderOf(depth') /\ Times' = TimesOf(depth')
  BY DEF Holder, Times, HolderSet, HolderOf, TimesOf

\* Where one thread at most has entered, it is the holder.
LEMMA OneHolder ==
    ASSUME NEW d \in [Thread -> Nat],
           \A t, u \in Thread : (d[t] > 0 /\ d[u] > 0) => t = u
    PROVE  /\ \A t \in Thread : d[t] > 0 => HolderOf(d) = t /\ TimesOf(d) = d[t]
           /\ (\A t \in Thread : d[t] = 0) => HolderOf(d) = Nobody /\ TimesOf(d) = 0
           /\ TimesOf(d) \in Nat
           /\ TimesOf(d) = 0 => \A t \in Thread : d[t] = 0
<1>1. ASSUME NEW t \in Thread, d[t] > 0
      PROVE  HolderOf(d) = t /\ TimesOf(d) = d[t]
  <2>1. {u \in Thread : d[u] > 0} = {t}
    BY <1>1
  <2>2. (CHOOSE u \in {t} : TRUE) = t
    OBVIOUS
  <2>3. HolderOf(d) = t
    BY <2>1, <2>2 DEF HolderOf
  <2> QED
    BY <2>1, <2>3 DEF TimesOf
<1>2. ASSUME \A t \in Thread : d[t] = 0
      PROVE  HolderOf(d) = Nobody /\ TimesOf(d) = 0
  <2>1. {u \in Thread : d[u] > 0} = {}
    BY <1>2
  <2> QED
    BY <2>1 DEF HolderOf, TimesOf
<1>3. CASE \E t \in Thread : d[t] > 0
  BY <1>1, <1>3
<1>4. CASE \A t \in Thread : d[t] = 0
  BY <1>1, <1>2, <1>4
<1> QED
  BY <1>1, <1>2, <1>3, <1>4

-----------------------------------------------------------------------------
(***************************************************************************)
(* Facts about a state that satisfies the inductive invariant.             *)
(***************************************************************************)

\* Whoever has entered is alone, and is the holder.
LEMMA EnteredAlone ==
    ASSUME SectionIndInv
    PROVE  /\ depth \in [Thread -> Nat]
           /\ \A t, u \in Thread : (depth[t] > 0 /\ depth[u] > 0) => t = u
           /\ \A t \in Thread : depth[t] > 0 => Holder = t /\ Times = depth[t]
           /\ (\A t \in Thread : depth[t] = 0) => Holder = Nobody /\ Times = 0
           /\ Times \in Nat
           /\ Times = 0 => \A t \in Thread : depth[t] = 0
<1>1. depth \in [Thread -> Nat]
  BY DEF SectionIndInv, SectionTypeOK
<1>2. \A t, u \in Thread : (depth[t] > 0 /\ depth[u] > 0) => t = u
  BY DEF SectionIndInv, TokenOK, Bears, Has
<1> QED
  BY <1>1, <1>2, OneHolder, HolderTimes

\* The calls that are counted are finitely many.
LEMMA CountingFinite ==
    ASSUME CriticalSectionAssumption
    PROVE  IsFiniteSet(Counting) /\ Cardinality(Counting) \in Nat
<1>1. Counting \in SUBSET Thread
  BY DEF Counting
<1>2. IsFiniteSet(Counting)
  BY <1>1, FS_Subset DEF CriticalSectionAssumption
<1> QED
  BY <1>2, FS_CardinalityType

\* The counter starts at -1, and is -1 exactly while nobody has the lock or
\* asks for it; then nobody has entered.
LEMMA FreeMeansFree ==
    ASSUME CriticalSectionAssumption, SectionIndInv
    PROVE  /\ lockCount \in Int /\ lockCount >= -1
           /\ lockCount = -1 => /\ sem = 0 /\ Times = 0 /\ Counting = {}
                                /\ \A t \in Thread : ~Bears(t) /\ depth[t] = 0
<1>1. lockCount \in Int /\ sem \in {0, 1}
  BY DEF SectionIndInv, SectionTypeOK
<1>2. Times \in Nat /\ Cardinality(Counting) \in Nat /\ IsFiniteSet(Counting)
  BY EnteredAlone, CountingFinite
<1>3. lockCount + 1 = Times + Cardinality(Counting)
  BY DEF SectionIndInv, LockCountOK
<1>4. lockCount >= -1
  BY <1>1, <1>2, <1>3
<1>5. ASSUME lockCount = -1
      PROVE  /\ sem = 0 /\ Times = 0 /\ Counting = {}
             /\ \A t \in Thread : ~Bears(t) /\ depth[t] = 0
  <2>1. Times = 0 /\ Cardinality(Counting) = 0
    BY <1>1, <1>2, <1>3, <1>5
  <2>2. Counting = {}
    BY <1>2, <2>1, FS_EmptySet
  <2>3. sem = 0 /\ \A t \in Thread : ~Bears(t)
    BY <1>1, <1>5 DEF SectionIndInv, TokenOK
  <2> QED
    BY <2>1, <2>2, <2>3, EnteredAlone
<1> QED
  BY <1>1, <1>4, <1>5

\* How the number of counted calls changes when one thread moves.
LEMMA CountingMoves ==
    ASSUME CriticalSectionAssumption, SectionTypeOK, NEW t \in Thread, NEW p \in Pcs,
           pc' = [pc EXCEPT ![t] = p]
    PROVE  /\ (p \in CountedPcs /\ pc[t] \notin CountedPcs)
                => Cardinality(Counting') = Cardinality(Counting) + 1
           /\ (p \notin CountedPcs /\ pc[t] \in CountedPcs)
                => Cardinality(Counting') = Cardinality(Counting) - 1
           /\ (p \in CountedPcs <=> pc[t] \in CountedPcs)
                => Cardinality(Counting') = Cardinality(Counting)
<1>1. IsFiniteSet(Counting) /\ Cardinality(Counting) \in Nat
  BY CountingFinite
<1>2. pc \in [Thread -> Pcs] /\ (t \in Counting <=> pc[t] \in CountedPcs)
  BY DEF SectionTypeOK, Counting
<1>3. CASE p \in CountedPcs
  <2>1. Counting' = Counting \cup {t}
    BY <1>2, <1>3 DEF Counting
  <2>2. Cardinality(Counting') = IF t \in Counting THEN Cardinality(Counting)
                                                 ELSE Cardinality(Counting) + 1
    BY <1>1, <2>1, FS_AddElement
  <2> QED
    BY <1>1, <1>2, <1>3, <2>2
<1>4. CASE p \notin CountedPcs
  <2>1. Counting' = Counting \ {t}
    BY <1>2, <1>4 DEF Counting
  <2>2. Cardinality(Counting') = IF t \in Counting THEN Cardinality(Counting) - 1
                                                 ELSE Cardinality(Counting)
    BY <1>1, <2>1, FS_RemoveElement
  <2> QED
    BY <1>1, <1>2, <1>4, <2>2
<1> QED
  BY <1>3, <1>4

\* How often the lock is held changes with the depth of the only thread that
\* may hold it.
LEMMA TimesMoves ==
    ASSUME SectionIndInv, NEW t \in Thread, NEW k \in Nat,
           depth' = [depth EXCEPT ![t] = k],
           \A u \in Thread : u # t => depth[u] = 0
    PROVE  /\ Times' = k /\ Times = depth[t]
           /\ Holder' = IF k = 0 THEN Nobody ELSE t
           /\ Holder = IF depth[t] = 0 THEN Nobody ELSE t
<1>1. depth \in [Thread -> Nat] /\ depth' \in [Thread -> Nat]
  BY EnteredAlone
<1>2. Times = depth[t] /\ Holder = IF depth[t] = 0 THEN Nobody ELSE t
  BY <1>1, EnteredAlone
<1>3. \A u \in Thread : u # t => depth'[u] = 0
  BY <1>1
<1>4. depth'[t] = k
  BY <1>1
<1>5. Times' = k /\ Holder' = IF k = 0 THEN Nobody ELSE t
  <2>1. CASE k = 0
    <3>1. \A u \in Thread : depth'[u] = 0
      BY <1>3, <1>4, <2>1
    <3>2. \A u, v \in Thread : (depth'[u] > 0 /\ depth'[v] > 0) => u = v
      BY <3>1
    <3> QED
      BY <1>1, <2>1, <3>1, <3>2, OneHolder, HolderTimes
  <2>2. CASE k > 0
    <3>1. \A u, v \in Thread : (depth'[u] > 0 /\ depth'[v] > 0) => u = v
      BY <1>1, <1>3
    <3> QED
      BY <1>1, <1>4, <2>2, <3>1, OneHolder, HolderTimes
  <2> QED
    BY <2>1, <2>2
<1> QED
  BY <1>2, <1>5

\* Whoever bears the lock is the only one.
LEMMA BearsAlone ==
    ASSUME SectionIndInv, NEW t \in Thread, Bears(t)
    PROVE  /\ sem = 0 /\ lockCount >= 0
           /\ \A u \in Thread : u # t =>
                /\ ~Bears(u) /\ depth[u] = 0
                /\ pc[u] \notin {"own", "ownThread", "tryCount", "clear", "unlock", "post"}
<1>1. sem = 0 /\ lockCount >= 0
  BY DEF SectionIndInv, SectionTypeOK, TokenOK
<1>2. ASSUME NEW u \in Thread, u # t PROVE ~Bears(u)
  BY <1>2 DEF SectionIndInv, TokenOK
<1> QED
  BY <1>1, <1>2 DEF Bears, Has, SectionIndInv, SectionTypeOK

-----------------------------------------------------------------------------
(***************************************************************************)
(* The inductive invariant.                                                *)
(***************************************************************************)

\* InitializeCriticalSectionEx.
LEMMA SectionInitInv ==
    ASSUME CriticalSectionAssumption, SectionInit
    PROVE  SectionIndInv
<1> USE DEF SectionInit
<1>1. SectionTypeOK
  BY DEF CriticalSectionAssumption, SectionTypeOK, Pcs
<1>2. PlacesOK /\ FieldsOK
  BY DEF CriticalSectionAssumption, PlacesOK, FieldsOK
<1>3. TokenOK
  BY DEF TokenOK, Bears, Has
<1>4. Counting = {} /\ Times = 0
  BY DEF Counting, CountedPcs, Times, HolderSet
<1>5. LockCountOK
  BY <1>4, FS_EmptySet DEF LockCountOK
<1> QED
  BY <1>1, <1>2, <1>3, <1>5 DEF SectionIndInv

\* The places at which a thread has neither the lock nor counted itself.
Neutral == {"out", "try", "tryOwner", "spin", "spinTry", "count"}

\* A step between two of them changes nothing but the place: calls that
\* begin, fail or spin.
LEMMA NeutralInv ==
    ASSUME CriticalSectionAssumption, SectionIndInv, NEW t \in Thread,
           Enter(t) \/ TryEnter(t) \/ TryTaken(t) \/ TryFails(t) \/ Spin(t) \/ SpinTaken(t),
           UNCHANGED spinCount
    PROVE  SectionIndInv'
<1> USE DEF SectionIndInv
<1>1. PICK p \in Neutral : /\ pc' = [pc EXCEPT ![t] = p] /\ pc[t] \in Neutral
                           /\ p # "out" => depth[t] < MaxDepth
  BY DEF Enter, TryEnter, TryTaken, TryFails, Spin, SpinTaken, Goes, Neutral, PlacesOK
<1>2. UNCHANGED <<section, depth>>
  BY DEF Enter, TryEnter, TryTaken, TryFails, Spin, SpinTaken
<1>3. trying' \in [Thread -> BOOLEAN] /\ spins' \in [Thread -> 0 .. MaxSpin]
  <2>1. trying' \in [Thread -> BOOLEAN]
    BY DEF Enter, TryEnter, TryTaken, TryFails, Spin, SpinTaken, SectionTypeOK
  <2>2. CASE Spin(t)
    <3>1. /\ spins \in [Thread -> 0 .. MaxSpin] /\ MaxSpin \in Nat
          /\ spins' = [spins EXCEPT ![t] = IF spins[t] > 0 THEN spins[t] - 1 ELSE spins[t]]
      BY <2>2 DEF Spin, SectionTypeOK, CriticalSectionAssumption
    <3>2. (IF spins[t] > 0 THEN spins[t] - 1 ELSE spins[t]) \in 0 .. MaxSpin
      BY <3>1
    <3> QED
      BY <2>1, <3>1, <3>2
  <2>3. CASE ~Spin(t)
    BY <2>1, <2>3 DEF Enter, TryEnter, TryTaken, TryFails, SpinTaken, SectionTypeOK
  <2> QED
    BY <2>2, <2>3
<1>4. SectionTypeOK'
  BY <1>1, <1>2, <1>3 DEF SectionTypeOK, section, Neutral, Pcs
<1>5. PlacesOK'
  BY <1>1, <1>2 DEF PlacesOK, SectionTypeOK, Neutral
<1>6. \A u \in Thread : /\ Bears(u)' <=> Bears(u)
                        /\ pc'[u] = "clear" <=> pc[u] = "clear"
                        /\ pc'[u] = "ownThread" <=> pc[u] = "ownThread"
                        /\ pc'[u] = "tryCount" <=> pc[u] = "tryCount"
  BY <1>1, <1>2 DEF SectionTypeOK, Neutral, Bears, Has
<1>7. FieldsOK'
  BY <1>2, <1>6 DEF FieldsOK, section
<1>8. TokenOK'
  BY <1>2, <1>6 DEF TokenOK, section
<1>9. LockCountOK'
  <2>1. Counting' = Counting
    BY <1>1 DEF Counting, CountedPcs, SectionTypeOK, Neutral
  <2>2. Times' = Times
    BY <1>2 DEF Times, HolderSet, Holder
  <2> QED
    BY <1>2, <2>1, <2>2 DEF LockCountOK, section
<1> QED
  BY <1>4, <1>5, <1>7, <1>8, <1>9

\* The compare-and-exchange, or the increment, finds the section free.
LEMMA TakesInv ==
    ASSUME CriticalSectionAssumption, SectionIndInv, NEW t \in Thread,
           TryTakes(t) \/ SpinTakes(t) \/ (Count(t) /\ lockCount = -1),
           UNCHANGED spinCount
    PROVE  SectionIndInv'
<1> USE DEF SectionIndInv
<1>1. /\ pc' = [pc EXCEPT ![t] = "own"] /\ pc[t] \in Neutral
      /\ lockCount = -1 /\ lockCount' = 0
      /\ UNCHANGED <<recursion, owner, sem, trying, spins, depth>>
  BY DEF TryTakes, SpinTakes, Count, Goes, Neutral
<1>2. /\ sem = 0 /\ \A u \in Thread : ~Bears(u) /\ depth[u] = 0
  BY <1>1, FreeMeansFree
<1>3. SectionTypeOK'
  BY <1>1 DEF SectionTypeOK, Pcs
<1>4. PlacesOK'
  BY <1>1, <1>2 DEF PlacesOK, SectionTypeOK
<1>5. FieldsOK'
  BY <1>1, <1>2 DEF FieldsOK, SectionTypeOK, Bears, Has
<1>6. TokenOK'
  <2>1. \A u \in Thread : Bears(u)' <=> u = t
    BY <1>1, <1>2 DEF Bears, Has, SectionTypeOK
  <2> QED
    BY <1>1, <1>2, <2>1 DEF TokenOK
<1>7. LockCountOK'
  <2>1. Cardinality(Counting') = Cardinality(Counting) + 1
    <3>1. "own" \in Pcs /\ "own" \in CountedPcs /\ pc[t] \notin CountedPcs
      BY <1>1 DEF Pcs, CountedPcs, Neutral
    <3> QED
      BY <1>1, <3>1, CountingMoves, CountingFinite
  <2>2. Times' = Times
    BY <1>1 DEF Times, HolderSet, Holder
  <2> QED
    BY <1>1, <2>1, <2>2, CountingFinite, EnteredAlone DEF LockCountOK
<1> QED
  BY <1>3, <1>4, <1>5, <1>6, <1>7

\* The owner enters once more: it is the one who has entered.
LEMMA TryRecursionInv ==
    ASSUME CriticalSectionAssumption, SectionIndInv, NEW t \in Thread,
           TryRecursion(t), UNCHANGED spinCount
    PROVE  SectionIndInv'
<1> USE DEF SectionIndInv
<1>1. /\ pc' = [pc EXCEPT ![t] = "tryCount"] /\ pc[t] = "tryOwner" /\ owner = t
      /\ recursion' = recursion + 1
      /\ UNCHANGED <<lockCount, owner, sem, trying, spins, depth>>
  BY DEF TryRecursion, Goes
<1>2. depth[t] > 0 /\ depth[t] < MaxDepth /\ recursion = depth[t] /\ Bears(t)
  BY <1>1, EnteredAlone DEF FieldsOK, PlacesOK, Bears, Has
<1>3. SectionTypeOK'
  BY <1>1, <1>2 DEF SectionTypeOK, Pcs, CriticalSectionAssumption
<1>4. PlacesOK'
  BY <1>1, <1>2 DEF PlacesOK, SectionTypeOK
<1>5. FieldsOK'
  <2>1. /\ \A u \in Thread : u # t => depth[u] = 0 /\ pc[u] # "ownThread"
        /\ recursion' = depth[t] + 1 /\ pc'[t] = "tryCount"
    BY <1>1, <1>2, BearsAlone DEF SectionTypeOK
  <2> QED
    BY <1>1, <1>2, <2>1 DEF FieldsOK, SectionTypeOK
<1>6. TokenOK'
  <2>1. \A u \in Thread : Bears(u)' <=> Bears(u)
    BY <1>1, <1>2 DEF Bears, Has, SectionTypeOK
  <2> QED
    BY <1>1, <2>1 DEF TokenOK
<1>7. LockCountOK'
  <2>1. Counting' = Counting /\ Times' = Times
    BY <1>1 DEF Counting, CountedPcs, SectionTypeOK, Times, HolderSet, Holder
  <2> QED
    BY <1>1, <2>1 DEF LockCountOK
<1> QED
  BY <1>3, <1>4, <1>5, <1>6, <1>7

\* The counter follows the recursion.
LEMMA TryCountInv ==
    ASSUME CriticalSectionAssumption, SectionIndInv, NEW t \in Thread,
           TryCount(t), UNCHANGED spinCount
    PROVE  SectionIndInv'
<1> USE DEF SectionIndInv
<1>1. /\ pc' = [pc EXCEPT ![t] = "out"] /\ pc[t] = "tryCount"
      /\ depth' = [depth EXCEPT ![t] = depth[t] + 1]
      /\ lockCount' = lockCount + 1
      /\ UNCHANGED <<recursion, owner, sem, trying, spins>>
  BY DEF TryCount, Entered, Goes
<1>2. /\ depth[t] \in Nat /\ depth[t] > 0 /\ depth[t] < MaxDepth
      /\ recursion = depth[t] + 1 /\ Bears(t)
  BY <1>1, EnteredAlone DEF FieldsOK, PlacesOK, Bears, Has
<1>3. SectionTypeOK'
  BY <1>1, <1>2 DEF SectionTypeOK, Pcs, CriticalSectionAssumption
<1>4. PlacesOK'
  BY <1>1, <1>2 DEF PlacesOK, SectionTypeOK
<1>5. FieldsOK'
  BY <1>1, <1>2, BearsAlone DEF FieldsOK, SectionTypeOK
<1>6. TokenOK'
  <2>1. \A u \in Thread : Bears(u)' <=> u = t
    BY <1>1, <1>2, BearsAlone DEF Bears, Has, SectionTypeOK
  <2>2. sem = 0 /\ lockCount' >= 0
    BY <1>1, <1>2, BearsAlone DEF SectionTypeOK
  <2> QED
    BY <1>1, <2>1, <2>2 DEF TokenOK
<1>7. LockCountOK'
  <2>1. Counting' = Counting
    BY <1>1 DEF Counting, CountedPcs, SectionTypeOK
  <2>2. Times' = Times + 1 /\ Times \in Nat
    <3>1. \A u \in Thread : u # t => depth[u] = 0
      BY <1>2, BearsAlone
    <3>2. depth[t] + 1 \in Nat
      BY <1>2
    <3> QED
      BY <1>1, <1>2, <3>1, <3>2, TimesMoves, EnteredAlone
  <2> QED
    BY <1>1, <2>1, <2>2, CountingFinite DEF LockCountOK, SectionTypeOK
<1> QED
  BY <1>3, <1>4, <1>5, <1>6, <1>7

\* The increment finds the section taken: somebody has it or will post it.
LEMMA CountBusyInv ==
    ASSUME CriticalSectionAssumption, SectionIndInv, NEW t \in Thread,
           Count(t), lockCount # -1, UNCHANGED spinCount
    PROVE  SectionIndInv'
<1> USE DEF SectionIndInv
<1>1. lockCount \in Int /\ lockCount >= 0
  BY FreeMeansFree
<1>2. /\ pc' = [pc EXCEPT ![t] = "check"] /\ pc[t] = "count"
      /\ lockCount' = lockCount + 1
      /\ UNCHANGED <<recursion, owner, sem, trying, spins, depth>>
  <2>1. lockCount' = lockCount + 1 /\ lockCount' # 0
    BY <1>1 DEF Count
  <2> QED
    BY <2>1 DEF Count, Goes
<1>3. SectionTypeOK'
  BY <1>2 DEF SectionTypeOK, Pcs
<1>4. PlacesOK'
  BY <1>2 DEF PlacesOK, SectionTypeOK
<1>5. FieldsOK'
  BY <1>2 DEF FieldsOK, SectionTypeOK
<1>6. TokenOK'
  <2>1. \A u \in Thread : Bears(u)' <=> Bears(u)
    BY <1>2 DEF Bears, Has, SectionTypeOK
  <2>2. lockCount' >= 0
    BY <1>1, <1>2
  <2> QED
    BY <1>1, <1>2, <2>1, <2>2 DEF TokenOK
<1>7. LockCountOK'
  <2>1. Cardinality(Counting') = Cardinality(Counting) + 1
    <3>1. "check" \in Pcs /\ "check" \in CountedPcs /\ pc[t] \notin CountedPcs
      BY <1>2 DEF Pcs, CountedPcs
    <3> QED
      BY <1>2, <3>1, CountingMoves
  <2>2. Times' = Times
    BY <1>2 DEF Times, HolderSet, Holder
  <2> QED
    BY <1>1, <1>2, <2>1, <2>2, CountingFinite, EnteredAlone DEF LockCountOK
<1> QED
  BY <1>3, <1>4, <1>5, <1>6, <1>7

\* Who is counted and is the owner has entered once more.
LEMMA RecursionInv ==
    ASSUME CriticalSectionAssumption, SectionIndInv, NEW t \in Thread,
           Recursion(t), UNCHANGED spinCount
    PROVE  SectionIndInv'
<1> USE DEF SectionIndInv
<1>1. /\ pc' = [pc EXCEPT ![t] = "out"] /\ pc[t] = "check" /\ owner = t
      /\ depth' = [depth EXCEPT ![t] = depth[t] + 1]
      /\ recursion' = recursion + 1
      /\ UNCHANGED <<lockCount, owner, sem, trying, spins>>
  BY DEF Recursion, Entered, Goes
<1>2. /\ depth[t] \in Nat /\ depth[t] > 0 /\ depth[t] < MaxDepth
      /\ recursion = depth[t] /\ Bears(t)
  BY <1>1, EnteredAlone DEF FieldsOK, PlacesOK, Bears, Has
<1>3. SectionTypeOK'
  BY <1>1, <1>2 DEF SectionTypeOK, Pcs, CriticalSectionAssumption
<1>4. PlacesOK'
  BY <1>1, <1>2 DEF PlacesOK, SectionTypeOK
<1>5. FieldsOK'
  BY <1>1, <1>2, BearsAlone DEF FieldsOK, SectionTypeOK
<1>6. TokenOK'
  <2>1. \A u \in Thread : Bears(u)' <=> u = t
    BY <1>1, <1>2, BearsAlone DEF Bears, Has, SectionTypeOK
  <2>2. sem = 0 /\ lockCount' >= 0
    BY <1>1, <1>2, BearsAlone
  <2> QED
    BY <1>1, <2>1, <2>2 DEF TokenOK
<1>7. LockCountOK'
  <2>1. Cardinality(Counting') = Cardinality(Counting) - 1
    <3>1. "out" \in Pcs /\ "out" \notin CountedPcs /\ pc[t] \in CountedPcs
      BY <1>1 DEF Pcs, CountedPcs
    <3> QED
      BY <1>1, <3>1, CountingMoves
  <2>2. Times' = Times + 1 /\ Times \in Nat
    <3>1. \A u \in Thread : u # t => depth[u] = 0
      BY <1>2, BearsAlone
    <3>2. depth[t] + 1 \in Nat
      BY <1>2
    <3> QED
      BY <1>1, <1>2, <3>1, <3>2, TimesMoves, EnteredAlone
  <2> QED
    BY <1>1, <2>1, <2>2, CountingFinite DEF LockCountOK, SectionTypeOK
<1> QED
  BY <1>3, <1>4, <1>5, <1>6, <1>7

\* Who is counted and is not the owner waits.
LEMMA MustWaitInv ==
    ASSUME CriticalSectionAssumption, SectionIndInv, NEW t \in Thread,
           MustWait(t), UNCHANGED spinCount
    PROVE  SectionIndInv'
<1> USE DEF SectionIndInv
<1>1. /\ pc' = [pc EXCEPT ![t] = "wait"] /\ pc[t] = "check" /\ owner # t
      /\ UNCHANGED <<lockCount, recursion, owner, sem, trying, spins, depth>>
  BY DEF MustWait, section, Goes
<1>2. depth[t] = 0
  BY <1>1, EnteredAlone DEF FieldsOK
<1>3. SectionTypeOK'
  BY <1>1, <1>2 DEF SectionTypeOK, Pcs, CriticalSectionAssumption
<1>4. PlacesOK'
  BY <1>1, <1>2 DEF PlacesOK, SectionTypeOK
<1>5. FieldsOK'
  BY <1>1, <1>2 DEF FieldsOK, SectionTypeOK
<1>6. TokenOK'
  <2>1. \A u \in Thread : Bears(u)' <=> Bears(u)
    BY <1>1, <1>2 DEF Bears, Has, SectionTypeOK
  <2> QED
    BY <1>1, <2>1 DEF TokenOK
<1>7. LockCountOK'
  <2>1. Counting' = Counting /\ Times' = Times
    BY <1>1 DEF Counting, CountedPcs, SectionTypeOK, Times, HolderSet, Holder
  <2> QED
    BY <1>1, <2>1 DEF LockCountOK
<1> QED
  BY <1>3, <1>4, <1>5, <1>6, <1>7

\* The lock goes from the semaphore to one of those that wait.
LEMMA WaitInv ==
    ASSUME CriticalSectionAssumption, SectionIndInv, NEW t \in Thread,
           Wait(t), UNCHANGED spinCount
    PROVE  SectionIndInv'
<1> USE DEF SectionIndInv
<1>1. /\ pc' = [pc EXCEPT ![t] = "own"] /\ pc[t] = "wait" /\ sem > 0 /\ sem' = sem - 1
      /\ UNCHANGED <<lockCount, recursion, owner, trying, spins, depth>>
  BY DEF Wait, Goes
<1>2. /\ sem = 1 /\ sem' = 0 /\ lockCount >= 0
      /\ \A u \in Thread : ~Bears(u) /\ depth[u] = 0
  BY <1>1, EnteredAlone DEF TokenOK, SectionTypeOK, Bears, Has
<1>3. SectionTypeOK'
  BY <1>1, <1>2 DEF SectionTypeOK, Pcs, CriticalSectionAssumption
<1>4. PlacesOK'
  BY <1>1, <1>2 DEF PlacesOK, SectionTypeOK
<1>5. FieldsOK'
  BY <1>1, <1>2 DEF FieldsOK, SectionTypeOK, Bears, Has
<1>6. TokenOK'
  <2>1. \A u \in Thread : Bears(u)' <=> u = t
    BY <1>1, <1>2 DEF Bears, Has, SectionTypeOK
  <2> QED
    BY <1>1, <1>2, <2>1 DEF TokenOK
<1>7. LockCountOK'
  <2>1. Counting' = Counting /\ Times' = Times
    BY <1>1 DEF Counting, CountedPcs, SectionTypeOK, Times, HolderSet, Holder
  <2> QED
    BY <1>1, <2>1 DEF LockCountOK
<1> QED
  BY <1>3, <1>4, <1>5, <1>6, <1>7

\* The new owner sets the recursion,
LEMMA OwnInv ==
    ASSUME CriticalSectionAssumption, SectionIndInv, NEW t \in Thread,
           Own(t), UNCHANGED spinCount
    PROVE  SectionIndInv'
<1> USE DEF SectionIndInv
<1>1. /\ pc' = [pc EXCEPT ![t] = "ownThread"] /\ pc[t] = "own" /\ recursion' = 1
      /\ UNCHANGED <<lockCount, owner, sem, trying, spins, depth>>
  BY DEF Own, Goes
<1>2. Bears(t) /\ depth[t] = 0
  BY <1>1 DEF PlacesOK, Bears, Has
<1>3. SectionTypeOK'
  BY <1>1, <1>2 DEF SectionTypeOK, Pcs, CriticalSectionAssumption
<1>4. PlacesOK'
  BY <1>1, <1>2 DEF PlacesOK, SectionTypeOK
<1>5. FieldsOK'
  BY <1>1, <1>2, BearsAlone DEF FieldsOK, SectionTypeOK
<1>6. TokenOK'
  <2>1. \A u \in Thread : Bears(u)' <=> u = t
    BY <1>1, <1>2, BearsAlone DEF Bears, Has, SectionTypeOK
  <2>2. sem' = 0 /\ lockCount' >= 0
    BY <1>1, <1>2, BearsAlone
  <2> QED
    BY <2>1, <2>2 DEF TokenOK
<1>7. LockCountOK'
  <2>1. Counting' = Counting /\ Times' = Times
    BY <1>1 DEF Counting, CountedPcs, SectionTypeOK, Times, HolderSet, Holder
  <2> QED
    BY <1>1, <2>1 DEF LockCountOK
<1> QED
  BY <1>3, <1>4, <1>5, <1>6, <1>7

\* and then the owner, and has entered.
LEMMA OwnThreadInv ==
    ASSUME CriticalSectionAssumption, SectionIndInv, NEW t \in Thread,
           OwnThread(t), UNCHANGED spinCount
    PROVE  SectionIndInv'
<1> USE DEF SectionIndInv
<1>1. /\ pc' = [pc EXCEPT ![t] = "out"] /\ pc[t] = "ownThread" /\ owner' = t
      /\ depth' = [depth EXCEPT ![t] = depth[t] + 1]
      /\ UNCHANGED <<lockCount, recursion, sem, trying, spins>>
  BY DEF OwnThread, Entered, Goes
<1>2. Bears(t) /\ depth[t] = 0 /\ recursion = 1 /\ depth' = [depth EXCEPT ![t] = 1]
  <2>1. Bears(t) /\ depth[t] = 0 /\ recursion = 1
    BY <1>1 DEF PlacesOK, FieldsOK, Bears, Has
  <2>2. depth[t] + 1 = 1
    BY <2>1
  <2> QED
    BY <1>1, <2>1, <2>2
<1>3. SectionTypeOK'
  BY <1>1, <1>2 DEF SectionTypeOK, Pcs, CriticalSectionAssumption
<1>4. PlacesOK'
  BY <1>1, <1>2 DEF PlacesOK, SectionTypeOK
<1>5. FieldsOK'
  BY <1>1, <1>2, BearsAlone DEF FieldsOK, SectionTypeOK
<1>6. TokenOK'
  <2>1. \A u \in Thread : Bears(u)' <=> u = t
    BY <1>1, <1>2, BearsAlone DEF Bears, Has, SectionTypeOK
  <2>2. sem' = 0 /\ lockCount' >= 0
    BY <1>1, <1>2, BearsAlone
  <2> QED
    BY <2>1, <2>2 DEF TokenOK
<1>7. LockCountOK'
  <2>1. Cardinality(Counting') = Cardinality(Counting) - 1
    <3>1. "out" \in Pcs /\ "out" \notin CountedPcs /\ pc[t] \in CountedPcs
      BY <1>1 DEF Pcs, CountedPcs
    <3> QED
      BY <1>1, <3>1, CountingMoves
  <2>2. Times' = 1 /\ Times = 0
    <3>1. \A u \in Thread : u # t => depth[u] = 0
      BY <1>2, BearsAlone
    <3> QED
      BY <1>2, <3>1, TimesMoves
  <2> QED
    BY <1>1, <2>1, <2>2, CountingFinite DEF LockCountOK, SectionTypeOK
<1> QED
  BY <1>3, <1>4, <1>5, <1>6, <1>7

\* Leaving takes one away from the recursion: with the last one the owner
\* gives up the lock, else it only has to count down.
LEMMA LeaveInv ==
    ASSUME CriticalSectionAssumption, SectionIndInv, NEW t \in Thread,
           Leave(t), UNCHANGED spinCount
    PROVE  SectionIndInv'
<1> USE DEF SectionIndInv
<1> DEFINE p == IF depth[t] = 1 THEN "clear" ELSE "uncount"
<1>1. /\ pc[t] = "out" /\ depth[t] > 0 /\ recursion' = recursion - 1
      /\ depth' = [depth EXCEPT ![t] = depth[t] - 1]
      /\ pc' = [pc EXCEPT ![t] = IF recursion' < 1 THEN "clear" ELSE "uncount"]
      /\ UNCHANGED <<lockCount, owner, sem, trying, spins>>
  BY DEF Leave, Goes
<1>2. depth[t] \in Nat \ {0} /\ recursion = depth[t] /\ Bears(t) /\ depth[t] <= MaxDepth
  BY <1>1, EnteredAlone DEF FieldsOK, Bears, Has, SectionTypeOK
<1>3. pc' = [pc EXCEPT ![t] = p] /\ recursion' = depth[t] - 1
  <2>1. recursion' = depth[t] - 1 /\ (recursion' < 1 <=> depth[t] = 1)
    BY <1>1, <1>2
  <2> QED
    BY <1>1, <2>1
<1>4. p \in {"clear", "uncount"} /\ (p = "clear" <=> depth[t] = 1)
  OBVIOUS
<1> HIDE DEF p
<1>5. SectionTypeOK'
  <2>1. recursion' \in 0 .. MaxDepth
    BY <1>2, <1>3 DEF CriticalSectionAssumption
  <2> QED
    BY <1>1, <1>2, <1>3, <1>4, <2>1 DEF SectionTypeOK, Pcs, CriticalSectionAssumption
<1>6. PlacesOK'
  BY <1>1, <1>2, <1>3, <1>4 DEF PlacesOK, SectionTypeOK
<1>7. /\ \A u \in Thread : u # t => /\ depth'[u] = 0 /\ pc'[u] = pc[u] /\ ~Bears(u)
                                    /\ pc[u] \notin {"ownThread", "clear"}
      /\ depth'[t] = depth[t] - 1 /\ pc'[t] = p
  BY <1>1, <1>2, <1>3, BearsAlone DEF SectionTypeOK
<1>8. FieldsOK'
  BY <1>1, <1>2, <1>3, <1>4, <1>7 DEF FieldsOK
<1>9. TokenOK'
  <2>1. \A u \in Thread : Bears(u)' <=> u = t
    BY <1>1, <1>2, <1>4, <1>7 DEF Bears, Has
  <2>2. sem' = 0 /\ lockCount' >= 0
    BY <1>1, <1>2, BearsAlone
  <2> QED
    BY <2>1, <2>2 DEF TokenOK
<1>10. LockCountOK'
  <2>1. Cardinality(Counting') = Cardinality(Counting) + 1
    <3>1. p \in Pcs /\ p \in CountedPcs /\ pc[t] \notin CountedPcs
      BY <1>1, <1>4 DEF Pcs, CountedPcs
    <3> QED
      BY <1>3, <3>1, CountingMoves
  <2>2. Times' = depth[t] - 1 /\ Times = depth[t]
    <3>1. \A u \in Thread : u # t => depth[u] = 0
      BY <1>2, BearsAlone
    <3>2. depth[t] - 1 \in Nat
      BY <1>2
    <3> QED
      BY <1>1, <3>1, <3>2, TimesMoves
  <2> QED
    BY <1>1, <1>2, <2>1, <2>2, CountingFinite DEF LockCountOK, SectionTypeOK
<1> QED
  BY <1>5, <1>6, <1>8, <1>9, <1>10

\* Counting down leaves the section with the thread that still is in it.
LEMMA UncountInv ==
    ASSUME CriticalSectionAssumption, SectionIndInv, NEW t \in Thread,
           Uncount(t), UNCHANGED spinCount
    PROVE  SectionIndInv'
<1> USE DEF SectionIndInv
<1>1. /\ pc' = [pc EXCEPT ![t] = "out"] /\ pc[t] = "uncount" /\ lockCount' = lockCount - 1
      /\ UNCHANGED <<recursion, owner, sem, trying, spins, depth>>
  BY DEF Uncount, Goes
<1>2. depth[t] \in Nat \ {0} /\ Bears(t)
  BY <1>1, EnteredAlone DEF PlacesOK, Bears, Has
<1>3. SectionTypeOK'
  BY <1>1 DEF SectionTypeOK, Pcs
<1>4. PlacesOK'
  BY <1>1, <1>2 DEF PlacesOK, SectionTypeOK
<1>5. FieldsOK'
  BY <1>1, <1>2, BearsAlone DEF FieldsOK, SectionTypeOK
<1>6. LockCountOK' /\ lockCount' >= 0
  <2>1. Cardinality(Counting') = Cardinality(Counting) - 1 /\ Cardinality(Counting) > 0
    <3>1. "out" \in Pcs /\ "out" \notin CountedPcs /\ pc[t] \in CountedPcs /\ t \in Counting
      BY <1>1 DEF Pcs, CountedPcs, Counting
    <3>2. Cardinality(Counting) # 0
      <4>1. Counting # {}
        BY <3>1
      <4> QED
        BY <4>1, CountingFinite, FS_EmptySet
    <3>3. Cardinality(Counting') = Cardinality(Counting) - 1
      BY <1>1, <3>1, CountingMoves
    <3> QED
      BY <3>2, <3>3, CountingFinite
  <2>2. Times' = Times
    BY <1>1 DEF Times, HolderSet, Holder
  <2>3. Times \in Nat \ {0}
    BY <1>2, EnteredAlone
  <2> QED
    BY <1>1, <2>1, <2>2, <2>3, CountingFinite DEF LockCountOK, SectionTypeOK
<1>7. TokenOK'
  <2>1. \A u \in Thread : Bears(u)' <=> u = t
    BY <1>1, <1>2, BearsAlone DEF Bears, Has, SectionTypeOK
  <2>2. sem' = 0
    BY <1>1, <1>2, BearsAlone
  <2> QED
    BY <1>6, <2>1, <2>2 DEF TokenOK
<1> QED
  BY <1>3, <1>4, <1>5, <1>6, <1>7

\* The owner forgets itself before it gives up the lock.
LEMMA ClearOwnerInv ==
    ASSUME CriticalSectionAssumption, SectionIndInv, NEW t \in Thread,
           ClearOwner(t), UNCHANGED spinCount
    PROVE  SectionIndInv'
<1> USE DEF SectionIndInv
<1>1. /\ pc' = [pc EXCEPT ![t] = "unlock"] /\ pc[t] = "clear" /\ owner' = Nobody
      /\ UNCHANGED <<lockCount, recursion, sem, trying, spins, depth>>
  BY DEF ClearOwner, Goes
<1>2. depth[t] = 0 /\ Bears(t)
  BY <1>1 DEF PlacesOK, Bears, Has
<1>3. SectionTypeOK'
  BY <1>1 DEF SectionTypeOK, Pcs
<1>4. PlacesOK'
  BY <1>1, <1>2 DEF PlacesOK, SectionTypeOK
<1>5. FieldsOK'
  <2>1. \A u \in Thread : /\ depth'[u] = 0 /\ pc'[u] \notin {"clear", "ownThread"}
                          /\ pc[u] # "ownThread"
    BY <1>1, <1>2, BearsAlone DEF SectionTypeOK
  <2>2. recursion' = 0
    BY <1>1, <2>1 DEF FieldsOK
  <2> QED
    BY <1>1, <2>1, <2>2 DEF FieldsOK, CriticalSectionAssumption
<1>6. TokenOK'
  <2>1. \A u \in Thread : Bears(u)' <=> u = t
    BY <1>1, <1>2, BearsAlone DEF Bears, Has, SectionTypeOK
  <2>2. sem' = 0 /\ lockCount' >= 0
    BY <1>1, <1>2, BearsAlone
  <2> QED
    BY <2>1, <2>2 DEF TokenOK
<1>7. LockCountOK'
  <2>1. Counting' = Counting /\ Times' = Times
    BY <1>1 DEF Counting, CountedPcs, SectionTypeOK, Times, HolderSet, Holder
  <2> QED
    BY <1>1, <2>1 DEF LockCountOK
<1> QED
  BY <1>3, <1>4, <1>5, <1>6, <1>7

\* The lock is given up: it is free, or will be posted for one who waits.
LEMMA UnlockInv ==
    ASSUME CriticalSectionAssumption, SectionIndInv, NEW t \in Thread,
           Unlock(t), UNCHANGED spinCount
    PROVE  SectionIndInv'
<1> USE DEF SectionIndInv
<1> DEFINE p == IF lockCount' >= 0 THEN "post" ELSE "out"
<1>1. /\ pc' = [pc EXCEPT ![t] = p] /\ pc[t] = "unlock" /\ lockCount' = lockCount - 1
      /\ UNCHANGED <<recursion, owner, sem, trying, spins, depth>>
  BY DEF Unlock, Goes
<1>2. depth[t] = 0 /\ Bears(t)
  BY <1>1 DEF PlacesOK, Bears, Has
<1>3. p \in {"post", "out"} /\ (p = "post" <=> lockCount' >= 0)
  OBVIOUS
<1> HIDE DEF p
<1>4. SectionTypeOK'
  BY <1>1, <1>3 DEF SectionTypeOK, Pcs
<1>5. PlacesOK'
  BY <1>1, <1>2, <1>3 DEF PlacesOK, SectionTypeOK
<1>6. /\ \A u \in Thread : /\ depth'[u] = 0 /\ pc'[u] \notin {"clear", "ownThread"}
                           /\ pc[u] \notin {"clear", "ownThread"} /\ depth[u] = 0
      /\ \A u \in Thread : u # t => pc'[u] = pc[u] /\ ~Bears(u)
      /\ pc'[t] = p
  BY <1>1, <1>2, <1>3, BearsAlone DEF SectionTypeOK
<1>7. FieldsOK'
  BY <1>1, <1>6 DEF FieldsOK
<1>8. TokenOK'
  <2>1. \A u \in Thread : Bears(u)' <=> (u = t /\ lockCount' >= 0)
    BY <1>3, <1>6 DEF Bears, Has
  <2>2. sem' = 0
    BY <1>1, <1>2, BearsAlone
  <2> QED
    BY <2>1, <2>2 DEF TokenOK
<1>9. LockCountOK'
  <2>1. Cardinality(Counting') = Cardinality(Counting) - 1
    <3>1. p \in Pcs /\ p \notin CountedPcs /\ pc[t] \in CountedPcs
      BY <1>1, <1>3 DEF Pcs, CountedPcs
    <3> QED
      BY <1>1, <3>1, CountingMoves
  <2>2. Times' = Times /\ Times \in Nat
    BY <1>1, EnteredAlone DEF Times, HolderSet, Holder
  <2> QED
    BY <1>1, <2>1, <2>2, CountingFinite DEF LockCountOK, SectionTypeOK
<1> QED
  BY <1>4, <1>5, <1>7, <1>8, <1>9

\* The lock goes into the semaphore.
LEMMA PostInv ==
    ASSUME CriticalSectionAssumption, SectionIndInv, NEW t \in Thread,
           Post(t), UNCHANGED spinCount
    PROVE  SectionIndInv'
<1> USE DEF SectionIndInv
<1>1. /\ pc' = [pc EXCEPT ![t] = "out"] /\ pc[t] = "post" /\ sem' = sem + 1
      /\ UNCHANGED <<lockCount, recursion, owner, trying, spins, depth>>
  BY DEF Post, Goes
<1>2. depth[t] = 0 /\ Bears(t) /\ sem' = 1
  <2>1. depth[t] = 0 /\ Bears(t)
    BY <1>1 DEF PlacesOK, Bears
  <2>2. sem = 0
    BY <2>1, BearsAlone
  <2> QED
    BY <1>1, <2>1, <2>2
<1>3. SectionTypeOK'
  BY <1>1, <1>2 DEF SectionTypeOK, Pcs
<1>4. PlacesOK'
  BY <1>1, <1>2 DEF PlacesOK, SectionTypeOK
<1>5. FieldsOK'
  BY <1>1, <1>2, BearsAlone DEF FieldsOK, SectionTypeOK
<1>6. TokenOK'
  <2>1. \A u \in Thread : ~Bears(u)'
    BY <1>1, <1>2, BearsAlone DEF Bears, Has, SectionTypeOK
  <2>2. lockCount' >= 0
    BY <1>1, <1>2, BearsAlone
  <2> QED
    BY <1>2, <2>1, <2>2 DEF TokenOK
<1>7. LockCountOK'
  <2>1. Counting' = Counting /\ Times' = Times
    BY <1>1 DEF Counting, CountedPcs, SectionTypeOK, Times, HolderSet, Holder
  <2> QED
    BY <1>1, <2>1 DEF LockCountOK
<1> QED
  BY <1>3, <1>4, <1>5, <1>6, <1>7

\* A step that leaves the places and the fields alone.
LEMMA StutterInv ==
    ASSUME SectionIndInv, UNCHANGED <<section, pc, trying, spins, depth>>,
           spinCount' \in 0 .. MaxSpin
    PROVE  SectionIndInv'
<1> USE DEF SectionIndInv, section
<1>1. SectionTypeOK'
  BY DEF SectionTypeOK
<1>2. PlacesOK' /\ FieldsOK'
  BY DEF PlacesOK, FieldsOK
<1>3. TokenOK'
  <2>1. \A t \in Thread : Bears(t)' <=> Bears(t)
    BY DEF Bears, Has
  <2> QED
    BY <2>1 DEF TokenOK
<1>4. LockCountOK'
  <2>1. Counting' = Counting /\ Times' = Times
    BY DEF Counting, Times, HolderSet, Holder
  <2> QED
    BY <2>1 DEF LockCountOK
<1> QED
  BY <1>1, <1>2, <1>3, <1>4

\* Every step preserves the inductive invariant.
LEMMA SectionNextInv ==
    ASSUME CriticalSectionAssumption, SectionIndInv, [SectionNext]_sectionVars
    PROVE  SectionIndInv'
<1>1. ASSUME NEW n \in 0 .. MaxSpin, SetSpinCount(n) PROVE SectionIndInv'
  BY <1>1, StutterInv DEF SetSpinCount
<1>2. CASE UNCHANGED sectionVars
  BY <1>2, StutterInv DEF sectionVars, SectionIndInv, SectionTypeOK
<1>3. ASSUME NEW t \in Thread, Enter(t) \/ TryEnter(t) \/ Leave(t) \/ Inside(t),
             UNCHANGED spinCount
      PROVE  SectionIndInv'
  <2>1. CASE Enter(t) \/ TryEnter(t) \/ TryTaken(t) \/ TryFails(t) \/ Spin(t) \/ SpinTaken(t)
    BY <1>3, <2>1, NeutralInv
  <2>2. CASE TryTakes(t) \/ SpinTakes(t)
    BY <1>3, <2>2, TakesInv
  <2>3. CASE Count(t)
    BY <1>3, <2>3, TakesInv, CountBusyInv
  <2>4. CASE TryRecursion(t) \/ TryCount(t) \/ Recursion(t)
    BY <1>3, <2>4, TryRecursionInv, TryCountInv, RecursionInv
  <2>5. CASE MustWait(t) \/ Wait(t) \/ Own(t) \/ OwnThread(t)
    BY <1>3, <2>5, MustWaitInv, WaitInv, OwnInv, OwnThreadInv
  <2>6. CASE Leave(t) \/ Uncount(t) \/ ClearOwner(t) \/ Unlock(t) \/ Post(t)
    BY <1>3, <2>6, LeaveInv, UncountInv, ClearOwnerInv, UnlockInv, PostInv
  <2> QED
    BY <1>3, <2>1, <2>2, <2>3, <2>4, <2>5, <2>6 DEF Inside
<1> QED
  BY <1>1, <1>2, <1>3 DEF SectionNext

\* The invariant of every state implies the property of the states between
\* the calls.
LEMMA BetweenCalls ==
    ASSUME CriticalSectionAssumption, SectionIndInv
    PROVE  MutualExclusion /\ CountsAreRight
<1> USE DEF SectionIndInv
<1>1. MutualExclusion
  BY DEF MutualExclusion, TokenOK, Bears
<1>2. ASSUME \A t \in Thread : pc[t] \in {"out", "wait"}
      PROVE  LET waiting == {t \in Thread : pc[t] = "wait"}
             IN  /\ lockCount = Times + Cardinality(waiting) - 1
                 /\ recursion = Times
                 /\ \A t \in Thread : (depth[t] > 0) => owner = t
                 /\ (Times = 0) => (waiting = {} \/ sem = 1)
  <2> DEFINE waiting == {t \in Thread : pc[t] = "wait"}
  <2>1. Counting = waiting
    BY <1>2 DEF Counting, CountedPcs
  <2>2. Times \in Nat /\ Cardinality(waiting) \in Nat /\ IsFiniteSet(waiting)
    BY <2>1, EnteredAlone, CountingFinite
  <2> HIDE DEF waiting
  <2>3. lockCount = Times + Cardinality(waiting) - 1
    BY <2>1, <2>2 DEF LockCountOK, SectionTypeOK
  <2>4. recursion = Times
    <3>1. CASE \E t \in Thread : depth[t] > 0
      <4>1. PICK t \in Thread : depth[t] > 0
        BY <3>1
      <4>2. Times = depth[t] /\ depth[t] \in Nat
        BY <4>1, EnteredAlone
      <4>3. pc[t] # "tryCount"
        BY <1>2
      <4> QED
        BY <4>1, <4>2, <4>3 DEF FieldsOK
    <3>2. CASE ~ \E t \in Thread : depth[t] > 0
      <4>1. \A t \in Thread : depth[t] = 0 /\ pc[t] # "ownThread"
        BY <1>2, <3>2, EnteredAlone
      <4> QED
        BY <4>1, EnteredAlone DEF FieldsOK
    <3> QED
      BY <3>1, <3>2
  <2>5. ASSUME Times = 0, waiting # {} PROVE sem = 1
    <3>1. \A t \in Thread : ~Bears(t)
      BY <1>2, <2>5, EnteredAlone DEF Bears, Has
    <3>2. Cardinality(waiting) # 0
      BY <2>2, <2>5, FS_EmptySet
    <3>3. lockCount >= 0
      BY <2>2, <2>3, <2>5, <3>2
    <3> QED
      BY <3>1, <3>3 DEF TokenOK
  <2>6. \A t \in Thread : (depth[t] > 0) => owner = t
    BY DEF FieldsOK
  <2> QED
    BY <2>3, <2>4, <2>5, <2>6 DEF waiting
<1> QED
  BY <1>1, <1>2 DEF CountsAreRight

\* For any finite set of threads, any spin count and any depth: one thread
\* at a time has the section, and LockCount and RecursionCount are what their
\* documentation says whenever no thread is in the middle of a call other
\* than waiting (critical.c).
THEOREM SectionInvariance == SectionSpec => []SectionInv
<1> USE WinPRAssumption
<1>1. SectionInit => SectionIndInv
  BY SectionInitInv
<1>2. SectionIndInv /\ [SectionNext]_sectionVars => SectionIndInv'
  BY SectionNextInv
<1>3. SectionIndInv => SectionInv
  BY BetweenCalls DEF SectionInv
<1> QED
  BY <1>1, <1>2, <1>3, PTL DEF SectionSpec

-----------------------------------------------------------------------------
(***************************************************************************)
(* The refinement of RecursiveLock.                                        *)
(***************************************************************************)

\* Every step is one of the lock or none: it is acquired when the owner is
\* set, taken again when a recursive call returns, and released when a call
\* of LeaveCriticalSection takes one away from the recursion.
LEMMA StepIsLock ==
    ASSUME CriticalSectionAssumption, SectionIndInv, [SectionNext]_sectionVars
    PROVE  Lock!Next \/ UNCHANGED Lock!lockVars
<1>1. CASE UNCHANGED depth
  BY <1>1 DEF Holder, Times, HolderSet, Lock!lockVars
<1>2. ASSUME NEW t \in Thread, OwnThread(t) PROVE Lock!Next
  <2>1. /\ pc[t] = "ownThread" /\ depth' = [depth EXCEPT ![t] = depth[t] + 1]
    BY <1>2 DEF OwnThread, Entered, Goes
  <2>2. depth[t] = 0 /\ Bears(t)
    BY <2>1 DEF SectionIndInv, PlacesOK, Bears, Has
  <2>3. \A u \in Thread : u # t => depth[u] = 0
    BY <2>2, BearsAlone
  <2>4. depth[t] + 1 = 1 /\ 1 \in Nat
    BY <2>2
  <2>5. Times' = 1 /\ Holder' = t /\ Holder = Nobody
    <3>1. depth' = [depth EXCEPT ![t] = 1]
      BY <2>1, <2>4
    <3>2. Times' = 1 /\ Holder' = IF 1 = 0 THEN Nobody ELSE t
      BY <2>3, <2>4, <3>1, TimesMoves
    <3>3. Holder = Nobody
      BY <2>2, <2>3, EnteredAlone
    <3> QED
      BY <3>2, <3>3
  <2> QED
    BY <2>5 DEF Lock!Next, Lock!Acquire
<1>3. ASSUME NEW t \in Thread, TryCount(t) \/ Recursion(t) PROVE Lock!Next
  <2>1. /\ depth' = [depth EXCEPT ![t] = depth[t] + 1]
        /\ pc[t] = "tryCount" \/ (pc[t] = "check" /\ owner = t)
    BY <1>3 DEF TryCount, Recursion, Entered, Goes
  <2>2. depth[t] \in Nat \ {0} /\ Bears(t)
    BY <2>1, EnteredAlone DEF SectionIndInv, PlacesOK, FieldsOK, Bears, Has
  <2>3. \A u \in Thread : u # t => depth[u] = 0
    BY <2>2, BearsAlone
  <2>4. depth[t] + 1 \in Nat /\ depth[t] + 1 # 0
    BY <2>2
  <2>5. Times' = depth[t] + 1 /\ Times = depth[t] /\ Holder' = t /\ Holder = t
    BY <2>1, <2>2, <2>3, <2>4, TimesMoves
  <2> QED
    BY <2>5 DEF Lock!Next, Lock!Reenter
<1>4. ASSUME NEW t \in Thread, Leave(t) PROVE Lock!Next
  <2>1. depth[t] > 0 /\ depth' = [depth EXCEPT ![t] = depth[t] - 1]
    BY <1>4 DEF Leave
  <2>2. depth[t] \in Nat \ {0} /\ Bears(t)
    BY <2>1, EnteredAlone DEF Bears, Has
  <2>3. \A u \in Thread : u # t => depth[u] = 0
    BY <2>2, BearsAlone
  <2>4. depth[t] - 1 \in Nat /\ (depth[t] - 1 = 0 <=> depth[t] = 1)
    BY <2>2
  <2>5. /\ Times' = depth[t] - 1 /\ Times = depth[t] /\ Holder = t
        /\ Holder' = IF depth[t] - 1 = 0 THEN Nobody ELSE t
    BY <2>1, <2>2, <2>3, <2>4, TimesMoves
  <2>6. Times > 0 /\ Times' = Times - 1 /\ Holder' = IF Times = 1 THEN Nobody ELSE t
    BY <2>2, <2>4, <2>5
  <2> QED
    BY <2>5, <2>6 DEF Lock!Next, Lock!Release
<1> QED
  BY <1>1, <1>2, <1>3, <1>4
     DEF SectionNext, Inside, sectionVars, SetSpinCount, Enter, TryEnter, TryTakes, TryTaken, TryRecursion,
         TryFails, Spin, SpinTakes, SpinTaken, Count, MustWait, Wait, Own, Uncount,
         ClearOwner, Unlock, Post

\* critical.c implements a recursive lock, for any finite set of threads: a
\* thread that has entered is alone until it has left as often.
THEOREM SectionIsLock == SectionSpec => IsRecursiveLock
<1> USE WinPRAssumption
<1>1. SectionInit => SectionIndInv
  BY SectionInitInv
<1>2. SectionIndInv /\ [SectionNext]_sectionVars => SectionIndInv'
  BY SectionNextInv
<1>3. SectionInit => Lock!Init
  BY DEF SectionInit, Lock!Init, Holder, Times, HolderSet
<1>4. SectionIndInv /\ [SectionNext]_sectionVars => [Lock!Next]_(Lock!lockVars)
  BY StepIsLock
<1> QED
  BY <1>1, <1>2, <1>3, <1>4, PTL DEF SectionSpec, IsRecursiveLock, Lock!Spec


-----------------------------------------------------------------------------
(***************************************************************************)
(* One-time initialisation.                                                *)
(***************************************************************************)

\* The invariant without what follows from the rest.
OnceCore ==
    /\ Once!InitOnceTypeOK /\ Once!ProgressOK
    /\ \A t \in Thread : result[t] = "TRUE" => ptr = 2

LEMMA OnceCoreInv == OnceCore <=> Once!OnceInv
BY DEF OnceCore, Once!OnceInv, Once!InitialisedOnce, Once!ProgressOK

\* A thread that moves without touching the state or the init function.
LEMMA OnceMoves ==
    ASSUME OnceCore, NEW t \in Thread, NEW p \in {"out", "look", "exchange"},
           ~Once!Runs(t), oncePc' = [oncePc EXCEPT ![t] = p], ptr' = ptr,
           runs' = runs, failures' = failures,
           result' = result \/ (ptr = 2 /\ result' = [result EXCEPT ![t] = "TRUE"])
    PROVE  OnceCore'
<1>1. Once!InitOnceTypeOK'
  BY DEF OnceCore, Once!InitOnceTypeOK
<1>2. \A u \in Thread : /\ Once!Runs(u)' <=> Once!Runs(u)
                        /\ oncePc'[u] = "succeeded" <=> oncePc[u] = "succeeded"
  BY DEF OnceCore, Once!InitOnceTypeOK, Once!Runs
<1>3. Once!ProgressOK'
  BY <1>2 DEF OnceCore, Once!ProgressOK
<1>4. \A u \in Thread : result'[u] = "TRUE" => ptr' = 2
  BY DEF OnceCore, Once!InitOnceTypeOK
<1> QED
  BY <1>1, <1>3, <1>4 DEF OnceCore

LEMMA OnceNextInv ==
    ASSUME OnceCore, [Once!Next]_(Once!vars)
    PROVE  OnceCore'
<1>1. ASSUME NEW t \in Thread,
             Once!Call(t) \/ Once!Completed(t) \/ Once!FirstTime(t) \/ Once!Slower(t)
      PROVE  OnceCore'
  <2>1. /\ ~Once!Runs(t) /\ ptr' = ptr /\ runs' = runs /\ failures' = failures
        /\ \E p \in {"out", "look", "exchange"} : oncePc' = [oncePc EXCEPT ![t] = p]
        /\ result' = result \/ (ptr = 2 /\ result' = [result EXCEPT ![t] = "TRUE"])
    BY <1>1 DEF Once!Call, Once!Completed, Once!FirstTime, Once!Slower, Once!Goes, Once!Returns,
               Once!Runs
  <2> QED
    BY <2>1, OnceMoves
<1>2. ASSUME NEW t \in Thread, Once!Exchange(t) PROVE OnceCore'
  <2>1. /\ ptr = 0 /\ ptr' = 1 /\ oncePc[t] = "exchange"
        /\ oncePc' = [oncePc EXCEPT ![t] = "init"]
        /\ result' = result /\ runs' = runs /\ failures' = failures
    BY <1>2 DEF Once!Exchange, Once!Goes
  <2>2. Once!InitOnceTypeOK'
    BY <2>1 DEF OnceCore, Once!InitOnceTypeOK
  <2>3. \A u \in Thread : ~Once!Runs(u)
    BY <2>1 DEF OnceCore, Once!ProgressOK
  <2>4. \A u \in Thread : /\ Once!Runs(u)' <=> u = t
                          /\ oncePc'[u] # "succeeded" /\ oncePc[u] # "succeeded"
    BY <2>1, <2>3 DEF OnceCore, Once!InitOnceTypeOK, Once!Runs
  <2>5. Once!ProgressOK'
    BY <2>1, <2>4 DEF OnceCore, Once!ProgressOK
  <2>6. \A u \in Thread : result'[u] # "TRUE"
    BY <2>1 DEF OnceCore
  <2> QED
    BY <2>2, <2>5, <2>6 DEF OnceCore
<1>3. ASSUME NEW t \in Thread, Once!Succeeds(t) \/ Once!Fails(t) PROVE OnceCore'
  <2>1. /\ oncePc[t] = "init" /\ ptr' = ptr /\ result' = result
        /\ \/ runs' = runs + 1 /\ failures' = failures /\ oncePc' = [oncePc EXCEPT ![t] = "succeeded"]
           \/ /\ runs' = runs /\ failures < MaxFailures /\ failures' = failures + 1
              /\ oncePc' = [oncePc EXCEPT ![t] = "failed"]
    BY <1>3 DEF Once!Succeeds, Once!Fails, Once!Goes
  <2>2. MaxFailures \in Nat
    BY WinPRAssumption DEF Once!InitOnceAssumption
  <2>3. Once!InitOnceTypeOK'
    BY <2>1, <2>2 DEF OnceCore, Once!InitOnceTypeOK
  <2>4. ptr = 1 /\ \A u \in Thread : Once!Runs(u) <=> u = t
    BY <2>1 DEF OnceCore, Once!InitOnceTypeOK, Once!ProgressOK, Once!Runs
  <2>5. runs = 0 /\ \A u \in Thread : u # t => oncePc[u] # "succeeded"
    BY <2>1, <2>4 DEF OnceCore, Once!InitOnceTypeOK, Once!ProgressOK, Once!Runs
  <2>6. \A u \in Thread : /\ Once!Runs(u)' <=> u = t
                          /\ u # t => oncePc'[u] # "succeeded"
    BY <2>1, <2>4, <2>5 DEF OnceCore, Once!InitOnceTypeOK, Once!Runs
  <2>7. runs' = IF \E u \in Thread : oncePc'[u] = "succeeded" THEN 1 ELSE 0
    BY <2>1, <2>5, <2>6 DEF OnceCore, Once!InitOnceTypeOK
  <2>8. Once!ProgressOK'
    BY <2>1, <2>4, <2>6, <2>7 DEF Once!ProgressOK
  <2> QED
    BY <2>1, <2>3, <2>8 DEF OnceCore
<1>4. ASSUME NEW t \in Thread, Once!Complete(t) \/ Once!Reset(t) PROVE OnceCore'
  <2>1. /\ runs' = runs /\ failures' = failures /\ oncePc' = [oncePc EXCEPT ![t] = "out"]
        /\ \/ /\ oncePc[t] = "succeeded" /\ ptr' = 2 /\ result' = [result EXCEPT ![t] = "TRUE"]
           \/ /\ oncePc[t] = "failed" /\ ptr' = 0 /\ result' = [result EXCEPT ![t] = "FALSE"]
    BY <1>4 DEF Once!Complete, Once!Reset, Once!Goes, Once!Returns
  <2>2. Once!InitOnceTypeOK'
    BY <2>1 DEF OnceCore, Once!InitOnceTypeOK
  <2>3. ptr = 1 /\ \A u \in Thread : Once!Runs(u) <=> u = t
    BY <2>1 DEF OnceCore, Once!InitOnceTypeOK, Once!ProgressOK, Once!Runs
  <2>4. \A u \in Thread : ~Once!Runs(u)' /\ (u # t => oncePc[u] # "succeeded") /\ oncePc'[u] # "succeeded"
    BY <2>1, <2>3 DEF OnceCore, Once!InitOnceTypeOK, Once!Runs
  <2>5. runs' = IF ptr' = 2 THEN 1 ELSE 0
    BY <2>1, <2>3, <2>4 DEF OnceCore, Once!ProgressOK
  <2>6. Once!ProgressOK'
    BY <2>1, <2>4, <2>5 DEF Once!ProgressOK
  <2>7. \A u \in Thread : result'[u] = "TRUE" => ptr' = 2
    BY <2>1, <2>3 DEF OnceCore, Once!InitOnceTypeOK
  <2> QED
    BY <2>2, <2>6, <2>7 DEF OnceCore
<1>5. CASE UNCHANGED Once!vars
  <2>1. ptr' = ptr /\ oncePc' = oncePc /\ result' = result /\ runs' = runs /\ failures' = failures
    BY <1>5 DEF Once!vars
  <2> QED
    BY <2>1 DEF OnceCore, Once!InitOnceTypeOK, Once!ProgressOK, Once!Runs
<1>6. ASSUME NEW t \in Thread, Once!InProgress(t) PROVE OnceCore'
  BY <1>5, <1>6 DEF Once!InProgress
<1> QED
  BY <1>1, <1>2, <1>3, <1>4, <1>5, <1>6 DEF Once!Next, Once!Inside, Once!Done

\* The init function of InitOnceExecuteOnce succeeds once, in one thread at a
\* time, and nobody is told TRUE before it has, for any number of threads and
\* of failures (init.c).
THEOREM OnceInvariance == Once!Spec => []Once!OnceInv
<1>1. Once!Init => OnceCore
  <2> SUFFICES ASSUME Once!Init PROVE OnceCore
    OBVIOUS
  <2>1. MaxFailures \in Nat
    BY WinPRAssumption DEF Once!InitOnceAssumption
  <2>2. Once!InitOnceTypeOK
    BY <2>1 DEF Once!Init, Once!InitOnceTypeOK
  <2>3. Once!ProgressOK /\ \A t \in Thread : result[t] # "TRUE"
    BY DEF Once!Init, Once!ProgressOK, Once!Runs
  <2> QED
    BY <2>2, <2>3 DEF OnceCore
<1>2. OnceCore /\ [Once!Next]_(Once!vars) => OnceCore'
  BY OnceNextInv
<1> QED
  BY <1>1, <1>2, OnceCoreInv, PTL DEF Once!Spec

-----------------------------------------------------------------------------
(***************************************************************************)
(* The barrier.                                                            *)
(***************************************************************************)

\* The counts of the instance are those of the standard module.
LEMMA SameCount == ASSUME NEW S PROVE Barrier!Cardinality(S) = Cardinality(S)
BY DEF Barrier!Cardinality, Cardinality

LEMMA SameFinite == ASSUME NEW S PROVE Barrier!IsFiniteSet(S) <=> IsFiniteSet(S)
BY DEF Barrier!IsFiniteSet, IsFiniteSet

\* The barrier is for one thread at least, and a finite number of them.
LEMMA TotalCounts ==
    /\ IsFiniteSet(Thread) /\ Barrier!Total = Cardinality(Thread)
    /\ Barrier!Total \in Nat /\ Barrier!Total > 0 /\ MaxRounds \in Nat
<1>1. IsFiniteSet(Thread) /\ Thread # {} /\ MaxRounds \in Nat
  BY WinPRAssumption, SameFinite DEF Barrier!BarrierAssumption
<1>2. Barrier!Total = Cardinality(Thread)
  BY SameCount DEF Barrier!Total
<1>3. Cardinality(Thread) \in Nat /\ Cardinality(Thread) # 0
  BY <1>1, FS_CardinalityType, FS_EmptySet
<1> QED
  BY <1>1, <1>2, <1>3

\* A state of the barrier in which round k is counted.
InState(k) ==
    /\ Barrier!BarrierTypeOK /\ Barrier!EventsOK
    /\ Barrier!PlacesOK(k) /\ Barrier!CounterOK(k) /\ Barrier!WinnersOK(k)

\* Those that are counted are finitely many, and not more than the others.
LEMMA CountedFinite ==
    ASSUME NEW k
    PROVE  /\ IsFiniteSet(Barrier!Counted(k)) /\ Cardinality(Barrier!Counted(k)) \in Nat
           /\ Barrier!Cardinality(Barrier!Counted(k)) = Cardinality(Barrier!Counted(k))
<1>1. Barrier!Counted(k) \subseteq Thread
  BY DEF Barrier!Counted
<1>2. IsFiniteSet(Barrier!Counted(k))
  BY <1>1, TotalCounts, FS_Subset
<1> QED
  BY <1>2, FS_CardinalityType, SameCount

\* Where a thread can be that is not the last of its round.
Apart(t, k) ==
    \/ barPc[t] = "out" /\ entered[t] = k - 1 /\ through[t] = k - 1
    \/ barPc[t] = "decrement" /\ Barrier!InRound(t, k)
    \/ Barrier!Waits(t) /\ (Barrier!InRound(t, k) \/ Barrier!Leaving(t, k))
    \/ barPc[t] = "signal" /\ Barrier!Leaving(t, k)

\* While somebody does not wait in the round, nobody is the last of it.
LEMMA NobodyLast ==
    ASSUME NEW k, Barrier!PlacesOK(k), NEW t \in Thread, ~Barrier!Last(t),
           ~(Barrier!Waits(t) /\ Barrier!InRound(t, k))
    PROVE  \A u \in Thread : ~Barrier!Last(u) /\ Apart(u, k)
<1>1. \A u \in Thread : ~Barrier!Last(u)
  BY DEF Barrier!PlacesOK, Barrier!Last, Barrier!Waits
<1>2. \A u \in Thread : Apart(u, k)
  BY <1>1 DEF Barrier!PlacesOK, Apart
<1> QED
  BY <1>1, <1>2

\* The last one finds all the others waiting in the round.
LEMMA OthersWait ==
    ASSUME NEW k, Barrier!PlacesOK(k), NEW t \in Thread, Barrier!Last(t)
    PROVE  /\ Barrier!InRound(t, k)
           /\ \A u \in Thread : u # t => Barrier!Waits(u) /\ Barrier!InRound(u, k)
           /\ \A u \in Thread : Barrier!Last(u) => u = t
<1>1. /\ Barrier!InRound(t, k)
      /\ \A u \in Thread \ {t} : Barrier!Waits(u) /\ Barrier!InRound(u, k)
  BY DEF Barrier!PlacesOK, Barrier!Last, Barrier!Waits
<1> QED
  BY <1>1 DEF Barrier!Last, Barrier!Waits

\* What a step of t leaves alone in the calls of the others.
Stay(t) ==
    \A u \in Thread : u # t =>
        /\ barPc'[u] = barPc[u] /\ entered'[u] = entered[u]
        /\ through'[u] = through[u] /\ mine'[u] = mine[u]

LEMMA StayPlaces ==
    ASSUME NEW k, NEW t \in Thread, NEW u \in Thread, u # t, Stay(t), current' = current
    PROVE  /\ Barrier!InRound(u, k)' <=> Barrier!InRound(u, k)
           /\ Barrier!Leaving(u, k)' <=> Barrier!Leaving(u, k)
           /\ Barrier!Waits(u)' <=> Barrier!Waits(u)
           /\ Barrier!Last(u)' <=> Barrier!Last(u)
           /\ Apart(u, k)' <=> Apart(u, k)
<1>1. /\ barPc'[u] = barPc[u] /\ entered'[u] = entered[u]
      /\ through'[u] = through[u] /\ mine'[u] = mine[u]
  BY DEF Stay
<1> QED
  BY <1>1 DEF Barrier!InRound, Barrier!Leaving, Barrier!Waits, Barrier!Last, Apart

\* A step of a thread that does not make it the last of the round.
LEMMA PlacesMove ==
    ASSUME NEW k, \A u \in Thread : ~Barrier!Last(u) /\ Apart(u, k),
           NEW t \in Thread, Stay(t), current' = current, Apart(t, k)'
    PROVE  /\ Barrier!PlacesOK(k)' /\ \A u \in Thread : ~Barrier!Last(u)'
<1>1. \A u \in Thread : Apart(u, k)'
  BY StayPlaces
<1>2. Barrier!PlacesOK(k)'
  BY <1>1 DEF Barrier!PlacesOK, Apart
<1>3. \A u \in Thread : ~Barrier!Last(u)'
  BY <1>1 DEF Apart, Barrier!Last, Barrier!Waits
<1> QED
  BY <1>2, <1>3

\* A step of the last one that leaves it so.
LEMMA LastMoves ==
    ASSUME NEW k, Barrier!PlacesOK(k), NEW t \in Thread, Barrier!Last(t), Barrier!Last(t)',
           Stay(t), current' = current, Barrier!InRound(t, k)'
    PROVE  /\ Barrier!PlacesOK(k)'
           /\ \A u \in Thread : u # t => barPc'[u] \in {"spin", "block"}
<1>1. \A u \in Thread : u # t => Barrier!Waits(u)' /\ Barrier!InRound(u, k)'
  BY OthersWait, StayPlaces
<1>2. Barrier!PlacesOK(k)'
  BY <1>1 DEF Barrier!PlacesOK
<1> QED
  BY <1>1, <1>2 DEF Barrier!Waits

\* The events, while nobody is the last.
LEMMA EventsKept ==
    ASSUME Barrier!EventsOK, current' = current, dormant' = dormant, set'[current] = FALSE,
           \A u \in Thread : ~Barrier!Last(u) /\ ~Barrier!Last(u)'
    PROVE  Barrier!EventsOK'
<1>1. dormant = 1 - current
  BY DEF Barrier!EventsOK, Barrier!Last
<1> QED
  BY <1>1 DEF Barrier!EventsOK, Barrier!Last

\* The winners, when no call begins or ends to signal.
LEMMA WinnersKept ==
    ASSUME NEW k, Barrier!WinnersOK(k), winners' = winners,
           \A u \in Thread : /\ barPc'[u] = "signal" <=> barPc[u] = "signal"
                             /\ barPc[u] = "signal" => entered'[u] = entered[u]
    PROVE  Barrier!WinnersOK(k)'
<1>1. \A r \in 1 .. MaxRounds :
          (\E t \in Thread : barPc'[t] = "signal" /\ entered'[t] = r)
              <=> \E t \in Thread : barPc[t] = "signal" /\ entered[t] = r
  OBVIOUS
<1> QED
  BY <1>1 DEF Barrier!WinnersOK

\* The counter, when nobody comes to be counted or is the last.
LEMMA CounterKept ==
    ASSUME NEW k, Barrier!CounterOK(k), remaining' = remaining,
           \A u \in Thread : ~Barrier!Last(u) /\ ~Barrier!Last(u)',
           \A u \in Thread : (Barrier!Waits(u) /\ entered[u] = k) <=> (Barrier!Waits(u)' /\ entered'[u] = k)
    PROVE  Barrier!CounterOK(k)'
<1>1. Barrier!Counted(k)' = Barrier!Counted(k)
  BY DEF Barrier!Counted
<1>2. remaining = Barrier!Total - Barrier!Cardinality(Barrier!Counted(k)) /\ remaining > 0
  BY DEF Barrier!CounterOK
<1>3. \A u \in Thread : barPc'[u] \notin {"reset", "recount", "switch", "switched"}
  BY DEF Barrier!Last
<1> QED
  BY <1>1, <1>2, <1>3 DEF Barrier!CounterOK

LEMMA EnterKeeps ==
    ASSUME NEW k \in 1 .. MaxRounds + 1, InState(k), NEW t \in Thread, Barrier!Enter(t)
    PROVE  InState(k)'
<1>1. /\ entered[t] < MaxRounds /\ barPc[t] = "out" /\ barPc' = [barPc EXCEPT ![t] = "decrement"]
      /\ mine' = [mine EXCEPT ![t] = <<current, dormant>>]
      /\ entered' = [entered EXCEPT ![t] = entered[t] + 1]
      /\ \E f \in {"default", "block", "spin"} : flags' = [flags EXCEPT ![t] = f]
      /\ UNCHANGED <<remaining, current, dormant, set, deleted, through, winners>>
  BY DEF Barrier!Enter, Barrier!Goes
<1>2. /\ barPc \in [Thread -> Barrier!Pcs] /\ mine \in [Thread -> {0, 1} \X {0, 1}]
      /\ entered \in [Thread -> 0 .. MaxRounds] /\ current \in {0, 1} /\ dormant \in {0, 1}
      /\ through \in [Thread -> 0 .. MaxRounds]
  BY DEF InState, Barrier!BarrierTypeOK
<1>3. Barrier!BarrierTypeOK'
  <2>1. entered[t] + 1 \in 0 .. MaxRounds
    BY <1>1, <1>2, TotalCounts
  <2>2. entered' \in [Thread -> 0 .. MaxRounds] /\ mine' \in [Thread -> {0, 1} \X {0, 1}]
        /\ barPc' \in [Thread -> Barrier!Pcs]
    BY <1>1, <1>2, <2>1 DEF Barrier!Pcs
  <2>3. flags' \in [Thread -> {"default", "block", "spin"}]
    BY <1>1 DEF InState, Barrier!BarrierTypeOK
  <2> QED
    BY <1>1, <2>2, <2>3 DEF InState, Barrier!BarrierTypeOK
<1>4. \A u \in Thread : ~Barrier!Last(u) /\ Apart(u, k)
  BY <1>1, NobodyLast DEF InState, Barrier!Last, Barrier!Waits
<1>5. Stay(t)
  BY <1>1, <1>2 DEF Stay
<1>6. dormant = 1 - current
  BY <1>4 DEF InState, Barrier!EventsOK, Barrier!Last
<1>7. Barrier!InRound(t, k)' /\ barPc'[t] = "decrement"
  <2>1. entered[t] = k - 1 /\ through[t] = k - 1
    BY <1>1, <1>4 DEF Apart, Barrier!Waits
  <2>2. entered'[t] = k /\ through'[t] = k - 1 /\ mine'[t] = <<current, 1 - current>>
    BY <1>1, <1>2, <1>6, <2>1
  <2> QED
    BY <1>1, <1>2, <2>2 DEF Barrier!InRound
<1>8. Barrier!PlacesOK(k)' /\ \A u \in Thread : ~Barrier!Last(u)'
  BY <1>1, <1>4, <1>5, <1>7, PlacesMove DEF Apart
<1>9. Barrier!EventsOK'
  BY <1>1, <1>4, <1>8, EventsKept DEF InState, Barrier!EventsOK, Barrier!BarrierTypeOK
<1>10. \A u \in Thread : (Barrier!Waits(u) /\ entered[u] = k) <=> (Barrier!Waits(u)' /\ entered'[u] = k)
  BY <1>1, <1>5, <1>7 DEF Stay, Barrier!Waits
<1>11. Barrier!CounterOK(k)'
  BY <1>1, <1>4, <1>8, <1>10, CounterKept DEF InState
<1>12. Barrier!WinnersOK(k)'
  BY <1>1, <1>5, <1>7, WinnersKept DEF InState, Stay
<1> QED
  BY <1>3, <1>8, <1>9, <1>11, <1>12 DEF InState


\* The thread that decrements the counter to zero is the last: all others
\* have been counted.
LEMMA AllCounted ==
    ASSUME NEW k, NEW t \in Thread, t \notin Barrier!Counted(k),
           Cardinality(Barrier!Counted(k)) = Barrier!Total - 1
    PROVE  \A u \in Thread : u # t => u \in Barrier!Counted(k)
<1> DEFINE S == Thread \ {t}
<1>1. IsFiniteSet(S) /\ Cardinality(S) = Cardinality(Thread) - 1
  BY TotalCounts, FS_RemoveElement
<1>2. Barrier!Counted(k) \subseteq S
  BY DEF Barrier!Counted
<1>3. Cardinality(Barrier!Counted(k)) = Cardinality(S)
  BY <1>1, TotalCounts
<1>4. Barrier!Counted(k) = S
  BY <1>1, <1>2, <1>3, FS_Subset
<1> QED
  BY <1>4

LEMMA DecrementKeeps ==
    ASSUME NEW k \in 1 .. MaxRounds + 1, InState(k), NEW t \in Thread, Barrier!Decrement(t)
    PROVE  InState(k)'
<1>1. /\ remaining' = remaining - 1 /\ barPc[t] = "decrement"
      /\ \/ remaining' = 0 /\ barPc' = [barPc EXCEPT ![t] = "reset"]
         \/ /\ remaining' # 0
            /\ barPc' = [barPc EXCEPT ![t] = "spin"] \/ barPc' = [barPc EXCEPT ![t] = "block"]
      /\ UNCHANGED <<flags, mine, entered, through, current, dormant, set, deleted, winners>>
  BY DEF Barrier!Decrement, Barrier!Goes, Barrier!Calls
<1>2. barPc \in [Thread -> Barrier!Pcs]
  BY DEF InState, Barrier!BarrierTypeOK
<1>3. \A u \in Thread : ~Barrier!Last(u) /\ Apart(u, k)
  BY <1>1, NobodyLast DEF InState, Barrier!Last, Barrier!Waits
<1>4. Stay(t)
  BY <1>1, <1>2 DEF Stay
<1>5. Barrier!InRound(t, k) /\ Barrier!InRound(t, k)' /\ entered[t] = k
  BY <1>1, <1>3 DEF Apart, Barrier!Waits, Barrier!InRound
<1>6. t \notin Barrier!Counted(k)
  BY <1>1 DEF Barrier!Counted, Barrier!Waits
<1> DEFINE n == Cardinality(Barrier!Counted(k))
<1>7. n \in Nat /\ remaining = Barrier!Total - n /\ remaining > 0 /\ Barrier!Total \in Nat
  BY <1>3, CountedFinite, TotalCounts DEF InState, Barrier!CounterOK
<1> HIDE DEF n
<1>8. Barrier!BarrierTypeOK'
  <2>1. remaining' \in 0 .. Barrier!Total
    BY <1>1, <1>7
  <2>2. barPc' \in [Thread -> Barrier!Pcs]
    BY <1>1, <1>2 DEF Barrier!Pcs
  <2> QED
    BY <1>1, <2>1, <2>2 DEF InState, Barrier!BarrierTypeOK
<1>9. Barrier!WinnersOK(k)'
  BY <1>1, <1>2, WinnersKept DEF InState
<1>10. CASE remaining' = 0
  <2>1. barPc' = [barPc EXCEPT ![t] = "reset"] /\ barPc'[t] = "reset"
    BY <1>1, <1>2, <1>10
  <2>2. n = Barrier!Total - 1
    BY <1>1, <1>7, <1>10
  <2>3. \A u \in Thread : u # t => Barrier!Waits(u) /\ entered[u] = k
    BY <1>6, <2>2, AllCounted DEF n, Barrier!Counted
  <2>4. \A u \in Thread : u # t => Barrier!Waits(u) /\ Barrier!InRound(u, k)
    BY <1>3, <2>3 DEF Apart, Barrier!Waits, Barrier!Leaving
  <2>5. \A u \in Thread : u # t => Barrier!Waits(u)' /\ Barrier!InRound(u, k)'
    BY <1>1, <1>4, <2>4, StayPlaces
  <2>6. Barrier!Last(t)'
    BY <2>1 DEF Barrier!Last
  <2>7. Barrier!PlacesOK(k)'
    BY <1>5, <2>5, <2>6 DEF Barrier!PlacesOK
  <2>8. \A u \in Thread : barPc'[u] \notin {"recount", "switch", "switched"}
    BY <2>1, <2>5 DEF Barrier!Waits
  <2>9. Barrier!CounterOK(k)'
    BY <1>10, <2>6, <2>8 DEF Barrier!CounterOK
  <2>10. Barrier!EventsOK'
    BY <1>1, <1>3, <2>8 DEF InState, Barrier!EventsOK, Barrier!Last
  <2> QED
    BY <1>8, <1>9, <2>7, <2>9, <2>10 DEF InState
<1>11. CASE remaining' # 0
  <2>1. barPc'[t] \in {"spin", "block"} /\ Barrier!Waits(t)'
    BY <1>1, <1>2, <1>11 DEF Barrier!Waits
  <2>2. Barrier!PlacesOK(k)' /\ \A u \in Thread : ~Barrier!Last(u)'
    BY <1>1, <1>3, <1>4, <1>5, <2>1, PlacesMove DEF Apart
  <2>3. Barrier!EventsOK'
    BY <1>1, <1>3, <2>2, EventsKept DEF InState, Barrier!EventsOK, Barrier!BarrierTypeOK
  <2>4. Barrier!Counted(k)' = Barrier!Counted(k) \cup {t}
    BY <1>1, <1>4, <1>5, <2>1 DEF Barrier!Counted, Stay, Barrier!Waits
  <2>5. Cardinality(Barrier!Counted(k)') = n + 1
    BY <1>6, <2>4, CountedFinite, FS_AddElement DEF n
  <2>6. remaining' = Barrier!Total - (n + 1) /\ remaining' > 0
    BY <1>1, <1>7, <1>11
  <2>7. remaining' = Barrier!Total - Barrier!Cardinality(Barrier!Counted(k)')
    BY <2>5, <2>6, SameCount
  <2>8. \A u \in Thread : barPc'[u] \notin {"reset", "recount", "switch", "switched"}
    BY <2>2 DEF Barrier!Last
  <2>9. Barrier!CounterOK(k)'
    BY <2>6, <2>7, <2>8 DEF Barrier!CounterOK
  <2> QED
    BY <1>8, <1>9, <2>2, <2>3, <2>9 DEF InState
<1> QED
  BY <1>10, <1>11

\* A thread leaves the round before: it saw the events change places, or its
\* event was set.
LEMMA LeaveKeeps ==
    ASSUME NEW k \in 1 .. MaxRounds + 1, InState(k), NEW t \in Thread,
           Barrier!SpinEnds(t) \/ Barrier!Block(t)
    PROVE  InState(k)'
<1>1. /\ Barrier!Waits(t) /\ barPc' = [barPc EXCEPT ![t] = "out"]
      /\ through' = [through EXCEPT ![t] = through[t] + 1]
      /\ current # mine[t][1] \/ set[mine[t][1]]
      /\ UNCHANGED <<remaining, current, dormant, set, deleted, flags, mine, entered, winners>>
  BY DEF Barrier!SpinEnds, Barrier!Block, Barrier!Returns, Barrier!Goes, Barrier!Waits
<1>2. /\ barPc \in [Thread -> Barrier!Pcs] /\ entered \in [Thread -> 0 .. MaxRounds]
      /\ through \in [Thread -> 0 .. MaxRounds]
  BY DEF InState, Barrier!BarrierTypeOK
<1>3. ~Barrier!InRound(t, k)
  BY <1>1 DEF InState, Barrier!EventsOK, Barrier!InRound
<1>4. \A u \in Thread : ~Barrier!Last(u) /\ Apart(u, k)
  <2>1. ~Barrier!Last(t)
    BY <1>1 DEF Barrier!Last, Barrier!Waits
  <2> QED
    BY <1>3, <2>1, NobodyLast DEF InState
<1>5. Stay(t)
  BY <1>1, <1>2 DEF Stay
<1>6. entered[t] = k - 1 /\ through[t] = k - 2
  BY <1>1, <1>3, <1>4 DEF Apart, Barrier!Waits, Barrier!Leaving
<1>7. through[t] + 1 = k - 1 /\ entered[t] # k
  BY <1>6
<1>8. Barrier!BarrierTypeOK'
  <2>1. through[t] + 1 \in 0 .. MaxRounds
    BY <1>2, <1>6, <1>7
  <2>2. barPc' \in [Thread -> Barrier!Pcs] /\ through' \in [Thread -> 0 .. MaxRounds]
    BY <1>1, <1>2, <2>1 DEF Barrier!Pcs
  <2> QED
    BY <1>1, <2>2 DEF InState, Barrier!BarrierTypeOK
<1>9. barPc'[t] = "out" /\ entered'[t] = k - 1 /\ through'[t] = k - 1
  BY <1>1, <1>2, <1>6, <1>7
<1>10. Barrier!PlacesOK(k)' /\ \A u \in Thread : ~Barrier!Last(u)'
  BY <1>1, <1>4, <1>5, <1>9, PlacesMove DEF Apart
<1>11. Barrier!EventsOK'
  BY <1>1, <1>4, <1>10, EventsKept DEF InState, Barrier!EventsOK, Barrier!BarrierTypeOK
<1>12. \A u \in Thread : (Barrier!Waits(u) /\ entered[u] = k) <=> (Barrier!Waits(u)' /\ entered'[u] = k)
  BY <1>1, <1>5, <1>7, <1>9 DEF Stay, Barrier!Waits
<1>13. Barrier!CounterOK(k)'
  BY <1>1, <1>4, <1>10, <1>12, CounterKept DEF InState
<1>14. Barrier!WinnersOK(k)'
  BY <1>1, <1>2, WinnersKept DEF InState, Barrier!Waits
<1> QED
  BY <1>8, <1>10, <1>11, <1>13, <1>14 DEF InState

LEMMA SpinTiresKeeps ==
    ASSUME NEW k \in 1 .. MaxRounds + 1, InState(k), NEW t \in Thread, Barrier!SpinTires(t)
    PROVE  InState(k)'
<1>1. /\ barPc[t] = "spin" /\ barPc' = [barPc EXCEPT ![t] = "block"]
      /\ UNCHANGED <<remaining, current, dormant, set, deleted, flags, mine, entered, through, winners>>
  BY DEF Barrier!SpinTires, Barrier!Goes, Barrier!Calls
<1>2. barPc \in [Thread -> Barrier!Pcs]
  BY DEF InState, Barrier!BarrierTypeOK
<1>3. \A u \in Thread : /\ Barrier!Waits(u)' <=> Barrier!Waits(u)
                        /\ barPc'[u] = barPc[u] \/ (Barrier!Waits(u) /\ Barrier!Waits(u)')
  BY <1>1, <1>2 DEF Barrier!Waits
<1>4. \A u \in Thread : \A p \in {"out", "decrement", "reset", "recount", "switch", "switched", "signal"} :
          barPc'[u] = p <=> barPc[u] = p
  BY <1>3 DEF Barrier!Waits
<1>5. Barrier!BarrierTypeOK'
  <2>1. barPc' \in [Thread -> Barrier!Pcs]
    BY <1>1, <1>2 DEF Barrier!Pcs
  <2> QED
    BY <1>1, <2>1 DEF InState, Barrier!BarrierTypeOK
<1>6. Barrier!EventsOK'
  BY <1>1, <1>4 DEF InState, Barrier!EventsOK
<1>7. Barrier!WinnersOK(k)'
  BY <1>1, <1>4, WinnersKept DEF InState
<1>8. \A u \in Thread : /\ Barrier!InRound(u, k)' <=> Barrier!InRound(u, k)
                        /\ Barrier!Leaving(u, k)' <=> Barrier!Leaving(u, k)
                        /\ Barrier!Last(u)' <=> Barrier!Last(u)
  BY <1>1, <1>4 DEF Barrier!InRound, Barrier!Leaving, Barrier!Last
<1>9. Barrier!PlacesOK(k)'
  BY <1>1, <1>3, <1>4, <1>8 DEF InState, Barrier!PlacesOK
<1>10. Barrier!Counted(k)' = Barrier!Counted(k)
  BY <1>1, <1>3 DEF Barrier!Counted
<1>11. Barrier!CounterOK(k)'
  BY <1>1, <1>4, <1>8, <1>10 DEF InState, Barrier!CounterOK
<1> QED
  BY <1>5, <1>6, <1>7, <1>9, <1>11 DEF InState


\* The last thread resets the event that is to be the current one, the
\* counter, and makes the first half of the change of places.
LEMMA ResetKeeps ==
    ASSUME NEW k \in 1 .. MaxRounds + 1, InState(k), NEW t \in Thread,
           Barrier!ResetDormant(t) \/ Barrier!ResetCounter(t) \/ Barrier!SwitchDormant(t)
    PROVE  InState(k)'
<1>1. /\ UNCHANGED <<current, deleted, flags, mine, entered, through, winners>>
      /\ \/ /\ barPc[t] = "reset" /\ barPc' = [barPc EXCEPT ![t] = "recount"]
            /\ set' = [set EXCEPT ![mine[t][2]] = FALSE] /\ UNCHANGED <<remaining, dormant>>
         \/ /\ barPc[t] = "recount" /\ barPc' = [barPc EXCEPT ![t] = "switch"]
            /\ remaining' = Barrier!Total /\ UNCHANGED <<set, dormant>>
         \/ /\ barPc[t] = "switch" /\ barPc' = [barPc EXCEPT ![t] = "switched"]
            /\ dormant' = mine[t][1] /\ UNCHANGED <<set, remaining>>
  BY DEF Barrier!ResetDormant, Barrier!ResetCounter, Barrier!SwitchDormant, Barrier!Goes, Barrier!Calls
<1>2. /\ barPc \in [Thread -> Barrier!Pcs] /\ set \in [{0, 1} -> BOOLEAN] /\ current \in {0, 1}
      /\ remaining \in 0 .. Barrier!Total /\ dormant \in {0, 1}
  BY DEF InState, Barrier!BarrierTypeOK
<1>3. Barrier!Last(t) /\ Barrier!Last(t)' /\ barPc'[t] \in {"recount", "switch", "switched"}
  BY <1>1, <1>2 DEF Barrier!Last
<1>4. Stay(t)
  BY <1>1, <1>2 DEF Stay
<1>5. /\ Barrier!InRound(t, k) /\ Barrier!InRound(t, k)'
      /\ mine[t] = <<current, 1 - current>> /\ mine[t][1] = current /\ mine[t][2] = 1 - current
  BY <1>1, <1>3, OthersWait DEF InState, Barrier!InRound
<1>6. Barrier!PlacesOK(k)' /\ \A u \in Thread : u # t => barPc'[u] \in {"spin", "block"}
  BY <1>1, <1>3, <1>4, <1>5, LastMoves DEF InState
<1>7. \A u \in Thread : u # t => barPc[u] \in {"spin", "block"}
  BY <1>3, OthersWait DEF InState, Barrier!Waits
<1>8. set' \in [{0, 1} -> BOOLEAN] /\ ~set'[current] /\ ~set'[1 - current]
  <2>1. 1 - current \in {0, 1} /\ 1 - current # current
    BY <1>2
  <2>2. ~set[current] /\ (barPc[t] # "reset" => ~set[1 - current])
    BY <1>1 DEF InState, Barrier!EventsOK
  <2>3. \/ barPc[t] = "reset" /\ set' = [set EXCEPT ![1 - current] = FALSE]
        \/ barPc[t] # "reset" /\ set' = set
    BY <1>1, <1>5
  <2> HIDE DEF Barrier!EventsOK
  <2> QED
    BY <1>2, <2>1, <2>2, <2>3
<1>9. dormant' = IF barPc'[t] = "switched" THEN current ELSE 1 - current
  <2>1. dormant = 1 - current
    BY <1>1, <1>7 DEF InState, Barrier!EventsOK
  <2> QED
    BY <1>1, <1>2, <1>5, <2>1
<1>10. Barrier!EventsOK'
  BY <1>1, <1>6, <1>8, <1>9 DEF Barrier!EventsOK
<1>11. Barrier!BarrierTypeOK'
  <2>1. barPc' \in [Thread -> Barrier!Pcs]
    BY <1>1, <1>2 DEF Barrier!Pcs
  <2>2. remaining' \in 0 .. Barrier!Total
    BY <1>1, <1>2, TotalCounts
  <2>3. dormant' \in {0, 1} /\ current' \in {0, 1}
    BY <1>1, <1>2, <1>9
  <2> QED
    BY <1>1, <1>8, <2>1, <2>2, <2>3 DEF InState, Barrier!BarrierTypeOK
<1>12. Barrier!WinnersOK(k)'
  BY <1>1, <1>3, <1>6, <1>7, WinnersKept DEF InState
<1>13. Barrier!CounterOK(k)'
  <2>1. barPc'[t] = "recount" => remaining' = 0
    BY <1>1, <1>2 DEF InState, Barrier!CounterOK
  <2>2. barPc'[t] \in {"switch", "switched"} => remaining' = Barrier!Total
    BY <1>1, <1>2 DEF InState, Barrier!CounterOK
  <2> QED
    BY <1>3, <1>6, <2>1, <2>2 DEF Barrier!CounterOK
<1> QED
  BY <1>6, <1>10, <1>11, <1>12, <1>13 DEF InState

\* The events change places: the next round is counted, and everybody is on
\* the way out of this one.
LEMMA SwitchKeeps ==
    ASSUME NEW k \in 1 .. MaxRounds + 1, InState(k), NEW t \in Thread, Barrier!SwitchCurrent(t)
    PROVE  k + 1 \in 1 .. MaxRounds + 1 /\ InState(k + 1)'
<1>1. /\ barPc[t] = "switched" /\ barPc' = [barPc EXCEPT ![t] = "signal"] /\ current' = mine[t][2]
      /\ UNCHANGED <<remaining, dormant, set, deleted, flags, mine, entered, through, winners>>
  BY DEF Barrier!SwitchCurrent, Barrier!Goes, Barrier!Calls
<1>2. /\ barPc \in [Thread -> Barrier!Pcs] /\ set \in [{0, 1} -> BOOLEAN] /\ current \in {0, 1}
      /\ entered \in [Thread -> 0 .. MaxRounds]
  BY DEF InState, Barrier!BarrierTypeOK
<1>3. Barrier!Last(t)
  BY <1>1 DEF Barrier!Last
<1>4. /\ \A u \in Thread : Barrier!InRound(u, k)
      /\ \A u \in Thread : u # t => barPc[u] \in {"spin", "block"}
  BY <1>3, OthersWait DEF InState, Barrier!Waits
<1>5. \A u \in Thread : entered[u] = k /\ through[u] = k - 1 /\ mine[u] = <<current, 1 - current>>
  BY <1>4 DEF Barrier!InRound
<1>6. k + 1 \in 1 .. MaxRounds + 1 /\ k + 1 - 1 = k /\ k + 1 - 2 = k - 1
  BY <1>2, <1>5, TotalCounts
<1>7. /\ current' = 1 - current /\ 1 - current' = current /\ current' \in {0, 1}
  BY <1>1, <1>2, <1>5
<1>8. \A u \in Thread : Barrier!Leaving(u, k + 1)'
  BY <1>1, <1>5, <1>6, <1>7 DEF Barrier!Leaving
<1>9. barPc'[t] = "signal" /\ \A u \in Thread : u # t => barPc'[u] \in {"spin", "block"}
  BY <1>1, <1>2, <1>4
<1>10. Barrier!PlacesOK(k + 1)'
  BY <1>8, <1>9 DEF Barrier!PlacesOK, Barrier!Waits
<1>11. Barrier!EventsOK'
  <2>1. ~set[1 - current] /\ dormant = current
    BY <1>1 DEF InState, Barrier!EventsOK
  <2>2. \A u \in Thread : barPc'[u] \notin {"recount", "switch", "switched"}
    BY <1>9
  <2> QED
    BY <1>1, <1>7, <2>1, <2>2 DEF Barrier!EventsOK
<1>12. Barrier!BarrierTypeOK'
  <2>1. barPc' \in [Thread -> Barrier!Pcs]
    BY <1>1, <1>2 DEF Barrier!Pcs
  <2> QED
    BY <1>1, <1>7, <2>1 DEF InState, Barrier!BarrierTypeOK
<1>13. Barrier!CounterOK(k + 1)'
  <2>1. remaining' = Barrier!Total
    BY <1>1 DEF InState, Barrier!CounterOK
  <2>2. Barrier!Counted(k + 1)' = {}
    BY <1>1, <1>5 DEF Barrier!Counted
  <2>3. Barrier!Cardinality(Barrier!Counted(k + 1)') = 0
    BY <2>2, SameCount, FS_EmptySet
  <2>4. remaining' = Barrier!Total - Barrier!Cardinality(Barrier!Counted(k + 1)') /\ remaining' > 0
    BY <2>1, <2>3, TotalCounts
  <2>5. \A u \in Thread : barPc'[u] \notin {"reset", "recount", "switch", "switched"}
    BY <1>9
  <2> QED
    BY <2>4, <2>5 DEF Barrier!CounterOK
<1>14. Barrier!WinnersOK(k + 1)'
  <2>1. \A u \in Thread : barPc[u] # "signal" /\ (barPc'[u] = "signal" <=> u = t)
    BY <1>1, <1>4, <1>9
  <2>2. \A r \in 1 .. MaxRounds : winners'[r] = IF r < k THEN 1 ELSE 0
    BY <1>1, <2>1 DEF InState, Barrier!WinnersOK
  <2>3. \A r \in 1 .. MaxRounds : (\E u \in Thread : barPc'[u] = "signal" /\ entered'[u] = r) <=> r = k
    BY <1>1, <1>5, <2>1
  <2>4. \A r \in 1 .. MaxRounds : (r < k) <=> (r < k + 1 /\ ~(r = k))
    OBVIOUS
  <2>5. \A r \in 1 .. MaxRounds :
            winners'[r] = IF r < k + 1 /\ ~ \E u \in Thread : barPc'[u] = "signal" /\ entered'[u] = r
                          THEN 1 ELSE 0
    BY <2>2, <2>3, <2>4
  <2> QED
    BY <2>1, <2>5 DEF Barrier!WinnersOK
<1> QED
  BY <1>6, <1>10, <1>11, <1>12, <1>13, <1>14 DEF InState

\* The last thread of the round before releases those that block, and is
\* told TRUE.
LEMMA SignalKeeps ==
    ASSUME NEW k \in 1 .. MaxRounds + 1, InState(k), NEW t \in Thread, Barrier!Signal(t)
    PROVE  InState(k)'
<1>1. /\ set' = [set EXCEPT ![mine[t][1]] = TRUE]
      /\ barPc[t] = "signal" /\ barPc' = [barPc EXCEPT ![t] = "out"]
      /\ through' = [through EXCEPT ![t] = through[t] + 1]
      /\ winners' = [winners EXCEPT ![entered[t]] = winners[entered[t]] + 1]
      /\ UNCHANGED <<remaining, current, dormant, deleted, flags, mine, entered>>
  BY DEF Barrier!Signal, Barrier!Returns, Barrier!Goes
<1>2. /\ barPc \in [Thread -> Barrier!Pcs] /\ set \in [{0, 1} -> BOOLEAN] /\ current \in {0, 1}
      /\ entered \in [Thread -> 0 .. MaxRounds] /\ through \in [Thread -> 0 .. MaxRounds]
      /\ winners \in [1 .. MaxRounds -> 0 .. Barrier!Total]
  BY DEF InState, Barrier!BarrierTypeOK
<1>3. \A u \in Thread : ~Barrier!Last(u) /\ Apart(u, k)
  BY <1>1, NobodyLast DEF InState, Barrier!Last, Barrier!Waits
<1>4. Stay(t)
  BY <1>1, <1>2 DEF Stay
<1>5. entered[t] = k - 1 /\ through[t] = k - 2 /\ mine[t] = <<1 - current, current>>
  BY <1>1, <1>3 DEF Apart, Barrier!Waits, Barrier!Leaving
<1>6. through[t] + 1 = k - 1 /\ k - 1 \in 1 .. MaxRounds /\ k - 1 # k /\ k - 1 < k
  BY <1>2, <1>5
<1>7. barPc'[t] = "out" /\ entered'[t] = k - 1 /\ through'[t] = k - 1
  BY <1>1, <1>2, <1>5, <1>6
<1>8. Barrier!PlacesOK(k)' /\ \A u \in Thread : ~Barrier!Last(u)'
  BY <1>1, <1>3, <1>4, <1>7, PlacesMove DEF Apart
<1>9. set' \in [{0, 1} -> BOOLEAN] /\ set'[current] = FALSE
  <2>1. 1 - current \in {0, 1} /\ 1 - current # current
    BY <1>2
  <2>2. ~set[current] /\ set' = [set EXCEPT ![1 - current] = TRUE]
    BY <1>1, <1>5 DEF InState, Barrier!EventsOK
  <2> QED
    BY <1>2, <2>1, <2>2
<1>10. Barrier!EventsOK'
  BY <1>1, <1>3, <1>8, <1>9, EventsKept DEF InState
<1>11. \A u \in Thread : (Barrier!Waits(u) /\ entered[u] = k) <=> (Barrier!Waits(u)' /\ entered'[u] = k)
  BY <1>1, <1>4, <1>7 DEF Stay, Barrier!Waits
<1>12. Barrier!CounterOK(k)'
  BY <1>1, <1>3, <1>8, <1>11, CounterKept DEF InState
<1>13. \A u \in Thread : (barPc[u] = "signal" <=> u = t) /\ barPc'[u] # "signal"
  BY <1>1, <1>2 DEF InState, Barrier!WinnersOK
<1>14. \A r \in 1 .. MaxRounds : winners[r] = IF r < k /\ r # k - 1 THEN 1 ELSE 0
  <2>1. \A r \in 1 .. MaxRounds : (\E u \in Thread : barPc[u] = "signal" /\ entered[u] = r) <=> r = k - 1
    BY <1>5, <1>13
  <2> QED
    BY <2>1 DEF InState, Barrier!WinnersOK
<1>15. winners' = [winners EXCEPT ![k - 1] = 1]
  <2>1. winners[k - 1] = 0
    BY <1>6, <1>14
  <2> QED
    BY <1>1, <1>5, <2>1
<1>16. \A r \in 1 .. MaxRounds : winners'[r] = IF r < k THEN 1 ELSE 0
  BY <1>2, <1>6, <1>14, <1>15
<1>17. Barrier!WinnersOK(k)'
  BY <1>13, <1>16 DEF Barrier!WinnersOK
<1>18. Barrier!BarrierTypeOK'
  <2>1. through[t] + 1 \in 0 .. MaxRounds /\ 1 \in 0 .. Barrier!Total
    BY <1>6, TotalCounts
  <2>2. /\ barPc' \in [Thread -> Barrier!Pcs] /\ through' \in [Thread -> 0 .. MaxRounds]
        /\ winners' \in [1 .. MaxRounds -> 0 .. Barrier!Total]
    BY <1>1, <1>2, <1>15, <2>1 DEF Barrier!Pcs
  <2> QED
    BY <1>1, <1>9, <2>2 DEF InState, Barrier!BarrierTypeOK
<1> QED
  BY <1>8, <1>10, <1>12, <1>17, <1>18 DEF InState


LEMMA BarrierInitInv == Barrier!Init => 1 \in 1 .. MaxRounds + 1 /\ InState(1)
<1> SUFFICES ASSUME Barrier!Init PROVE 1 \in 1 .. MaxRounds + 1 /\ InState(1)
  OBVIOUS
<1>1. 1 \in 1 .. MaxRounds + 1 /\ 0 \in 0 .. MaxRounds /\ 1 - 1 = 0
  BY TotalCounts
<1>2. /\ remaining = Barrier!Total /\ current = 0 /\ dormant = 1
      /\ set = [e \in {0, 1} |-> FALSE] /\ deleted = FALSE
      /\ barPc = [t \in Thread |-> "out"] /\ flags = [t \in Thread |-> "default"]
      /\ mine = [t \in Thread |-> <<0, 1>>]
      /\ entered = [t \in Thread |-> 0] /\ through = [t \in Thread |-> 0]
      /\ winners = [r \in 1 .. MaxRounds |-> 0]
  BY DEF Barrier!Init
<1>3. Barrier!BarrierTypeOK
  <2>1. remaining \in 0 .. Barrier!Total /\ 0 \in 0 .. Barrier!Total
    BY <1>2, TotalCounts
  <2>2. deleted \in BOOLEAN /\ set \in [{0, 1} -> BOOLEAN]
    BY <1>2
  <2>3. /\ barPc \in [Thread -> Barrier!Pcs] /\ flags \in [Thread -> {"default", "block", "spin"}]
        /\ mine \in [Thread -> {0, 1} \X {0, 1}] /\ {current, dormant} \subseteq {0, 1}
    BY <1>2 DEF Barrier!Pcs
  <2>4. /\ entered \in [Thread -> 0 .. MaxRounds] /\ through \in [Thread -> 0 .. MaxRounds]
        /\ winners \in [1 .. MaxRounds -> 0 .. Barrier!Total]
    BY <1>1, <1>2, <2>1
  <2> QED
    BY <2>1, <2>2, <2>3, <2>4 DEF Barrier!BarrierTypeOK
<1>4. Barrier!EventsOK
  <2>1. set[0] = FALSE /\ \A t \in Thread : barPc[t] = "out"
    BY <1>2
  <2>2. dormant = 1 - current
    BY <1>2
  <2> QED
    BY <1>2, <2>1, <2>2 DEF Barrier!EventsOK
<1>5. Barrier!PlacesOK(1)
  BY <1>1, <1>2 DEF Barrier!PlacesOK
<1>6. Barrier!CounterOK(1)
  <2>1. Barrier!Counted(1) = {}
    BY <1>2 DEF Barrier!Counted, Barrier!Waits
  <2>2. Barrier!Cardinality(Barrier!Counted(1)) = 0
    BY <2>1, SameCount, FS_EmptySet
  <2>3. remaining = Barrier!Total - Barrier!Cardinality(Barrier!Counted(1)) /\ remaining > 0
    BY <1>2, <2>2, TotalCounts
  <2> QED
    BY <1>2, <2>3 DEF Barrier!CounterOK
<1>7. Barrier!WinnersOK(1)
  BY <1>2 DEF Barrier!WinnersOK
<1> QED
  BY <1>1, <1>3, <1>4, <1>5, <1>6, <1>7 DEF InState

LEMMA BarrierNextInv ==
    ASSUME NEW k \in 1 .. MaxRounds + 1, InState(k), [Barrier!Next]_(Barrier!vars)
    PROVE  \E j \in 1 .. MaxRounds + 1 : InState(j)'
<1>1. ASSUME UNCHANGED <<remaining, current, dormant, set, barPc, flags, mine, entered, through, winners>>,
             deleted' \in BOOLEAN
      PROVE  InState(k)'
  <2>1. Barrier!BarrierTypeOK'
    BY <1>1 DEF InState, Barrier!BarrierTypeOK
  <2>2. Barrier!EventsOK'
    BY <1>1 DEF InState, Barrier!EventsOK
  <2>3. \A u \in Thread : /\ Barrier!InRound(u, k)' <=> Barrier!InRound(u, k)
                          /\ Barrier!Leaving(u, k)' <=> Barrier!Leaving(u, k)
                          /\ Barrier!Last(u)' <=> Barrier!Last(u)
                          /\ Barrier!Waits(u)' <=> Barrier!Waits(u)
    BY <1>1 DEF Barrier!InRound, Barrier!Leaving, Barrier!Last, Barrier!Waits
  <2>4. Barrier!PlacesOK(k)'
    BY <1>1, <2>3 DEF InState, Barrier!PlacesOK
  <2>5. Barrier!Counted(k)' = Barrier!Counted(k)
    BY <1>1, <2>3 DEF Barrier!Counted
  <2>6. Barrier!CounterOK(k)'
    BY <1>1, <2>3, <2>5 DEF InState, Barrier!CounterOK
  <2>7. Barrier!WinnersOK(k)'
    BY <1>1 DEF InState, Barrier!WinnersOK
  <2> QED
    BY <2>1, <2>2, <2>4, <2>6, <2>7 DEF InState
<1>2. CASE UNCHANGED Barrier!vars
  <2>1. deleted' \in BOOLEAN
    BY <1>2 DEF Barrier!vars, InState, Barrier!BarrierTypeOK
  <2> QED
    BY <1>1, <1>2, <2>1 DEF Barrier!vars, Barrier!local
<1>3. ASSUME NEW t \in Thread, Barrier!Delete(t) PROVE InState(k)'
  BY <1>1, <1>3 DEF Barrier!Delete, Barrier!local
<1>4. ASSUME NEW t \in Thread, Barrier!Step(t) PROVE \E j \in 1 .. MaxRounds + 1 : InState(j)'
  <2>1. CASE Barrier!SwitchCurrent(t)
    BY <2>1, SwitchKeeps
  <2>2. CASE Barrier!SpinOn(t)
    BY <1>2, <2>2 DEF Barrier!SpinOn
  <2>3. CASE Barrier!Enter(t) \/ Barrier!Decrement(t) \/ Barrier!SpinTires(t) \/ Barrier!Signal(t)
    BY <2>3, EnterKeeps, DecrementKeeps, SpinTiresKeeps, SignalKeeps
  <2>4. CASE Barrier!SpinEnds(t) \/ Barrier!Block(t)
    BY <2>4, LeaveKeeps
  <2>5. CASE Barrier!ResetDormant(t) \/ Barrier!ResetCounter(t) \/ Barrier!SwitchDormant(t)
    BY <2>5, ResetKeeps
  <2> QED
    BY <1>4, <2>1, <2>2, <2>3, <2>4, <2>5 DEF Barrier!Step
<1> QED
  BY <1>2, <1>3, <1>4 DEF Barrier!Next, Barrier!Done

\* What the invariant means to the callers.
LEMMA RoundsApart ==
    ASSUME NEW k \in 1 .. MaxRounds + 1, InState(k)
    PROVE  Barrier!NobodyPassesEarly /\ Barrier!OneWinner
<1>1. \A t \in Thread : /\ entered[t] = k - 1 \/ entered[t] = k
                        /\ through[t] = k - 1 \/ through[t] = k - 2
                        /\ barPc[t] = "signal" => entered[t] = k - 1 /\ through[t] = k - 2
  BY DEF InState, Barrier!PlacesOK, Barrier!InRound, Barrier!Leaving, Barrier!Waits, Barrier!Last
<1>2. Barrier!NobodyPassesEarly
  <2> SUFFICES ASSUME NEW t \in Thread, NEW u \in Thread PROVE through[t] <= entered[u]
    BY DEF Barrier!NobodyPassesEarly
  <2>1. (entered[u] = k - 1 \/ entered[u] = k) /\ (through[t] = k - 1 \/ through[t] = k - 2)
    BY <1>1
  <2> QED
    BY <2>1
<1>3. Barrier!OneWinner
  <2> SUFFICES ASSUME NEW r \in 1 .. MaxRounds
               PROVE  /\ winners[r] <= 1
                      /\ (\A t \in Thread : through[t] >= r) => winners[r] = 1
    BY DEF Barrier!OneWinner
  <2>1. winners[r] = IF r < k /\ ~ \E t \in Thread : barPc[t] = "signal" /\ entered[t] = r
                     THEN 1 ELSE 0
    BY DEF InState, Barrier!WinnersOK
  <2>2. ASSUME \A t \in Thread : through[t] >= r PROVE winners[r] = 1
    <3>1. PICK t \in Thread : TRUE
      BY TotalCounts, FS_EmptySet
    <3>2. r < k
      <4>1. through[t] >= r /\ (through[t] = k - 1 \/ through[t] = k - 2)
        BY <1>1, <2>2
      <4> QED
        BY <4>1
    <3>3. ASSUME NEW u \in Thread, barPc[u] = "signal", entered[u] = r PROVE FALSE
      <4>1. through[u] >= r /\ r = k - 1 /\ through[u] = k - 2
        BY <1>1, <2>2, <3>3
      <4> QED
        BY <4>1
    <3> QED
      BY <2>1, <3>2, <3>3
  <2> QED
    BY <2>1, <2>2
<1> QED
  BY <1>2, <1>3

\* Nobody returns from EnterSynchronizationBarrier in a round that somebody
\* has not entered, and one thread of every round is told TRUE, for any number
\* of threads and of rounds, whichever way each of them waits (barrier.c).
THEOREM BarrierInvariance == Barrier!Spec => []BarrierInv
<1>1. Barrier!Init => Barrier!BarrierIndInv
  BY BarrierInitInv DEF InState, Barrier!BarrierIndInv
<1>2. Barrier!BarrierIndInv /\ [Barrier!Next]_(Barrier!vars) => Barrier!BarrierIndInv'
  <2> SUFFICES ASSUME Barrier!BarrierIndInv, [Barrier!Next]_(Barrier!vars)
               PROVE  Barrier!BarrierIndInv'
    OBVIOUS
  <2>1. PICK k \in 1 .. MaxRounds + 1 : InState(k)
    BY DEF InState, Barrier!BarrierIndInv
  <2>2. PICK j \in 1 .. MaxRounds + 1 : InState(j)'
    BY <2>1, BarrierNextInv
  <2> QED
    BY <2>2 DEF InState, Barrier!BarrierIndInv
<1>3. Barrier!BarrierIndInv => BarrierInv
  <2> SUFFICES ASSUME Barrier!BarrierIndInv PROVE BarrierInv
    OBVIOUS
  <2>1. PICK k \in 1 .. MaxRounds + 1 : InState(k)
    BY DEF InState, Barrier!BarrierIndInv
  <2> QED
    BY <2>1, RoundsApart DEF BarrierInv, Barrier!BarrierInv
<1> QED
  BY <1>1, <1>2, <1>3, PTL DEF Barrier!Spec

-----------------------------------------------------------------------------
(***************************************************************************)
(* The objects together.                                                   *)
(***************************************************************************)

\* Each object behaves as its own module says.
LEMMA EachObject == WinPRSpec => Spec /\ Queue!Spec /\ SectionSpec /\ Barrier!Spec /\ Once!Spec
<1>1. WinPRInit => Init /\ Queue!Init /\ SectionInit /\ Barrier!Init /\ Once!Init
  BY DEF WinPRInit
<1>2. [WinPRNext]_winprVars => [Next]_mqVars
  BY DEF WinPRNext, winprVars
<1>3. [WinPRNext]_winprVars => [Queue!Next]_(Queue!vars)
  BY DEF WinPRNext, winprVars, objectVars, Queue!vars, Queue!ring
<1>4. [WinPRNext]_winprVars => [SectionNext]_sectionVars
  BY DEF WinPRNext, winprVars
<1>5. [WinPRNext]_winprVars => [Barrier!Next]_(Barrier!vars)
  BY DEF WinPRNext, winprVars, barrierVars, Barrier!vars, Barrier!local
<1>6. [WinPRNext]_winprVars => [Once!Next]_(Once!vars)
  BY DEF WinPRNext, winprVars, onceVars, Once!vars
<1> QED
  BY <1>1, <1>2, <1>3, <1>4, <1>5, <1>6, PTL
     DEF WinPRSpec, Spec, Queue!Spec, SectionSpec, Barrier!Spec, Once!Spec

\* The rings of MessageQueue.c and Queue.c keep their shape, and the init
\* function succeeds once before anybody is told so.
THEOREM ObjectsIntact == WinPRSpec => []ObjectsInv
<1>1. IndInv /\ Queue!QueueTypeOK /\ Once!OnceInv => ObjectsInv
  BY DEF ObjectsInv
<1> QED
  BY <1>1, EachObject, MessagesInvariance, ObjectsInvariance, OnceInvariance, PTL
=============================================================================
