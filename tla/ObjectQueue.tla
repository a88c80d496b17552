---------------------------- MODULE ObjectQueue ----------------------------
(***************************************************************************)
(* The object queue of WinPR (winpr/libwinpr/utils/collections/Queue.c), a *)
(* ring buffer that grows.  The thread pool keeps its pending work in one  *)
(* and the proxy the channel data for its target; modules ThreadPool and   *)
(* ProxySession take it for the sequence that it is shown to implement.    *)
(* It is used synchronized: every function works under queue->lock and is  *)
(* one step.                                                               *)
(***************************************************************************)
EXTENDS Naturals, Sequences

CONSTANTS
    Item,            \* the objects
    NULL,            \* no object: an empty slot, the answer of an empty queue
    InitialCapacity, \* 32 unless Queue_New is told otherwise
    MaxSize          \* bound: nothing is queued in a queue of this size

\* What is assumed of the constants.
ObjectQueueAssumption ==
    /\ InitialCapacity \in Nat /\ InitialCapacity >= 2
    /\ MaxSize \in Nat /\ NULL \notin Item

VARIABLES head, tail, size, capacity, array,
    event, \* queue->event is set
    got    \* what Queue_Dequeue or Queue_Peek returned last

ring == <<head, tail, size, capacity, array, event>>
vars == <<ring, got>>

\* Queue_New.
Init ==
    /\ head = 0 /\ tail = 0 /\ size = 0 /\ capacity = InitialCapacity
    /\ array = [i \in 0 .. InitialCapacity - 1 |-> NULL]
    /\ event = FALSE /\ got = NULL

-----------------------------------------------------------------------------
(***************************************************************************)
(* Queue_EnsureCapacity for one object, with a growth factor of 2.         *)
(***************************************************************************)
MustGrowLate == size + 1 > capacity
MustGrow == size + 1 >= capacity
WrappedNever == FALSE
Wrapped == tail <= head
GrownTail == IF Wrapped THEN tail + capacity ELSE tail

\* The new half is zeroed; wrapped entries are copied behind the old end and
\* stay where they were, too.
GrownArray ==
    [i \in 0 .. 2 * capacity - 1 |->
        IF i < capacity THEN array[i]
        ELSE IF Wrapped /\ i - capacity < tail THEN array[i - capacity] ELSE NULL]

-----------------------------------------------------------------------------
(***************************************************************************)
(* Queue_Enqueue: the event is set by the object that finds the queue      *)
(* empty.                                                                  *)
(***************************************************************************)
Store(x, arr, cap, at) ==
    /\ array' = [arr EXCEPT ![at] = x] /\ capacity' = cap
    /\ tail' = (at + 1) % cap /\ size' = size + 1
    /\ event' = (event \/ size = 0)
    /\ UNCHANGED <<head, got>>

Enqueue(x) ==
    /\ size < MaxSize
    /\ \/ ~MustGrow /\ Store(x, array, capacity, tail)
       \/ MustGrow /\ Store(x, GrownArray, 2 * capacity, GrownTail)

\* realloc failed: the queue is left as it was (and the answer is still TRUE).
EnqueueFails == MustGrow /\ size < MaxSize /\ UNCHANGED vars

\* Queue_Dequeue, and Queue_Discard, which then frees the object.
Dequeue ==
    /\ got' = IF size > 0 THEN array[head] ELSE NULL
    /\ IF size > 0
       THEN /\ array' = [array EXCEPT ![head] = NULL]
            /\ head' = (head + 1) % capacity /\ size' = size - 1
       ELSE UNCHANGED <<array, head, size>>
    /\ event' = (event /\ size' >= 1)
    /\ UNCHANGED <<tail, capacity>>

Peek ==
    /\ got' = IF size > 0 THEN array[head] ELSE NULL
    /\ UNCHANGED ring

\* Queue_Clear frees from the head to the tail.
Clear ==
    /\ array' = [i \in 0 .. capacity - 1 |->
                    IF \/ head <= i /\ (i < tail \/ tail < head)
                       \/ i < tail /\ tail < head
                    THEN NULL ELSE array[i]]
    /\ head' = 0 /\ tail' = 0 /\ size' = 0 /\ event' = FALSE
    /\ UNCHANGED <<capacity, got>>

-----------------------------------------------------------------------------
Next ==
    \/ \E x \in Item : Enqueue(x)
    \/ EnqueueFails \/ Dequeue \/ Peek \/ Clear

Spec == Init /\ [][Next]_vars

-----------------------------------------------------------------------------
(***************************************************************************)
(* Properties.                                                             *)
(***************************************************************************)

\* Types; and the shape of the ring: it is never quite full, the tail is
\* size slots behind the head, and the event tells whether it is empty.
QueueTypeOK ==
    /\ capacity \in Nat /\ capacity >= 2 /\ size \in 0 .. capacity - 1
    /\ head \in 0 .. capacity - 1 /\ tail \in 0 .. capacity - 1
    /\ array \in [0 .. capacity - 1 -> Item \cup {NULL}]
    /\ got \in Item \cup {NULL} /\ event \in BOOLEAN
    /\ tail = (head + size) % capacity
    /\ event <=> size > 0

Contents == [k \in 1 .. size |-> array[(head + k - 1) % capacity]]

\* A reader of the abstract queue: whoever called.  No object closes this
\* queue: NULL, which is none, stands for the one that would.
Fifo == INSTANCE MessageFifo WITH
    Message <- Item, Quit <- NULL, Nothing <- NULL, Reader <- {"caller"},
    contents <- Contents, shut <- FALSE, ready <- event,
    got <- [r \in {"caller"} |-> got]

\* The ring is a queue: wrapping, growing in the middle of a wrap and
\* clearing neither lose, duplicate nor reorder an object, and its event is
\* set exactly while there is one.
IsFifo == Fifo!Spec
=============================================================================
