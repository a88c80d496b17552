--------------------------- MODULE MessageQueue ---------------------------
(***************************************************************************)
(* The message queue of WinPR, a ring buffer that grows:                   *)
(* winpr/libwinpr/utils/collections/MessageQueue.c. The shadow server uses *)
(* one for the messages to each client and a pair of them (MsgPipe) for    *)
(* the subsystem.                                                          *)
(*                                                                         *)
(* Every function works under queue->lock and is one step, but for         *)
(* MessageQueue_Get, which waits for the event before it takes the lock.   *)
(***************************************************************************)
EXTENDS Naturals, Sequences

CONSTANTS
    Message,         \* the messages other than WMQ_QUIT
    Quit,            \* a message with the id WMQ_QUIT
    Nothing,         \* the contents of a zeroed slot; what a failed read gets
    Reader,          \* the threads that read
    InitialCapacity, \* 32 in MessageQueue_New
    MaxSize          \* bound: no message is sent to a queue of this size

(* A capacity of one would break the first growth of an empty queue, which *)
(* takes tail = head for a wrapped queue.                                  *)
ASSUME MessageQueueAssumption ==
    /\ InitialCapacity \in Nat /\ InitialCapacity >= 2
    /\ MaxSize \in Nat
    /\ Quit \notin Message /\ Nothing \notin Message /\ Nothing # Quit

VARIABLES head, tail, size, capacity, array, closed,
    event,  \* queue->event is set
    reader, \* where each reader is: "out", or "woken" in MessageQueue_Get
    got     \* the last message each reader got

queueVars == <<head, tail, size, capacity, array, closed, event>>
mqVars == <<queueVars, reader, got>>

AnyMessage == Message \cup {Quit}

-----------------------------------------------------------------------------

(* MessageQueue_New. *)
Init ==
    /\ head = 0 /\ tail = 0 /\ size = 0
    /\ capacity = InitialCapacity
    /\ array = [i \in 0..(InitialCapacity - 1) |-> Nothing]
    /\ closed = FALSE
    /\ event = FALSE
    /\ reader = [r \in Reader |-> "out"]
    /\ got = [r \in Reader |-> Nothing]

-----------------------------------------------------------------------------
(* MessageQueue_EnsureCapacity(queue, 1).                                  *)

(* Mutant of MustGrow: a queue grows when it is full. *)
MustGrowLate == size + 1 > capacity

MustGrow == size + 1 >= capacity

NewCapacity == IF 2 * capacity < size + 1 THEN size + 1 ELSE 2 * capacity

(* Mutant of Wrapped: the entries are never taken to be wrapped. *)
NotWrapped == FALSE

(* "rearrange wrapped entries": they are copied behind the old end. *)
Wrapped == tail <= head

GrownArray ==
    [i \in 0..(NewCapacity - 1) |->
        IF i < capacity THEN array[i]
        ELSE IF Wrapped /\ i - capacity < tail THEN array[i - capacity]
        ELSE Nothing]

GrownTail == IF Wrapped THEN tail + capacity ELSE tail

-----------------------------------------------------------------------------

(* MessageQueue_Dispatch, and MessageQueue_Post and _PostQuit, which call  *)
(* it, into an array arr of length cap with the free slot at.              *)
Enqueue(m, arr, cap, at) ==
    /\ ~closed
    /\ array' = [arr EXCEPT ![at] = m]
    /\ capacity' = cap
    /\ tail' = (at + 1) % cap
    /\ size' = size + 1
    /\ event' = TRUE
    /\ closed' = (m = Quit)
    /\ UNCHANGED <<head, reader, got>>

Dispatch(m) ==
    /\ ~MustGrow
    /\ Enqueue(m, array, capacity, tail)

DispatchGrowing(m) ==
    /\ MustGrow
    /\ Enqueue(m, GrownArray, NewCapacity, GrownTail)

(* The queue is closed, or realloc fails. *)
DispatchRefused ==
    /\ closed \/ MustGrow
    /\ UNCHANGED mqVars

(* The head is handed to r and its slot is zeroed. *)
Dequeue(r) ==
    /\ got' = [got EXCEPT ![r] = array[head]]
    /\ array' = [array EXCEPT ![head] = Nothing]
    /\ head' = (head + 1) % capacity
    /\ size' = size - 1
    /\ event' = (event /\ size' >= 1)
    /\ UNCHANGED <<tail, capacity, closed>>

(* MessageQueue_Peek. *)
PeekRemove(r) ==
    /\ reader[r] = "out"
    /\ size > 0
    /\ Dequeue(r)
    /\ UNCHANGED reader

Peek(r) ==
    /\ reader[r] = "out"
    /\ size > 0
    /\ got' = [got EXCEPT ![r] = array[head]]
    /\ UNCHANGED <<queueVars, reader>>

PeekEmpty(r) ==
    /\ reader[r] = "out"
    /\ size = 0
    /\ got' = [got EXCEPT ![r] = Nothing]
    /\ UNCHANGED <<queueVars, reader>>

(* MessageQueue_Get: MessageQueue_Wait, then the locked part, for which    *)
(* another reader may have left nothing.                                   *)
GetWakes(r) ==
    /\ reader[r] = "out"
    /\ event
    /\ reader' = [reader EXCEPT ![r] = "woken"]
    /\ UNCHANGED <<queueVars, got>>

Get(r) ==
    /\ reader[r] = "woken"
    /\ size > 0
    /\ Dequeue(r)
    /\ reader' = [reader EXCEPT ![r] = "out"]

GetFails(r) ==
    /\ reader[r] = "woken"
    /\ size = 0
    /\ reader' = [reader EXCEPT ![r] = "out"]
    /\ got' = [got EXCEPT ![r] = Nothing]
    /\ UNCHANGED queueVars

(* MessageQueue_Clear frees and zeroes the slots from the head on. *)
Clear ==
    /\ array' = [i \in 0..(capacity - 1) |->
                    IF \E k \in 0..(size - 1) : i = (head + k) % capacity
                    THEN Nothing ELSE array[i]]
    /\ head' = (head + size) % capacity
    /\ size' = 0
    /\ event' = FALSE
    /\ closed' = FALSE
    /\ UNCHANGED <<tail, capacity, reader, got>>

-----------------------------------------------------------------------------

ReaderNext(r) ==
    \/ PeekRemove(r) \/ Peek(r) \/ PeekEmpty(r)
    \/ GetWakes(r) \/ Get(r) \/ GetFails(r)

Next ==
    \/ \E m \in AnyMessage :
           size < MaxSize /\ (Dispatch(m) \/ DispatchGrowing(m))
    \/ DispatchRefused
    \/ \E r \in Reader : ReaderNext(r)
    \/ Clear

Spec == Init /\ [][Next]_mqVars

-----------------------------------------------------------------------------
(* Properties.                                                             *)

(* Types. *)
TypeOK ==
    /\ capacity \in Nat /\ capacity >= 2
    /\ head \in 0..(capacity - 1) /\ tail \in 0..(capacity - 1)
    /\ size \in Nat
    /\ array \in [0..(capacity - 1) -> AnyMessage \cup {Nothing}]
    /\ closed \in BOOLEAN /\ event \in BOOLEAN
    /\ reader \in [Reader -> {"out", "woken"}]
    /\ got \in [Reader -> AnyMessage \cup {Nothing}]

(* Slot k of a ring of c slots that starts at h. *)
Slot(h, c, k) == IF h + k < c THEN h + k ELSE h + k - c

(* The queue is never quite full, so that head = tail means that it is     *)
(* empty and growing finds exactly the wrapped queues wrapped; the tail is *)
(* size slots behind the head, over the end or not; no message in between  *)
(* is missing; and the event says that there is something to read ("set    *)
(* when the queue is non-empty").                                          *)
RingOK ==
    /\ size < capacity
    /\ tail = Slot(head, capacity, size)
    /\ \A k \in 0..(size - 1) : array[Slot(head, capacity, k)] \in AnyMessage
    /\ event <=> size > 0

(* The inductive invariant of MessageQueue.c. *)
IndInv == TypeOK /\ RingOK

Contents == [k \in 1..size |-> array[Slot(head, capacity, k - 1)]]

Fifo == INSTANCE MessageFifo WITH
    contents <- Contents, shut <- closed, ready <- event, got <- got

(* The ring buffer is a queue: wrapping, growing in the middle of a wrap,  *)
(* clearing and racing readers neither lose, duplicate nor reorder a       *)
(* message.                                                                *)
IsFifo == Fifo!Spec
=============================================================================
