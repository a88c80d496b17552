---------------------------- MODULE WinPRObjects ----------------------------
(***************************************************************************)
(* The objects of WinPR on which the server's threads meet: the message    *)
(* queue, the object queue, the critical section, the barrier and one-time *)
(* initialisation.  They share nothing, so that their joint behaviours are *)
(* those of each alone: the initial state chooses the one that is used,    *)
(* and the others stay as they were made.                                  *)
(***************************************************************************)
EXTENDS MessageQueue, CriticalSection

CONSTANTS MaxObjects, MaxRounds, MaxFailures

VARIABLES
    subject,                                             \* the object in use
    qHead, qTail, qSize, qCapacity, qArray, qEvent, qGot,
    remaining, current, dormant, set, deleted, barPc, flags, mine, entered,
    through, winners,
    ptr, oncePc, result, runs, failures

Queue == INSTANCE ObjectQueue WITH
    Item <- Message, NULL <- Nothing, MaxSize <- MaxObjects,
    head <- qHead, tail <- qTail, size <- qSize, capacity <- qCapacity,
    array <- qArray, event <- qEvent, got <- qGot
Barrier == INSTANCE SynchronizationBarrier WITH pc <- barPc
Once == INSTANCE InitOnce WITH pc <- oncePc

ASSUME WinPRAssumption ==
    /\ Queue!ObjectQueueAssumption /\ CriticalSectionAssumption
    /\ Barrier!BarrierAssumption /\ Once!InitOnceAssumption

objectVars == <<qHead, qTail, qSize, qCapacity, qArray, qEvent, qGot>>
barrierVars == <<remaining, current, dormant, set, deleted, barPc, flags, mine,
                 entered, through, winners>>
onceVars == <<ptr, oncePc, result, runs, failures>>
winprVars == <<subject, mqVars, objectVars, sectionVars, barrierVars, onceVars>>

WinPRInit ==
    /\ subject \in {"messages", "queue", "section", "barrier", "once"}
    /\ Init /\ Queue!Init /\ SectionInit /\ Barrier!Init /\ Once!Init
    /\ (subject # "section") => (spinCount = 0)

WinPRNext ==
    /\ UNCHANGED subject
    /\ \/ /\ subject = "messages" /\ Next
          /\ UNCHANGED <<objectVars, sectionVars, barrierVars, onceVars>>
       \/ /\ subject = "queue" /\ Queue!Next
          /\ UNCHANGED <<mqVars, sectionVars, barrierVars, onceVars>>
       \/ /\ subject = "section" /\ SectionNext
          /\ UNCHANGED <<mqVars, objectVars, barrierVars, onceVars>>
       \/ /\ subject = "barrier" /\ Barrier!Next
          /\ UNCHANGED <<mqVars, objectVars, sectionVars, onceVars>>
       \/ /\ subject = "once" /\ Once!Next
          /\ UNCHANGED <<mqVars, objectVars, sectionVars, barrierVars>>

\* With the fairness of each module.
WinPRSpec ==
    /\ WinPRInit /\ [][WinPRNext]_winprVars
    /\ \A t \in Thread :
           /\ WF_sectionVars(Inside(t) /\ UNCHANGED spinCount)
           /\ WF_barrierVars(subject = "barrier" /\ Barrier!Step(t))
           /\ WF_onceVars(Once!Inside(t))

-----------------------------------------------------------------------------
(***************************************************************************)
(* Properties.  Those of the message queue and of the critical section are *)
(* their modules'.                                                         *)
(***************************************************************************)

\* Wrapping, growing in the middle of a wrap and clearing neither lose,
\* duplicate nor reorder an object: the ring of Queue.c is a queue.
QueueIsFifo == Queue!IsFifo

\* Nobody returns from EnterSynchronizationBarrier in a round that somebody
\* has not entered, and one thread of every round is told TRUE (barrier.c).
BarrierInv == Barrier!BarrierInv

\* The rings of MessageQueue.c and Queue.c keep their shape while they wrap
\* and grow; and the init function of InitOnceExecuteOnce succeeds once, in
\* one thread at a time, and nobody is told TRUE before it has (init.c).
ObjectsInv == IndInv /\ Queue!QueueTypeOK /\ Once!OnceInv

\* Nobody waits for ever: LeaveCriticalSection does not forget a waiter, all
\* threads come through every round of the barrier, and every call of
\* InitOnceExecuteOnce returns, also when the thread that was first failed.
WaitersReturn ==
    /\ WaiterIsWoken
    /\ subject = "barrier" => Barrier!EverybodyPasses
    /\ Once!CallReturns
=============================================================================
