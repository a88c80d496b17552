----------------------------- MODULE ThreadPool -----------------------------
(***************************************************************************)
(* The thread pool of WinPR: winpr/libwinpr/pool/pool.c and work.c, with   *)
(* the countdown event that waiters wait for (utils/collections/           *)
(* CountdownEvent.c) and the queue of pending callbacks (Queue.c). The     *)
(* codecs hand over a callback per tile and wait for all of them before    *)
(* they free what the callbacks work on (rfx.c, progressive.c, yuv.c).     *)
(*                                                                         *)
(*   callers   submit work and wait for it; all of them share the pool     *)
(*   workers   the threads of the pool                                     *)
(*   owner     the thread that changes the number of workers and closes    *)
(*             the pool; only this one takes the lock of pool->Threads     *)
(*                                                                         *)
(* The queue and the countdown event have a lock each, so that each call   *)
(* on one of them is a step; the events are manual-reset.                  *)
(***************************************************************************)
EXTENDS Integers, Sequences, FiniteSets

CONSTANTS
    Caller,
    Worker,    \* identities of threads that the pool may create
    Sizes,     \* the numbers of threads that the owner asks for
    None,
    MaxBatch,  \* bound: callbacks that a caller submits before it waits
    MaxLost,   \* bound: callbacks that the queue fails to take
    ThreadMayFail \* CreateThread may fail

ASSUME ThreadPoolAssumption ==
    /\ IsFiniteSet(Caller) /\ IsFiniteSet(Worker)
    /\ Sizes \subseteq 1..Cardinality(Worker) /\ Sizes # {}
    /\ MaxBatch \in Nat /\ MaxLost \in Nat
    /\ ThreadMayFail \in BOOLEAN
    /\ None \notin Caller

VARIABLES
    caller,     \* "free", "counted" inside SubmitThreadpoolWork, "wait"
    submitted,  \* callbacks each caller has submitted since it waited
    pending,    \* pool->PendingQueue: the owner of each callback
    queueEvent, \* the event of the queue
    count,      \* WorkComplete->count
    complete,   \* WorkComplete->event
    worker,     \* where each thread is
    current,    \* the callback it has dequeued
    owner,      \* where the owner is
    threads,    \* pool->Threads
    minimum,    \* pool->Minimum
    terminate,  \* TerminateEvent
    lost        \* callbacks that were counted but are in no queue

callerVars == <<caller, submitted>>
queueVars == <<pending, queueEvent>>
countVars == <<count, complete>>
workerVars == <<worker, current>>
ownerVars == <<owner, threads, minimum, terminate>>
poolVars == <<callerVars, queueVars, countVars, workerVars, ownerVars, lost>>

-----------------------------------------------------------------------------

(* InitializeThreadpool, up to SetThreadpoolThreadMinimum. *)
Init ==
    /\ caller = [c \in Caller |-> "free"]
    /\ submitted = [c \in Caller |-> 0]
    /\ pending = <<>> /\ queueEvent = FALSE
    /\ count = 0 /\ complete = TRUE
    /\ worker = [w \in Worker |-> "none"]
    /\ current = [w \in Worker |-> None]
    /\ owner = "minimum"
    /\ threads = {}
    /\ minimum \in Sizes
    /\ terminate = FALSE
    /\ lost = 0

-----------------------------------------------------------------------------
(* Callers.                                                                *)

(* Mutant of AddCount: the event is left as it is. *)
AddCountOnly(c) ==
    /\ owner \notin {"closing", "closed"}
    /\ caller[c] = "free" /\ submitted[c] < MaxBatch
    /\ caller' = [caller EXCEPT ![c] = "counted"]
    /\ count' = count + 1
    /\ UNCHANGED <<submitted, queueVars, complete, workerVars, ownerVars, lost>>

(* SubmitThreadpoolWork: CountdownEvent_AddCount resets the event with the *)
(* first signal that is owed,                                              *)
AddCount(c) ==
    /\ owner \notin {"closing", "closed"}
    /\ caller[c] = "free" /\ submitted[c] < MaxBatch
    /\ caller' = [caller EXCEPT ![c] = "counted"]
    /\ count' = count + 1
    /\ complete' = (complete /\ count # 0)
    /\ UNCHANGED <<submitted, queueVars, workerVars, ownerVars, lost>>

(* and Queue_Enqueue sets its event with the first entry. *)
Enqueue(c) ==
    /\ caller[c] = "counted"
    /\ pending' = Append(pending, c)
    /\ queueEvent' = (queueEvent \/ pending = <<>>)
    /\ caller' = [caller EXCEPT ![c] = "free"]
    /\ submitted' = [submitted EXCEPT ![c] = @ + 1]
    /\ UNCHANGED <<countVars, workerVars, ownerVars, lost>>

(* Queue_EnsureCapacity fails. Queue_Enqueue returns TRUE all the same, so *)
(* that nothing is undone.                                                 *)
EnqueueLost(c) ==
    /\ caller[c] = "counted" /\ lost < MaxLost
    /\ lost' = lost + 1
    /\ caller' = [caller EXCEPT ![c] = "free"]
    /\ submitted' = [submitted EXCEPT ![c] = @ + 1]
    /\ UNCHANGED <<queueVars, countVars, workerVars, ownerVars>>

(* There is no memory for the callback instance: nothing is submitted, and *)
(* the caller does not learn of it.                                        *)
SubmitFails(c) ==
    /\ owner \notin {"closing", "closed"}
    /\ caller[c] = "free" /\ submitted[c] < MaxBatch
    /\ submitted' = [submitted EXCEPT ![c] = @ + 1]
    /\ UNCHANGED <<caller, queueVars, countVars, workerVars, ownerVars, lost>>

(* WaitForThreadpoolWorkCallbacks waits for the callbacks of everybody. *)
WaitForCallbacks(c) ==
    /\ caller[c] = "free" /\ submitted[c] > 0
    /\ caller' = [caller EXCEPT ![c] = "wait"]
    /\ UNCHANGED <<submitted, queueVars, countVars, workerVars, ownerVars, lost>>

(* The caller closes its work objects, which frees them. *)
WaitReturns(c) ==
    /\ caller[c] = "wait" /\ complete
    /\ caller' = [caller EXCEPT ![c] = "free"]
    /\ submitted' = [submitted EXCEPT ![c] = 0]
    /\ UNCHANGED <<queueVars, countVars, workerVars, ownerVars, lost>>

-----------------------------------------------------------------------------
(* Workers: thread_pool_work_func.                                         *)

(* WaitForMultipleObjects returns the first of its events that is set. *)
WorkerExits(w) ==
    /\ worker[w] = "wait" /\ terminate
    /\ worker' = [worker EXCEPT ![w] = "exit"]
    /\ UNCHANGED <<callerVars, queueVars, countVars, current, ownerVars, lost>>

WorkerWakes(w) ==
    /\ worker[w] = "wait" /\ ~terminate /\ queueEvent
    /\ worker' = [worker EXCEPT ![w] = "woken"]
    /\ UNCHANGED <<callerVars, queueVars, countVars, current, ownerVars, lost>>

(* Another worker may have been faster. *)
Dequeue(w) ==
    /\ worker[w] = "woken"
    /\ IF pending = <<>>
       THEN /\ queueEvent' = FALSE
            /\ worker' = [worker EXCEPT ![w] = "wait"]
            /\ UNCHANGED <<pending, current>>
       ELSE /\ pending' = Tail(pending)
            /\ queueEvent' = (queueEvent /\ pending' # <<>>)
            /\ current' = [current EXCEPT ![w] = Head(pending)]
            /\ worker' = [worker EXCEPT ![w] = "run"]
    /\ UNCHANGED <<callerVars, countVars, ownerVars, lost>>

CallbackReturns(w) ==
    /\ worker[w] = "run"
    /\ worker' = [worker EXCEPT ![w] = "signal"]
    /\ current' = [current EXCEPT ![w] = None]
    /\ UNCHANGED <<callerVars, queueVars, countVars, ownerVars, lost>>

(* Mutant of Signal: the event is not set. *)
SignalSilently(w) ==
    /\ worker[w] = "signal"
    /\ count' = IF 1 <= count THEN count - 1 ELSE 0
    /\ worker' = [worker EXCEPT ![w] = "wait"]
    /\ UNCHANGED <<callerVars, queueVars, complete, current, ownerVars, lost>>

(* CountdownEvent_Signal sets the event with the last signal. *)
Signal(w) ==
    /\ worker[w] = "signal"
    /\ count' = IF 1 <= count THEN count - 1 ELSE 0
    /\ complete' = (complete \/ count' = 0)
    /\ worker' = [worker EXCEPT ![w] = "wait"]
    /\ UNCHANGED <<callerVars, queueVars, current, ownerVars, lost>>

-----------------------------------------------------------------------------
(* The owner.                                                              *)

(* SetThreadpoolThreadMinimum creates threads until there are enough. If   *)
(* one cannot be created there are fewer, which                            *)
(* SetThreadpoolThreadMaximum does not notice.                             *)
CreateThreads ==
    /\ owner = "minimum"
    /\ \E new \in SUBSET (Worker \ threads) :
        LET missing == minimum - Cardinality(threads) IN
        /\ \/ Cardinality(new) = (IF missing > 0 THEN missing ELSE 0)
           \/ ThreadMayFail /\ Cardinality(new) < missing
        /\ threads' = threads \cup new
        /\ worker' = [w \in Worker |-> IF w \in new THEN "wait" ELSE worker[w]]
    /\ owner' = "free"
    /\ UNCHANGED <<callerVars, queueVars, countVars, current, minimum, terminate, lost>>

SetMinimum(n) ==
    /\ owner = "free"
    /\ minimum' = n
    /\ owner' = "minimum"
    /\ UNCHANGED <<callerVars, queueVars, countVars, workerVars, threads, terminate, lost>>

(* SetThreadpoolThreadMaximum: when there are too many threads all of them *)
(* are told to end.                                                        *)
SetMaximum(n) ==
    /\ owner = "free"
    /\ IF Cardinality(threads) > n
       THEN terminate' = TRUE /\ owner' = "join"
       ELSE owner' = "minimum" /\ UNCHANGED terminate
    /\ UNCHANGED <<callerVars, queueVars, countVars, workerVars, threads, minimum, lost>>

(* Mutant of JoinThreads: the event stays set. *)
JoinThreadsNoReset ==
    /\ owner = "join"
    /\ \A w \in threads : worker[w] = "exit"
    /\ threads' = {}
    /\ worker' = [w \in Worker |-> "none"]
    /\ owner' = "minimum"
    /\ UNCHANGED <<callerVars, queueVars, countVars, current, minimum, terminate, lost>>

(* ArrayList_Clear joins each of them (threads_close). The number that was *)
(* asked for last is created again.                                        *)
JoinThreads ==
    /\ owner = "join"
    /\ \A w \in threads : worker[w] = "exit"
    /\ threads' = {}
    /\ worker' = [w \in Worker |-> "none"]
    /\ terminate' = FALSE
    /\ owner' = "minimum"
    /\ UNCHANGED <<callerVars, queueVars, countVars, current, minimum, lost>>

(* CloseThreadpool, once nobody uses the pool: the workers are joined, the *)
(* queue and the countdown event freed.                                    *)
Close ==
    /\ owner = "free"
    /\ \A c \in Caller : caller[c] = "free" /\ submitted[c] = 0
    /\ terminate' = TRUE
    /\ owner' = "closing"
    /\ UNCHANGED <<callerVars, queueVars, countVars, workerVars, threads, minimum, lost>>

CloseEnds ==
    /\ owner = "closing"
    /\ \A w \in threads : worker[w] = "exit"
    /\ threads' = {}
    /\ worker' = [w \in Worker |-> "none"]
    /\ owner' = "closed"
    /\ UNCHANGED <<callerVars, queueVars, countVars, current, minimum, terminate, lost>>

-----------------------------------------------------------------------------

CallerSteps(c) ==
    \/ AddCount(c) \/ Enqueue(c) \/ EnqueueLost(c) \/ SubmitFails(c)
    \/ WaitForCallbacks(c) \/ WaitReturns(c)

WorkerSteps(w) ==
    \/ WorkerExits(w) \/ WorkerWakes(w) \/ Dequeue(w)
    \/ CallbackReturns(w) \/ Signal(w)

OwnerSteps ==
    \/ CreateThreads \/ JoinThreads \/ Close \/ CloseEnds
    \/ \E n \in Sizes : SetMinimum(n) \/ SetMaximum(n)

Next ==
    \/ \E c \in Caller : CallerSteps(c)
    \/ \E w \in Worker : WorkerSteps(w)
    \/ OwnerSteps

Spec == Init /\ [][Next]_poolVars

(* Every thread that can run does, and callbacks return. An owner that has *)
(* called a function gets through it; that it calls one again, or that a   *)
(* caller submits, is not required.                                        *)
Fairness ==
    /\ \A w \in Worker : WF_poolVars(WorkerSteps(w))
    /\ \A c \in Caller : WF_poolVars(Enqueue(c)) /\ WF_poolVars(WaitReturns(c))
    /\ WF_poolVars(CreateThreads) /\ WF_poolVars(JoinThreads) /\ WF_poolVars(CloseEnds)

FairSpec == Spec /\ Fairness

-----------------------------------------------------------------------------
(* Properties.                                                             *)

InPending(c) == {i \in DOMAIN pending : pending[i] = c}
RunFor(c) == {w \in Worker : current[w] = c}
Signalling == {w \in Worker : worker[w] \in {"run", "signal"}}
Counted == {c \in Caller : caller[c] = "counted"}

(* A caller that has counted a callback has room for it in its batch. *)
CallersOK ==
    /\ caller \in [Caller -> {"free", "counted", "wait"}]
    /\ submitted \in [Caller -> 0..MaxBatch]
    /\ \A c \in Caller : caller[c] = "counted" => submitted[c] < MaxBatch

QueueOK == pending \in Seq(Caller) /\ count \in Nat /\ lost \in 0..MaxLost

(* The list of threads holds every thread that is not joined, with a       *)
(* callback exactly while it runs one.                                     *)
WorkersOK ==
    /\ worker \in [Worker -> {"none", "wait", "woken", "run", "signal", "exit"}]
    /\ current \in [Worker -> Caller \cup {None}]
    /\ threads = {w \in Worker : worker[w] # "none"}
    /\ \A w \in Worker : worker[w] = "run" <=> current[w] # None

OwnerOK ==
    /\ owner \in {"free", "minimum", "join", "closing", "closed"}
    /\ minimum \in Sizes

FlagsOK == queueEvent \in BOOLEAN /\ complete \in BOOLEAN /\ terminate \in BOOLEAN

(* Types. *)
PoolTypeOK == CallersOK /\ QueueOK /\ WorkersOK /\ OwnerOK /\ FlagsOK

(* The countdown event counts every callback from before it is queued      *)
(* until after it has returned, whatever workers are ended and created in  *)
(* between, and is set exactly when there is none; the event of the queue  *)
(* wakes the workers exactly when there is something to dequeue. What the  *)
(* queue failed to take is counted for ever (Queue.c, work.c).             *)
CountOwed ==
    /\ count = Cardinality(Counted) + Len(pending) + Cardinality(Signalling) + lost
    /\ complete <=> count = 0
    /\ queueEvent <=> pending # <<>>

(* The callbacks of each caller that have not returned, and who waits. *)
Outstanding == [c \in Caller |->
    Cardinality(InPending(c)) + Cardinality(RunFor(c))
    + (IF caller[c] = "counted" THEN 1 ELSE 0)]
Waiting == {c \in Caller : caller[c] = "wait"}

Batches == INSTANCE WorkBatches WITH outstanding <- Outstanding, waiting <- Waiting

(* Callbacks of all callers share a count, and the threads can be replaced *)
(* at any time; still a wait returns only when no callback of that caller  *)
(* is queued or runs: the promise of WorkBatches.                          *)
IsWorkBatches == Batches!Spec

(* Once nobody submits and the owner leaves the pool alone every wait      *)
(* returns, however often the threads were replaced before: no callback is *)
(* left behind in the queue and no wake-up is missed, unless a callback    *)
(* was lost or not one thread could be created. (While others keep         *)
(* submitting a wait may go on for ever: the count is shared.)             *)
WaitsEnd ==
    <>[](owner = "free" /\ Counted = {} /\ lost = 0 /\ threads # {})
        => \A c \in Caller : caller[c] = "wait" ~> caller[c] = "free"

(* Types, and the count of outstanding work (SubmitThreadpoolWork, the loop*)
(* of thread_pool_work_func) is what is owed.                              *)
PoolInv == PoolTypeOK /\ CountOwed
=============================================================================
