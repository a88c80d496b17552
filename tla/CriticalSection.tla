-------------------------- MODULE CriticalSection --------------------------
(***************************************************************************)
(* The critical section of WinPR (winpr/libwinpr/synch/critical.c), on     *)
(* which the queues, lists and tables of the server rest: a counter that   *)
(* is changed atomically, a semaphore, and two plain fields, the owner and *)
(* its recursion, which are read and written without protection of their   *)
(* own.  Every access to memory is a step.                                 *)
(***************************************************************************)
EXTENDS Integers, FiniteSets

CONSTANTS
    Thread,    \* the threads
    Nobody,    \* NULL as OwningThread
    MaxSpin,   \* bound: the largest SpinCount
    MaxDepth   \* bound: how often a thread enters before it leaves

\* What is assumed of the constants.
CriticalSectionAssumption ==
    /\ Nobody \notin Thread /\ IsFiniteSet(Thread)
    /\ MaxSpin \in Nat /\ MaxDepth \in Nat \ {0}

VARIABLES
    lockCount, \* LockCount
    recursion, \* RecursionCount
    owner,     \* OwningThread
    sem,       \* the value of LockSemaphore
    spinCount, \* SpinCount
    pc,        \* where each thread is in the code
    trying,    \* it was called as TryEnterCriticalSection
    spins,     \* its local SpinCount
    depth      \* how often each thread has entered and not left

section == <<lockCount, recursion, owner, sem>>
sectionVars == <<section, spinCount, pc, trying, spins, depth>>

\* InitializeCriticalSectionEx.
SectionInit ==
    /\ lockCount = -1 /\ recursion = 0 /\ owner = Nobody /\ sem = 0
    /\ spinCount \in 0 .. MaxSpin
    /\ pc = [t \in Thread |-> "out"] /\ trying = [t \in Thread |-> FALSE]
    /\ spins = [t \in Thread |-> 0] /\ depth = [t \in Thread |-> 0]

Goes(t, from, to) == pc[t] = from /\ pc' = [pc EXCEPT ![t] = to]

\* SetCriticalSectionSpinCount, at any time.
SetSpinCount(n) ==
    /\ spinCount' = n
    /\ UNCHANGED <<section, pc, trying, spins, depth>>

\* A call returns with the section entered.
Entered(t, from) == Goes(t, from, "out") /\ depth' = [depth EXCEPT ![t] = @ + 1]

-----------------------------------------------------------------------------
(***************************************************************************)
(* EnterCriticalSection and TryEnterCriticalSection.                       *)
(***************************************************************************)
Enter(t) ==
    /\ depth[t] < MaxDepth /\ Goes(t, "out", IF spinCount > 0 THEN "try" ELSE "count")
    /\ trying' = [trying EXCEPT ![t] = FALSE]
    /\ spins' = [spins EXCEPT ![t] = spinCount]
    /\ UNCHANGED <<section, depth>>
TryEnter(t) ==
    /\ depth[t] < MaxDepth /\ Goes(t, "out", "try")
    /\ trying' = [trying EXCEPT ![t] = TRUE]
    /\ UNCHANGED <<section, spins, depth>>

\* InterlockedCompareExchange(&LockCount, 0, -1).
TryTakes(t) ==
    /\ lockCount = -1 /\ lockCount' = 0 /\ Goes(t, "try", "own")
    /\ UNCHANGED <<recursion, owner, sem, trying, spins, depth>>
TryTaken(t) ==
    /\ lockCount # -1 /\ Goes(t, "try", "tryOwner")
    /\ UNCHANGED <<section, trying, spins, depth>>

\* The owner enters once more.
TryRecursion(t) ==
    /\ owner = t /\ recursion' = recursion + 1 /\ Goes(t, "tryOwner", "tryCount")
    /\ UNCHANGED <<lockCount, owner, sem, trying, spins, depth>>
TryCount(t) ==
    /\ lockCount' = lockCount + 1 /\ Entered(t, "tryCount")
    /\ UNCHANGED <<recursion, owner, sem, trying, spins>>
TryFails(t) ==
    /\ owner # t /\ Goes(t, "tryOwner", IF trying[t] THEN "out" ELSE "spin")
    /\ UNCHANGED <<section, trying, spins, depth>>

\* The section is tried SpinCount times while nobody waits for it.
Spin(t) ==
    /\ Goes(t, "spin", IF spins[t] > 0 /\ lockCount < 1 THEN "spinTry" ELSE "count")
    /\ spins' = [spins EXCEPT ![t] = IF @ > 0 THEN @ - 1 ELSE @]
    /\ UNCHANGED <<section, trying, depth>>
SpinTakesUnchecked(t) ==
    /\ lockCount' = 0 /\ Goes(t, "spinTry", "own")
    /\ UNCHANGED <<recursion, owner, sem, trying, spins, depth>>
SpinTakes(t) ==
    /\ lockCount = -1 /\ lockCount' = 0 /\ Goes(t, "spinTry", "own")
    /\ UNCHANGED <<recursion, owner, sem, trying, spins, depth>>
SpinTaken(t) ==
    /\ lockCount # -1 /\ Goes(t, "spinTry", "spin")
    /\ UNCHANGED <<section, trying, spins, depth>>

\* InterlockedIncrement(&LockCount); whoever did not find the section free
\* is its owner or has to wait.
Count(t) ==
    /\ lockCount' = lockCount + 1
    /\ Goes(t, "count", IF lockCount' # 0 THEN "check" ELSE "own")
    /\ UNCHANGED <<recursion, owner, sem, trying, spins, depth>>
Recursion(t) ==
    /\ owner = t /\ recursion' = recursion + 1 /\ Entered(t, "check")
    /\ UNCHANGED <<lockCount, owner, sem, trying, spins>>
MustWait(t) ==
    /\ owner # t /\ Goes(t, "check", "wait")
    /\ UNCHANGED <<section, trying, spins, depth>>
Wait(t) ==
    /\ sem > 0 /\ sem' = sem - 1 /\ Goes(t, "wait", "own")
    /\ UNCHANGED <<lockCount, recursion, owner, trying, spins, depth>>

\* "We got the lock. Own it ..."
Own(t) ==
    /\ recursion' = 1 /\ Goes(t, "own", "ownThread")
    /\ UNCHANGED <<lockCount, owner, sem, trying, spins, depth>>
OwnThread(t) ==
    /\ owner' = t /\ Entered(t, "ownThread")
    /\ UNCHANGED <<lockCount, recursion, sem, trying, spins>>

-----------------------------------------------------------------------------
(***************************************************************************)
(* LeaveCriticalSection, by a thread that has entered.                     *)
(***************************************************************************)
LeaveUnlocks(t) ==
    /\ depth[t] > 0 /\ depth' = [depth EXCEPT ![t] = @ - 1]
    /\ recursion' = recursion - 1 /\ Goes(t, "out", "clear")
    /\ UNCHANGED <<lockCount, owner, sem, trying, spins>>
Leave(t) ==
    /\ depth[t] > 0 /\ depth' = [depth EXCEPT ![t] = @ - 1]
    /\ recursion' = recursion - 1
    /\ Goes(t, "out", IF recursion' < 1 THEN "clear" ELSE "uncount")
    /\ UNCHANGED <<lockCount, owner, sem, trying, spins>>
Uncount(t) ==
    /\ lockCount' = lockCount - 1 /\ Goes(t, "uncount", "out")
    /\ UNCHANGED <<recursion, owner, sem, trying, spins, depth>>
ClearOwner(t) ==
    /\ owner' = Nobody /\ Goes(t, "clear", "unlock")
    /\ UNCHANGED <<lockCount, recursion, sem, trying, spins, depth>>

\* Who waits has counted itself: the semaphore is posted for one of them.
UnlockLate(t) ==
    /\ lockCount' = lockCount - 1
    /\ Goes(t, "unlock", IF lockCount' > 0 THEN "post" ELSE "out")
    /\ UNCHANGED <<recursion, owner, sem, trying, spins, depth>>
Unlock(t) ==
    /\ lockCount' = lockCount - 1
    /\ Goes(t, "unlock", IF lockCount' >= 0 THEN "post" ELSE "out")
    /\ UNCHANGED <<recursion, owner, sem, trying, spins, depth>>
Post(t) ==
    /\ sem' = sem + 1 /\ Goes(t, "post", "out")
    /\ UNCHANGED <<lockCount, recursion, owner, trying, spins, depth>>

-----------------------------------------------------------------------------
Inside(t) ==
    \/ TryTakes(t) \/ TryTaken(t) \/ TryRecursion(t) \/ TryCount(t) \/ TryFails(t)
    \/ Spin(t) \/ SpinTakes(t) \/ SpinTaken(t)
    \/ Count(t) \/ Recursion(t) \/ MustWait(t) \/ Wait(t) \/ Own(t) \/ OwnThread(t)
    \/ Uncount(t) \/ ClearOwner(t) \/ Unlock(t) \/ Post(t)

SectionNext ==
    \/ \E n \in 0 .. MaxSpin : SetSpinCount(n)
    \/ \E t \in Thread : /\ Enter(t) \/ TryEnter(t) \/ Leave(t) \/ Inside(t)
                         /\ UNCHANGED spinCount

SectionSpec == SectionInit /\ [][SectionNext]_sectionVars

\* A thread goes on once it is in the code; none need enter.
FairSectionSpec == SectionSpec /\ \A t \in Thread : WF_sectionVars(Inside(t) /\ UNCHANGED spinCount)

-----------------------------------------------------------------------------
(***************************************************************************)
(* Properties.                                                             *)
(***************************************************************************)
Pcs == {"out", "try", "tryOwner", "tryCount", "spin", "spinTry", "count", "check",
        "wait", "own", "ownThread", "clear", "unlock", "uncount", "post"}

\* Types; the semaphore is posted for one thread at a time.
SectionTypeOK ==
    /\ lockCount \in Int /\ recursion \in 0 .. MaxDepth /\ sem \in 0 .. 1
    /\ spinCount \in 0 .. MaxSpin
    /\ owner \in Thread \cup {Nobody}
    /\ pc \in [Thread -> Pcs] /\ trying \in [Thread -> BOOLEAN]
    /\ spins \in [Thread -> 0 .. MaxSpin] /\ depth \in [Thread -> 0 .. MaxDepth]

\* The threads that have the section: those that have entered it, and those
\* that have got the lock or not yet given it up.
Has(t) == depth[t] > 0 \/ pc[t] \in {"own", "ownThread", "tryCount", "clear", "unlock"}

\* One thread at a time.
MutualExclusion == \A t, u \in Thread : (Has(t) /\ Has(u)) => t = u

\* The thread that holds the lock, and how often: a thread holds it while it
\* has it, less the call that is about to leave it.
HolderSet == {t \in Thread : depth[t] > 0}
Holder == IF HolderSet = {} THEN Nobody ELSE CHOOSE t \in HolderSet : TRUE
Times == IF HolderSet = {} THEN 0 ELSE depth[Holder]

\* "The LockCount field indicates the number of times that any thread has
\* called the EnterCriticalSection routine for this critical section, minus
\* one", and the RecursionCount field how often the owning thread has: true
\* whenever no thread is in the middle of a call, but for those that wait.
CountsAreRight ==
    (\A t \in Thread : pc[t] \in {"out", "wait"}) =>
        LET waiting == {t \in Thread : pc[t] = "wait"}
        IN  /\ lockCount = Times + Cardinality(waiting) - 1
            /\ recursion = Times
            /\ \A t \in Thread : (depth[t] > 0) => owner = t
            /\ (Times = 0) => (waiting = {} \/ sem = 1)

\* The same in every state, in the middle of calls too.  A thread that waits,
\* gets the lock or gives it up has not entered; one that enters has room to;
PlacesOK ==
    \A t \in Thread :
        /\ pc[t] \in {"wait", "own", "ownThread", "clear", "unlock", "post"} => depth[t] = 0
        /\ pc[t] \in {"tryCount", "uncount"} => depth[t] > 0
        /\ pc[t] \in {"try", "tryOwner", "tryCount", "spin", "spinTry", "count", "check"}
            => depth[t] < MaxDepth

\* the plain fields are those of the thread that has entered;
FieldsOK ==
    /\ \A t \in Thread : owner = t <=> (depth[t] > 0 \/ pc[t] = "clear")
    /\ \A t \in Thread : depth[t] > 0 =>
            recursion = depth[t] + (IF pc[t] = "tryCount" THEN 1 ELSE 0)
    /\ \A t \in Thread : pc[t] = "ownThread" => recursion = 1
    /\ (\A t \in Thread : depth[t] = 0 /\ pc[t] # "ownThread") => recursion = 0

\* the lock is with one thread, which has it or is about to post it, or is in
\* the semaphore, and the counter tells whether it is free;
Bears(t) == Has(t) \/ pc[t] = "post"
TokenOK ==
    /\ \A t, u \in Thread : (Bears(t) /\ Bears(u)) => t = u
    /\ (sem = 1) => \A t \in Thread : ~Bears(t)
    /\ (lockCount >= 0) <=> (sem = 1 \/ \E t \in Thread : Bears(t))

\* and it counts what has been entered and the calls that are under way.
CountedPcs == {"check", "wait", "own", "ownThread", "clear", "unlock", "uncount"}
Counting == {t \in Thread : pc[t] \in CountedPcs}
LockCountOK == lockCount + 1 = Times + Cardinality(Counting)

SectionIndInv == SectionTypeOK /\ PlacesOK /\ FieldsOK /\ TokenOK /\ LockCountOK

Lock == INSTANCE RecursiveLock WITH holder <- Holder, times <- Times

\* Counter, semaphore and plain fields together are a lock: a thread that
\* has entered is alone until it has left as often.
IsRecursiveLock == Lock!Spec

\* Who waits is not forgotten: unless a thread keeps the section for good it
\* goes on to one of those waiting.
WaiterIsWoken ==
    (\A t \in Thread : []<>(depth[t] = 0)) =>
        ((\E t \in Thread : pc[t] = "wait") ~> (\E t \in Thread : pc[t] = "own"))

\* Mutual exclusion, and the counts of critical.c between the calls and in
\* the middle of them.
SectionInv == SectionIndInv /\ MutualExclusion /\ CountsAreRight
=============================================================================
