------------------------------ MODULE InitOnce ------------------------------
(***************************************************************************)
(* One-time initialisation in WinPR (winpr/libwinpr/synch/init.c), which   *)
(* guards the tables of threads, SSPI, smart cards and time zones.         *)
(***************************************************************************)
EXTENDS Naturals, FiniteSets

CONSTANTS
    Thread,
    MaxFailures  \* bound: how often the init function returns an error

\* What is assumed of the constants.
InitOnceAssumption == IsFiniteSet(Thread) /\ MaxFailures \in Nat

VARIABLES
    ptr,      \* InitOnce->Ptr: 0, 1 in progress, 2 completed
    pc,       \* where each thread is in InitOnceExecuteOnce
    result,   \* what its last call returned
    runs,     \* how often the init function has succeeded
    failures  \* how often it has failed

vars == <<ptr, pc, result, runs, failures>>

Init ==
    /\ ptr = 0 /\ runs = 0 /\ failures = 0
    /\ pc = [t \in Thread |-> "out"] /\ result = [t \in Thread |-> "none"]

Goes(t, from, to) == pc[t] = from /\ pc' = [pc EXCEPT ![t] = to]
Returns(t, from, r) == Goes(t, from, "out") /\ result' = [result EXCEPT ![t] = r]

\* InitOnceExecuteOnce: the state decides; in progress, it sleeps and looks
\* again.
Call(t) ==
    /\ result[t] # "TRUE" /\ Goes(t, "out", "look")
    /\ UNCHANGED <<ptr, result, runs, failures>>
Completed(t) ==
    /\ ptr = 2 /\ Returns(t, "look", "TRUE") /\ UNCHANGED <<ptr, runs, failures>>
FirstTime(t) ==
    /\ ptr = 0 /\ Goes(t, "look", "exchange") /\ UNCHANGED <<ptr, result, runs, failures>>
InProgressReturns(t) ==
    /\ ptr = 1 /\ Returns(t, "look", "TRUE") /\ UNCHANGED <<ptr, runs, failures>>
InProgress(t) ==
    /\ ptr = 1 /\ pc[t] = "look" /\ UNCHANGED vars

\* InterlockedCompareExchangePointer: some other thread may have been faster.
Exchange(t) ==
    /\ ptr = 0 /\ ptr' = 1 /\ Goes(t, "exchange", "init")
    /\ UNCHANGED <<result, runs, failures>>
Slower(t) ==
    /\ ptr # 0 /\ Goes(t, "exchange", "look") /\ UNCHANGED <<ptr, result, runs, failures>>

\* The init function, then the outcome for the others.
Succeeds(t) ==
    /\ Goes(t, "init", "succeeded") /\ runs' = runs + 1
    /\ UNCHANGED <<ptr, result, failures>>
Complete(t) ==
    /\ ptr' = 2 /\ Returns(t, "succeeded", "TRUE") /\ UNCHANGED <<runs, failures>>
Fails(t) ==
    /\ failures < MaxFailures /\ failures' = failures + 1
    /\ Goes(t, "init", "failed") /\ UNCHANGED <<ptr, result, runs>>
Reset(t) ==
    /\ ptr' = 0 /\ Returns(t, "failed", "FALSE") /\ UNCHANGED <<runs, failures>>

Inside(t) ==
    \/ Completed(t) \/ FirstTime(t) \/ InProgress(t) \/ Exchange(t) \/ Slower(t)
    \/ Succeeds(t) \/ Complete(t) \/ Fails(t) \/ Reset(t)
Done == (\A t \in Thread : result[t] = "TRUE") /\ UNCHANGED vars
Next == (\E t \in Thread : Call(t) \/ Inside(t)) \/ Done

Spec == Init /\ [][Next]_vars

\* A thread in the call goes on; one that was told FALSE may leave it at that.
FairSpec == Spec /\ \A t \in Thread : WF_vars(Inside(t))

-----------------------------------------------------------------------------
(***************************************************************************)
(* Properties.                                                             *)
(***************************************************************************)

\* Types.
InitOnceTypeOK ==
    /\ ptr \in 0 .. 2 /\ failures \in 0 .. MaxFailures /\ runs \in Nat
    /\ pc \in [Thread -> {"out", "look", "exchange", "init", "succeeded", "failed"}]
    /\ result \in [Thread -> {"none", "TRUE", "FALSE"}]

\* The init function succeeds once, and nobody is told TRUE before it has.
InitialisedOnce ==
    /\ runs <= 1
    /\ \A t \in Thread : result[t] = "TRUE" => (runs = 1 /\ ptr = 2)

\* Every call returns, also when the thread that was first has failed.
CallReturns == \A t \in Thread : (pc[t] = "look") ~> (pc[t] = "out")

\* One thread is between the exchange and the outcome exactly while the state
\* is "in progress", and the function has succeeded when that thread has seen
\* it or the state says so.
Runs(t) == pc[t] \in {"init", "succeeded", "failed"}
ProgressOK ==
    /\ \A t, u \in Thread : (Runs(t) /\ Runs(u)) => t = u
    /\ (ptr = 1) <=> \E t \in Thread : Runs(t)
    /\ runs = IF ptr = 2 \/ \E t \in Thread : pc[t] = "succeeded" THEN 1 ELSE 0

\* Types, and the init function succeeds once before anybody is told so.
OnceInv == InitOnceTypeOK /\ InitialisedOnce /\ ProgressOK
=============================================================================
