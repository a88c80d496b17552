--------------------------- MODULE RecursiveLock ---------------------------
(***************************************************************************)
(* What a critical section promises: one thread at a time holds it; the    *)
(* holder may take it again, and holds it until it has left as often as it *)
(* has entered.                                                            *)
(***************************************************************************)
EXTENDS Naturals

CONSTANTS Thread, Nobody

VARIABLES holder, \* who holds the lock
          times   \* how often

lockVars == <<holder, times>>

Init == holder = Nobody /\ times = 0

Acquire(t) == holder = Nobody /\ holder' = t /\ times' = 1
Reenter(t) == holder = t /\ times' = times + 1 /\ UNCHANGED holder
Release(t) ==
    /\ holder = t /\ times > 0
    /\ times' = times - 1
    /\ holder' = IF times = 1 THEN Nobody ELSE t

Next == \E t \in Thread : Acquire(t) \/ Reenter(t) \/ Release(t)

Spec == Init /\ [][Next]_lockVars
=============================================================================
