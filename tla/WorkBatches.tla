---------------------------- MODULE WorkBatches ----------------------------
(***************************************************************************)
(* What a thread pool promises to the threads that use it: a thread hands  *)
(* over callbacks, each of them runs once, and when the wait for them      *)
(* returns none of that thread's callbacks is waiting or running, so that  *)
(* it may free what they work on.                                          *)
(***************************************************************************)
EXTENDS Naturals

CONSTANT Caller

VARIABLES
    outstanding, \* how many callbacks of each caller have not returned
    waiting      \* the callers that wait for theirs

batchVars == <<outstanding, waiting>>

Init ==
    /\ outstanding = [c \in Caller |-> 0]
    /\ waiting = {}

HandOver(c) ==
    /\ c \notin waiting
    /\ outstanding' = [outstanding EXCEPT ![c] = @ + 1]
    /\ UNCHANGED waiting

(* A callback has run, or there was no memory to keep it. *)
Settle(c) ==
    /\ outstanding[c] > 0
    /\ outstanding' = [outstanding EXCEPT ![c] = @ - 1]
    /\ UNCHANGED waiting

Wait(c) ==
    /\ c \notin waiting
    /\ waiting' = waiting \cup {c}
    /\ UNCHANGED outstanding

Return(c) ==
    /\ c \in waiting
    /\ outstanding[c] = 0
    /\ waiting' = waiting \ {c}
    /\ UNCHANGED outstanding

Next == \E c \in Caller : HandOver(c) \/ Settle(c) \/ Wait(c) \/ Return(c)

Spec == Init /\ [][Next]_batchVars
=============================================================================
