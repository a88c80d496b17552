----------------------- MODULE SynchronizationBarrier -----------------------
(***************************************************************************)
(* The barrier of WinPR (winpr/libwinpr/synch/barrier.c): a counter that   *)
(* is decremented atomically, and two events that change places with every *)
(* round, so that a thread which is slow to leave one round is not caught  *)
(* in the next.  A thread spins on the change of places, or blocks on the  *)
(* event, or does the one and then the other.                              *)
(***************************************************************************)
EXTENDS Naturals, FiniteSets

CONSTANTS
    Thread,    \* the threads required to enter the barrier
    MaxRounds  \* bound: how often each of them enters

\* What is assumed of the constants.
BarrierAssumption == IsFiniteSet(Thread) /\ Thread # {} /\ MaxRounds \in Nat

Total == Cardinality(Thread)

VARIABLES
    remaining, \* Reserved1, the threads that have not yet entered
    current,   \* Reserved3[0]: which event is the current one
    dormant,   \* Reserved3[1]
    set,       \* which events are set
    deleted,   \* the handles have been closed
    pc, flags,
    mine,      \* hCurrentEvent and hDormantEvent of each call
    entered,   \* how many calls each thread has begun
    through,   \* how many have returned
    winners    \* how many of them returned TRUE, by round

local == <<pc, flags, mine, entered, through>>
vars == <<remaining, current, dormant, set, deleted, local, winners>>

\* InitializeSynchronizationBarrier.
Init ==
    /\ remaining = Total /\ current = 0 /\ dormant = 1
    /\ set = [e \in {0, 1} |-> FALSE] /\ deleted = FALSE
    /\ pc = [t \in Thread |-> "out"] /\ flags = [t \in Thread |-> "default"]
    /\ mine = [t \in Thread |-> <<0, 1>>]
    /\ entered = [t \in Thread |-> 0] /\ through = [t \in Thread |-> 0]
    /\ winners = [r \in 1 .. MaxRounds |-> 0]

Goes(t, from, to) == pc[t] = from /\ pc' = [pc EXCEPT ![t] = to]
Calls == UNCHANGED <<flags, mine, entered, through>>
Returns(t, from) ==
    /\ Goes(t, from, "out") /\ through' = [through EXCEPT ![t] = @ + 1]
    /\ UNCHANGED <<flags, mine, entered>>

-----------------------------------------------------------------------------
(***************************************************************************)
(* EnterSynchronizationBarrier.                                            *)
(***************************************************************************)
Enter(t) ==
    /\ ~deleted /\ entered[t] < MaxRounds /\ Goes(t, "out", "decrement")
    /\ \E f \in {"default", "block", "spin"} : flags' = [flags EXCEPT ![t] = f]
    /\ mine' = [mine EXCEPT ![t] = <<current, dormant>>]
    /\ entered' = [entered EXCEPT ![t] = @ + 1]
    /\ UNCHANGED <<remaining, current, dormant, set, deleted, through, winners>>

\* All but the last spin, unless there are too few processors or they asked
\* to block.
Decrement(t) ==
    /\ remaining' = remaining - 1
    /\ \E to \in IF remaining' = 0 THEN {"reset"}
                 ELSE IF flags[t] = "spin" THEN {"spin"}
                 ELSE IF flags[t] = "block" THEN {"block"} ELSE {"spin", "block"} :
           Goes(t, "decrement", to)
    /\ Calls /\ UNCHANGED <<current, dormant, set, deleted, winners>>

\* "we spin until the last thread _completed_ the event switch", or until the
\* spin count is used up.
SpinEnds(t) ==
    /\ current # mine[t][1] /\ Returns(t, "spin")
    /\ UNCHANGED <<remaining, current, dormant, set, deleted, winners>>
SpinOn(t) == current = mine[t][1] /\ pc[t] = "spin" /\ UNCHANGED vars
SpinTires(t) ==
    /\ current = mine[t][1] /\ flags[t] = "default" /\ Goes(t, "spin", "block")
    /\ Calls /\ UNCHANGED <<remaining, current, dormant, set, deleted, winners>>
Block(t) ==
    /\ set[mine[t][1]] /\ Returns(t, "block")
    /\ UNCHANGED <<remaining, current, dormant, set, deleted, winners>>

\* The last thread: the dormant event is reset, the counter, the events
\* change places, those who block are released.
ResetNothing(t) ==
    /\ Goes(t, "reset", "recount") /\ Calls
    /\ UNCHANGED <<remaining, current, dormant, set, deleted, winners>>
ResetDormant(t) ==
    /\ Goes(t, "reset", "recount") /\ set' = [set EXCEPT ![mine[t][2]] = FALSE]
    /\ Calls /\ UNCHANGED <<remaining, current, dormant, deleted, winners>>
ResetCounter(t) ==
    /\ Goes(t, "recount", "switch") /\ remaining' = Total
    /\ Calls /\ UNCHANGED <<current, dormant, set, deleted, winners>>
SwitchDormant(t) ==
    /\ Goes(t, "switch", "switched") /\ dormant' = mine[t][1]
    /\ Calls /\ UNCHANGED <<remaining, current, set, deleted, winners>>
SwitchCurrent(t) ==
    /\ Goes(t, "switched", "signal") /\ current' = mine[t][2]
    /\ Calls /\ UNCHANGED <<remaining, dormant, set, deleted, winners>>
Signal(t) ==
    /\ set' = [set EXCEPT ![mine[t][1]] = TRUE] /\ Returns(t, "signal")
    /\ winners' = [winners EXCEPT ![entered[t]] = @ + 1]
    /\ UNCHANGED <<remaining, current, dormant, deleted>>

\* DeleteSynchronizationBarrier, when all are through the last round (the
\* callers join their threads first): it waits for the counter and closes
\* the events.
Delete(t) ==
    /\ ~deleted /\ pc[t] = "out" /\ through[t] = MaxRounds
    /\ \A u \in Thread : through[u] = MaxRounds
    /\ remaining = Total /\ deleted' = TRUE
    /\ UNCHANGED <<remaining, current, dormant, set, local, winners>>

-----------------------------------------------------------------------------
Step(t) ==
    \/ Enter(t) \/ Decrement(t) \/ SpinEnds(t) \/ SpinOn(t) \/ SpinTires(t) \/ Block(t)
    \/ ResetDormant(t) \/ ResetCounter(t) \/ SwitchDormant(t) \/ SwitchCurrent(t)
    \/ Signal(t)
Done == deleted /\ UNCHANGED vars
Next == (\E t \in Thread : Step(t) \/ Delete(t)) \/ Done

Spec == Init /\ [][Next]_vars

\* Every thread comes to the barrier in each round, and goes on in it.
FairSpec == Spec /\ \A t \in Thread : WF_vars(Step(t))

-----------------------------------------------------------------------------
(***************************************************************************)
(* Properties.                                                             *)
(***************************************************************************)
Pcs == {"out", "decrement", "spin", "block", "reset", "recount", "switch",
        "switched", "signal"}

\* Types; "WINPR_ASSERT(remainingThreads >= 0)" in the range of the counter.
BarrierTypeOK ==
    /\ remaining \in 0 .. Total
    /\ {current, dormant} \subseteq {0, 1} /\ set \in [{0, 1} -> BOOLEAN]
    /\ deleted \in BOOLEAN /\ pc \in [Thread -> Pcs]
    /\ flags \in [Thread -> {"default", "block", "spin"}]
    /\ mine \in [Thread -> {0, 1} \X {0, 1}]
    /\ entered \in [Thread -> 0 .. MaxRounds] /\ through \in [Thread -> 0 .. MaxRounds]
    /\ winners \in [1 .. MaxRounds -> 0 .. Total]

\* Nobody is through a round that somebody has not entered, whichever way
\* each of them waits and however late one leaves the round before.
NobodyPassesEarly == \A t, u \in Thread : through[t] <= entered[u]

\* One thread of each round is told TRUE (TestSynchBarrier counts them).
OneWinner ==
    \A r \in 1 .. MaxRounds :
        /\ winners[r] <= 1
        /\ (\A t \in Thread : through[t] >= r) => winners[r] = 1

\* All come through every round.
EverybodyPasses == <>(\A t \in Thread : through[t] = MaxRounds)

\* Where the threads can be while round k is counted: outside, in that round,
\* or still on their way out of the one before.  The last of a round finds
\* all the others waiting in it until the events change places.
Waits(t) == pc[t] \in {"spin", "block"}
Last(t) == pc[t] \in {"reset", "recount", "switch", "switched"}
InRound(t, k) ==
    entered[t] = k /\ through[t] = k - 1 /\ mine[t] = <<current, 1 - current>>
Leaving(t, k) ==
    entered[t] = k - 1 /\ through[t] = k - 2 /\ mine[t] = <<1 - current, current>>
PlacesOK(k) ==
    \A t \in Thread :
        \/ pc[t] = "out" /\ entered[t] = k - 1 /\ through[t] = k - 1
        \/ pc[t] = "decrement" /\ InRound(t, k)
        \/ Waits(t) /\ (InRound(t, k) \/ Leaving(t, k))
        \/ /\ Last(t) /\ InRound(t, k)
           /\ \A u \in Thread \ {t} : Waits(u) /\ InRound(u, k)
        \/ pc[t] = "signal" /\ Leaving(t, k)

\* The current event is not set, so that nobody gets through a round that is
\* counted; the other is reset before they change places.
EventsOK ==
    /\ ~set[current]
    /\ \A t \in Thread : pc[t] \in {"recount", "switch", "switched"} => ~set[1 - current]
    /\ dormant = IF \E t \in Thread : pc[t] = "switched" THEN current ELSE 1 - current

\* The counter counts those that have not come to wait in this round.
Counted(k) == {t \in Thread : Waits(t) /\ entered[t] = k}
CounterOK(k) ==
    /\ (\A t \in Thread : ~Last(t)) =>
           remaining = Total - Cardinality(Counted(k)) /\ remaining > 0
    /\ \A t \in Thread : pc[t] \in {"reset", "recount"} => remaining = 0
    /\ \A t \in Thread : pc[t] \in {"switch", "switched"} => remaining = Total

\* The last thread of the round before is the only one that signals it.
WinnersOK(k) ==
    /\ \A t, u \in Thread : (pc[t] = "signal" /\ pc[u] = "signal") => t = u
    /\ \A r \in 1 .. MaxRounds :
           winners[r] = IF r < k /\ ~ \E t \in Thread : pc[t] = "signal" /\ entered[t] = r
                        THEN 1 ELSE 0

BarrierIndInv ==
    /\ BarrierTypeOK /\ EventsOK
    /\ \E k \in 1 .. MaxRounds + 1 : PlacesOK(k) /\ CounterOK(k) /\ WinnersOK(k)

\* Types, and the rounds of EnterSynchronizationBarrier are kept apart, each
\* with one thread that is told TRUE.
BarrierInv == BarrierIndInv /\ NobodyPassesEarly /\ OneWinner
=============================================================================
