----------------------------- MODULE CoreTimer -----------------------------
(***************************************************************************)
(* The timers of a connection: libfreerdp/core/timer.c, with the abort     *)
(* event of core/utils.c.                                                  *)
(*                                                                         *)
(*   users         threads that add and remove timers                      *)
(*   timer thread  calls the expired timers, marks the removed ones off    *)
(*                 the list and sleeps until the next one expires          *)
(*   main loop     calls the expired timers that asked for it              *)
(*                 (freerdp_timer_poll); aborts, reconnects and at last    *)
(*                 frees everything                                        *)
(*                                                                         *)
(* The list has a recursive lock, which is held while a callback runs.     *)
(* Time is left out: a timer that runs may expire at any moment, and the   *)
(* thread sleeps either until some timer expires or until it is woken.     *)
(* That leaves out the timer which is 2^32 - 1 ms (49.7 days) away or      *)
(* more: for it the timeout saturates to INFINITE (timer.c:224-226), and   *)
(* unless the thread is woken the timer is forgotten.                      *)
(***************************************************************************)
EXTENDS Naturals, FiniteSets

CONSTANTS
    User,      \* the threads that remove timers
    Adder,     \* those that add them too
    Main,      \* the one that runs the main loop
    Entry,     \* the memory that the entries of the list are made of
    None,
    MaxIdx,    \* bound: timers added
    MaxAborts, \* bound: times the connection is aborted
    CallbackInsists \* a callback that removes its own timer may yet return an interval

ASSUME CoreTimerAssumption ==
    /\ Main \in User /\ Adder \subseteq User
    /\ None \notin {"timer", "main"}
    /\ MaxIdx \in Nat /\ MaxAborts \in Nat /\ CallbackInsists \in BOOLEAN

VARIABLES
    state,     \* "none": not in the list; "on"; "off": intervallNS is 0
    id, onMain,\* entry->id, entry->mainloop
    due,       \* nextRunTimeNS has passed
    maxIdx,
    user, idx, \* where each user is in freerdp_timer_add, and its new id
    event, mainEvent, abortEvent,
    running,   \* timer->running
    thread,    \* where the timer thread is
    forever,   \* it sleeps without a timeout
    main,      \* where the main loop is
    lock,      \* who holds the lock of the list for more than a step
    todo,      \* the entries its ArrayList_ForEach has not visited
    wanted,    \* the mainloop flag of expire_and_reschedule
    aborts,    \* history: how often the connection was aborted
    removed,   \* history: ids for which freerdp_timer_remove returned true
    quiet      \* history: no removed timer was called

entryVars == <<state, id, onMain, due>>
userVars == <<maxIdx, user, idx>>
threadVars == <<thread, forever, wanted>>
listVars == <<lock, todo>>
historyVars == <<removed, quiet>>
ctVars == <<entryVars, userVars, event, mainEvent, abortEvent, running, threadVars, main,
            listVars, aborts, historyVars>>

Listed == {e \in Entry : state[e] # "none"}

-----------------------------------------------------------------------------

(* freerdp_timer_new, in rdp_new. *)
TimerInit ==
    /\ state = [e \in Entry |-> "none"] /\ id = [e \in Entry |-> 0]
    /\ onMain = [e \in Entry |-> FALSE] /\ due = [e \in Entry |-> FALSE]
    /\ maxIdx = 0
    /\ user = [u \in User |-> "idle"] /\ idx = [u \in User |-> 0]
    /\ event = FALSE /\ mainEvent = FALSE /\ abortEvent = FALSE
    /\ running = TRUE
    /\ thread = "check" /\ forever = TRUE /\ wanted = FALSE
    /\ main = "loop"
    /\ lock = None /\ todo = {}
    /\ aborts = 0
    /\ removed = {} /\ quiet = TRUE

(* Time passes. *)
Expires(e) ==
    /\ state[e] = "on" /\ ~due[e]
    /\ due' = [due EXCEPT ![e] = TRUE]
    /\ UNCHANGED <<state, id, onMain, userVars, event, mainEvent, abortEvent, running, threadVars,
                   main, listVars, aborts, historyVars>>

-----------------------------------------------------------------------------
(* The users.                                                              *)

(* User u is not inside a callback, and the timers are not being freed. *)
IsFree(u) ==
    /\ main \in {"loop", "poll"}
    /\ u = Main => main = "loop"

(* freerdp_timer_add takes the next id, without a lock: it reads the last  *)
(* one and writes the one after it,                                        *)
AddReads(u) ==
    /\ u \in Adder /\ IsFree(u) /\ user[u] = "idle"
    /\ maxIdx < MaxIdx
    /\ user' = [user EXCEPT ![u] = "read"]
    /\ idx' = [idx EXCEPT ![u] = maxIdx + 1]
    /\ UNCHANGED <<entryVars, maxIdx, event, mainEvent, abortEvent, running, threadVars, main,
                   listVars, aborts, historyVars>>

AddCounts(u) ==
    /\ user[u] = "read"
    /\ user' = [user EXCEPT ![u] = "counted"]
    /\ maxIdx' = idx[u]
    /\ UNCHANGED <<entryVars, idx, event, mainEvent, abortEvent, running, threadVars, main,
                   listVars, aborts, historyVars>>

(* appends the entry, *)
AddAppends(u, e, mainloop) ==
    /\ user[u] = "counted"
    /\ lock = None
    /\ state[e] = "none"
    /\ state' = [state EXCEPT ![e] = "on"]
    /\ id' = [id EXCEPT ![e] = idx[u]]
    /\ onMain' = [onMain EXCEPT ![e] = mainloop]
    /\ due' = [due EXCEPT ![e] = FALSE]
    /\ user' = [user EXCEPT ![u] = "appended"]
    /\ UNCHANGED <<maxIdx, idx, event, mainEvent, abortEvent, running, threadVars, main,
                   listVars, aborts, historyVars>>

(* or returns 0 if there is no memory, *)
AddFails(u) ==
    /\ user[u] = "counted"
    /\ lock = None
    /\ user' = [user EXCEPT ![u] = "idle"]
    /\ UNCHANGED <<entryVars, maxIdx, idx, event, mainEvent, abortEvent, running, threadVars,
                   main, listVars, aborts, historyVars>>

(* and wakes the timer thread. *)
AddSignals(u) ==
    /\ user[u] = "appended"
    /\ event' = TRUE
    /\ user' = [user EXCEPT ![u] = "idle"]
    /\ UNCHANGED <<entryVars, maxIdx, idx, mainEvent, abortEvent, running, threadVars, main,
                   listVars, aborts, historyVars>>

(* freerdp_timer_remove marks the timer. *)
Remove(u, e) ==
    /\ IsFree(u) /\ user[u] = "idle"
    /\ lock = None
    /\ state[e] # "none"
    /\ state' = [state EXCEPT ![e] = "off"]
    /\ removed' = removed \cup {id[e]}
    /\ UNCHANGED <<id, onMain, due, userVars, event, mainEvent, abortEvent, running, threadVars,
                   main, listVars, aborts, quiet>>

-----------------------------------------------------------------------------
(* Callbacks.                                                              *)

(* runTimerEvent: the callback may remove timers, and its result says      *)
(* whether its own timer runs again.                                       *)
RunTimerEvent(e) ==
    \E gone \in {{}} \cup {{f} : f \in Listed}, again \in BOOLEAN :
        /\ e \in gone /\ again => CallbackInsists
        /\ state' = [f \in Entry |-> IF f = e THEN IF again THEN "on" ELSE "off"
                                     ELSE IF f \in gone THEN "off" ELSE state[f]]
        /\ due' = [due EXCEPT ![e] = FALSE]
        /\ removed' = removed \cup {id[f] : f \in gone}
        /\ quiet' = (quiet /\ id[e] \notin removed)
        /\ UNCHANGED <<id, onMain>>

Expired(e) == state[e] = "on" /\ due[e]

-----------------------------------------------------------------------------
(* timer_thread.                                                           *)

(* Mutant of ThreadChecks: the event is reset after the visit, not before. *)
ThreadChecksResetting ==
    /\ thread = "check"
    /\ thread' = IF running THEN "wait" ELSE "ended"
    /\ event' = FALSE
    /\ UNCHANGED <<entryVars, userVars, mainEvent, abortEvent, running, forever, wanted, main,
                   listVars, aborts, historyVars>>

(* The condition of the loop. *)
ThreadChecks ==
    /\ thread = "check"
    /\ thread' = IF running THEN "wait" ELSE "ended"
    /\ UNCHANGED <<entryVars, userVars, event, mainEvent, abortEvent, running, forever, wanted,
                   main, listVars, aborts, historyVars>>

(* It waits for the abort event, which comes first, for its own event and  *)
(* for the timeout.                                                        *)
ThreadAborts ==
    /\ thread = "wait" /\ abortEvent
    /\ thread' = "ended"
    /\ UNCHANGED <<entryVars, userVars, event, mainEvent, abortEvent, running, forever, wanted,
                   main, listVars, aborts, historyVars>>

ThreadWakes ==
    /\ thread = "wait" /\ ~abortEvent
    /\ event \/ ~forever
    /\ thread' = "woken"
    /\ UNCHANGED <<entryVars, userVars, event, mainEvent, abortEvent, running, forever, wanted,
                   main, listVars, aborts, historyVars>>

ThreadResets ==
    /\ thread = "woken"
    /\ event' = FALSE
    /\ thread' = "reset"
    /\ UNCHANGED <<entryVars, userVars, mainEvent, abortEvent, running, forever, wanted, main,
                   listVars, aborts, historyVars>>

(* expire_and_reschedule locks the list and visits it. *)
ThreadLocks ==
    /\ thread = "reset"
    /\ lock = None
    /\ lock' = "timer"
    /\ todo' = Listed
    /\ wanted' = FALSE
    /\ thread' = "visit"
    /\ UNCHANGED <<entryVars, userVars, event, mainEvent, abortEvent, running, forever, main,
                   aborts, historyVars>>

(* Mutant of RunExpiredTimer: deactivated timers are not skipped. *)
RunExpiredTimerOff(e) ==
    /\ thread = "visit" /\ e \in todo
    /\ todo' = todo \ {e}
    /\ IF due[e] /\ ~onMain[e] THEN RunTimerEvent(e) ELSE UNCHANGED <<entryVars, historyVars>>
    /\ wanted' = (wanted \/ (Expired(e) /\ onMain[e]))
    /\ UNCHANGED <<userVars, event, mainEvent, abortEvent, running, thread, forever, main, lock,
                   aborts>>

(* runExpiredTimer: a timer of the main loop is only noted. *)
RunExpiredTimer(e) ==
    /\ thread = "visit" /\ e \in todo
    /\ todo' = todo \ {e}
    /\ IF Expired(e) /\ ~onMain[e] THEN RunTimerEvent(e)
                                   ELSE UNCHANGED <<entryVars, historyVars>>
    /\ wanted' = (wanted \/ (Expired(e) /\ onMain[e]))
    /\ UNCHANGED <<userVars, event, mainEvent, abortEvent, running, thread, forever, main, lock,
                   aborts>>

(* Mutant of Reschedule: the main loop is not told. *)
RescheduleSilently ==
    /\ thread = "visit" /\ todo = {}
    /\ state' = [e \in Entry |-> IF state[e] = "on" THEN "on" ELSE "none"]
    /\ forever' = ({e \in Entry : state[e] = "on"} = {})
    /\ lock' = None
    /\ thread' = "check"
    /\ UNCHANGED <<id, onMain, due, userVars, event, mainEvent, abortEvent, running, wanted, main,
                   todo, aborts, historyVars>>

(* Then it tells the main loop, takes the deactivated timers off the list  *)
(* and finds out how long it may sleep: for ever when no timer is left     *)
(* (or the next one is further away than a timeout can say, left out).     *)
Reschedule ==
    /\ thread = "visit" /\ todo = {}
    /\ mainEvent' = (mainEvent \/ wanted)
    /\ state' = [e \in Entry |-> IF state[e] = "on" THEN "on" ELSE "none"]
    /\ forever' = ({e \in Entry : state[e] = "on"} = {})
    /\ lock' = None
    /\ thread' = "check"
    /\ UNCHANGED <<id, onMain, due, userVars, event, abortEvent, running, wanted, main, todo,
                   aborts, historyVars>>

-----------------------------------------------------------------------------
(* The main loop.                                                          *)

(* freerdp_timer_poll, in rdp_check_fds; the loop waits for mainEvent. *)
Poll ==
    /\ main = "loop" /\ user[Main] = "idle"
    /\ mainEvent /\ lock = None
    /\ mainEvent' = FALSE
    /\ lock' = "main"
    /\ todo' = Listed
    /\ main' = "poll"
    /\ UNCHANGED <<entryVars, userVars, event, abortEvent, running, threadVars, aborts,
                   historyVars>>

RunExpiredTimerOnMainloop(e) ==
    /\ main = "poll" /\ e \in todo
    /\ todo' = todo \ {e}
    /\ IF Expired(e) /\ onMain[e] THEN RunTimerEvent(e)
                                  ELSE UNCHANGED <<entryVars, historyVars>>
    /\ UNCHANGED <<userVars, event, mainEvent, abortEvent, running, threadVars, main, lock, aborts>>

(* "Trigger a wakeup of timer thread to reschedule". *)
PollEnds ==
    /\ main = "poll" /\ todo = {}
    /\ event' = TRUE
    /\ lock' = None
    /\ main' = "loop"
    /\ UNCHANGED <<entryVars, userVars, mainEvent, abortEvent, running, threadVars, todo, aborts,
                   historyVars>>

(* utils_abort_connect, by any thread: a signal, a disconnect of the peer. *)
AbortConnect ==
    /\ main \in {"loop", "poll"}
    /\ aborts < MaxAborts
    /\ aborts' = aborts + 1
    /\ abortEvent' = TRUE
    /\ UNCHANGED <<entryVars, userVars, event, mainEvent, running, threadVars, main, listVars,
                   historyVars>>

(* utils_reset_abort, in freerdp_reconnect. *)
ResetAbort ==
    /\ main = "loop" /\ user[Main] = "idle"
    /\ abortEvent
    /\ abortEvent' = FALSE
    /\ UNCHANGED <<entryVars, userVars, event, mainEvent, running, threadVars, main, listVars,
                   aborts, historyVars>>

(* freerdp_timer_free, in rdp_free, when nobody else uses the context:     *)
(* it stops the thread,                                                    *)
FreeStops ==
    /\ main = "loop" /\ \A u \in User : user[u] = "idle"
    /\ running' = FALSE
    /\ main' = "stopping"
    /\ UNCHANGED <<entryVars, userVars, event, mainEvent, abortEvent, threadVars, listVars, aborts,
                   historyVars>>

(* Mutant of FreeSignals: the thread is not woken. *)
FreeSignalsNot ==
    /\ main = "stopping"
    /\ main' = "join"
    /\ UNCHANGED <<entryVars, userVars, event, mainEvent, abortEvent, running, threadVars,
                   listVars, aborts, historyVars>>

(* wakes it, *)
FreeSignals ==
    /\ main = "stopping"
    /\ event' = TRUE
    /\ main' = "join"
    /\ UNCHANGED <<entryVars, userVars, mainEvent, abortEvent, running, threadVars, listVars,
                   aborts, historyVars>>

(* waits for its end and frees the list. *)
FreeJoins ==
    /\ main = "join" /\ thread = "ended"
    /\ state' = [e \in Entry |-> "none"]
    /\ main' = "freed"
    /\ UNCHANGED <<id, onMain, due, userVars, event, mainEvent, abortEvent, running, threadVars,
                   listVars, aborts, historyVars>>

-----------------------------------------------------------------------------

AddStep(u) ==
    \/ AddCounts(u) \/ AddSignals(u) \/ AddFails(u)
    \/ \E e \in Entry, mainloop \in BOOLEAN : AddAppends(u, e, mainloop)

TimerThread ==
    \/ ThreadChecks \/ ThreadAborts \/ ThreadWakes \/ ThreadResets \/ ThreadLocks
    \/ \E e \in Entry : RunExpiredTimer(e)
    \/ Reschedule

MainLoop == Poll \/ (\E e \in Entry : RunExpiredTimerOnMainloop(e)) \/ PollEnds

FreeStep == FreeSignals \/ FreeJoins

TimerNext ==
    \/ \E e \in Entry : Expires(e)
    \/ \E u \in User : AddReads(u) \/ AddStep(u) \/ \E e \in Entry : Remove(u, e)
    \/ TimerThread \/ MainLoop
    \/ AbortConnect \/ ResetAbort
    \/ FreeStops \/ FreeStep

TimerSpec == TimerInit /\ [][TimerNext]_ctVars

(* The threads run, and a connection that was aborted is set up again. A   *)
(* thread that wants the lock gets it at some time though the timer        *)
(* thread, which does not sleep while a timer of the main loop is expired, *)
(* takes it again and again (strong fairness).                             *)
Fairness ==
    /\ SF_ctVars(TimerThread)
    /\ SF_ctVars(MainLoop) /\ WF_ctVars(ResetAbort) /\ WF_ctVars(FreeStep)
    /\ \A u \in User : SF_ctVars(AddStep(u))

FairTimerSpec == TimerSpec /\ Fairness

-----------------------------------------------------------------------------
(* Properties.                                                             *)

(* The entries of the list have an id. *)
EntriesOK ==
    /\ state \in [Entry -> {"none", "on", "off"}]
    /\ id \in [Entry -> 0..MaxIdx] /\ onMain \in [Entry -> BOOLEAN]
    /\ due \in [Entry -> BOOLEAN]
    /\ \A e \in Listed : id[e] # 0

(* So have the timers that are being added. *)
UsersOK ==
    /\ maxIdx \in 0..MaxIdx
    /\ user \in [User -> {"idle", "read", "counted", "appended"}] /\ idx \in [User -> 0..MaxIdx]
    /\ \A u \in User : user[u] # "idle" => u \in Adder /\ idx[u] # 0

EventsOK ==
    /\ event \in BOOLEAN /\ mainEvent \in BOOLEAN /\ abortEvent \in BOOLEAN
    /\ running \in BOOLEAN /\ forever \in BOOLEAN /\ wanted \in BOOLEAN

(* The lock is held by the thread that goes through the list, and nobody   *)
(* else changes what that thread has still to visit.                       *)
ListOK ==
    /\ thread \in {"check", "wait", "woken", "reset", "visit", "ended"}
    /\ main \in {"loop", "poll", "stopping", "join", "freed"}
    /\ lock \in {None, "timer", "main"}
    /\ lock = "timer" <=> thread = "visit"
    /\ lock = "main" <=> main = "poll"
    /\ todo \subseteq Listed
    /\ lock = None => todo = {}

(* Types, and the use of the lock. *)
TimerTypeOK ==
    /\ EntriesOK /\ UsersOK /\ EventsOK /\ ListOK
    /\ removed \subseteq 1..MaxIdx /\ quiet \in BOOLEAN

(* No wake-up is lost between ResetEvent and the next wait of the timer    *)
(* thread: if it sleeps, or is about to sleep, without a timeout and its   *)
(* event is not set, every timer that runs was appended by a user who is   *)
(* about to set the event.                                                 *)
NoTimerForgotten ==
    thread \in {"check", "wait"} /\ forever /\ ~event =>
        \A e \in Entry : state[e] = "on" =>
            \E u \in User : user[u] = "appended" /\ idx[u] = id[e]

(* The ids are taken without a lock. One thread that adds timers is enough *)
(* for them to be distinct, with two they need not be.                     *)
OneAdder == \A u, v \in Adder : u = v

(* Then an id that is being added is the last one, and it is new until its *)
(* entry is appended.                                                      *)
IdsOK ==
    /\ \A u \in User :
        /\ user[u] = "read" => idx[u] = maxIdx + 1
        /\ user[u] \in {"counted", "appended"} => idx[u] = maxIdx
        /\ user[u] = "counted" => maxIdx \notin removed /\ \A e \in Listed : id[e] # maxIdx
    /\ \A e \in Listed : id[e] <= maxIdx
    /\ \A i \in removed : i <= maxIdx
    /\ \A e, f \in Listed : id[e] = id[f] => e = f

(* No timer that runs has the id of a removed one. *)
RemovedAreOff == \A e \in Entry : state[e] = "on" => id[e] \notin removed

(* "Mark the timer to be disabled. It will be removed on next rescheduling *)
(* event" (timer.c): once freerdp_timer_remove has returned true the       *)
(* callback is not called again, on either thread, so that its data may be *)
(* freed.                                                                  *)
RemovedIsQuiet == quiet

(* Until the connection is first aborted, or freed, an expired timer is    *)
(* called in the thread it was added for, or is removed: neither thread    *)
(* misses the event with which the other hands work over.                  *)
CalledBeforeAbort ==
    \A e \in Entry :
        Expired(e) ~> (~Expired(e) \/ aborts > 0 \/ main \notin {"loop", "poll"})

(* freerdp_timer_free, which waits for the thread without a timeout,       *)
(* returns, wherever the thread is and whether or not it was aborted.      *)
FreeCompletes == main = "stopping" ~> main = "freed"

(* Types, the use of the list's lock, and no wake-up of the timer thread is*)
(* lost; with one thread that adds timers their ids are distinct, and, if  *)
(* no callback insists on its removed timer, no removed timer runs.        *)
TimerInv ==
    /\ TimerTypeOK
    /\ NoTimerForgotten
    /\ OneAdder => IdsOK
    /\ OneAdder /\ ~CallbackInsists => RemovedAreOff
=============================================================================
