----------------------------- MODULE CoreProofs -----------------------------
(***************************************************************************)
(* Proofs about the core library (libfreerdp/core): the timers of a        *)
(* connection, and the connection sequence of a peer and its client.       *)
(***************************************************************************)
EXTENDS CoreTimer, PeerInvariant, SequenceTheorems, TLAPS

-----------------------------------------------------------------------------
(***************************************************************************)
(* The timers of a connection, for any threads and entries, any number of  *)
(* timers added and of aborts: the list is used under its lock, no wake-up *)
(* of the timer thread is lost, and a removed timer is not called.         *)
(***************************************************************************)
(* What a callback may do: its own timer and one other may be marked, and  *)
(* nothing that was marked runs again, except its own timer if the         *)
(* callback insists on that.                                               *)
LEMMA CallbackMarks ==
    ASSUME EntriesOK, NEW e \in Listed, RunTimerEvent(e)
    PROVE  /\ state' \in [Entry -> {"none", "on", "off"}] /\ due' \in [Entry -> BOOLEAN]
           /\ Listed' = Listed /\ UNCHANGED <<id, onMain>>
           /\ \A f \in Entry : state'[f] = "on" => f = e \/ state[f] = "on"
           /\ \A i \in removed' : i \in removed \/ \E f \in Listed : i = id[f] /\
                  (state'[f] = "on" => f = e /\ CallbackInsists)
           /\ quiet' = (quiet /\ id[e] \notin removed)
<1>1. PICK gone \in {{}} \cup {{f} : f \in Listed}, again \in BOOLEAN :
        /\ e \in gone /\ again => CallbackInsists
        /\ state' = [f \in Entry |-> IF f = e THEN IF again THEN "on" ELSE "off"
                                     ELSE IF f \in gone THEN "off" ELSE state[f]]
        /\ due' = [due EXCEPT ![e] = FALSE]
        /\ removed' = removed \cup {id[f] : f \in gone}
        /\ quiet' = (quiet /\ id[e] \notin removed)
        /\ UNCHANGED <<id, onMain>>
  BY DEF RunTimerEvent
<1>2. gone \subseteq Listed /\ e \in Entry /\ state[e] # "none"
  BY DEF Listed
<1>3. \A f \in Entry : state'[f] = IF f = e THEN IF again THEN "on" ELSE "off"
                                   ELSE IF f \in gone THEN "off" ELSE state[f]
  BY <1>1
<1>4. state' \in [Entry -> {"none", "on", "off"}]
  BY <1>1 DEF EntriesOK
<1>5. due' \in [Entry -> BOOLEAN]
  BY <1>1 DEF EntriesOK
<1>6. Listed' = Listed
  BY <1>2, <1>3 DEF Listed
<1>7. ASSUME NEW i \in removed', i \notin removed
      PROVE  \E f \in Listed : i = id[f] /\ (state'[f] = "on" => f = e /\ CallbackInsists)
  <2>1. PICK f \in gone : i = id[f]
    BY <1>1, <1>7
  <2>2. state'[f] = "on" => f = e /\ CallbackInsists
    BY <1>1, <1>2, <1>3 DEF Listed
  <2> QED
    BY <1>2, <2>1, <2>2
<1>8. \A f \in Entry : state'[f] = "on" => f = e \/ state[f] = "on"
  BY <1>3
<1> QED
  BY <1>1, <1>4, <1>5, <1>6, <1>7, <1>8

(* A step of a thread that goes through the list: it visits an entry of    *)
(* the list, and calls its timer only if that runs and has expired.        *)
Visits(e) ==
    /\ e \in todo /\ todo' = todo \ {e}
    /\ \/ Expired(e) /\ RunTimerEvent(e)
       \/ UNCHANGED <<entryVars, historyVars>>
    /\ UNCHANGED <<userVars, event, mainEvent, abortEvent, running, thread, forever, main, lock,
                   aborts>>

(* Both threads visit the list in this way. *)
LEMMA BothVisit ==
    ASSUME NEW e \in Entry, RunExpiredTimer(e) \/ RunExpiredTimerOnMainloop(e)
    PROVE  Visits(e)
  BY DEF RunExpiredTimer, RunExpiredTimerOnMainloop, Visits, threadVars

-----------------------------------------------------------------------------
(***************************************************************************)
(* Types.                                                                  *)
(***************************************************************************)

(* A visit keeps the entries in order. *)
LEMMA VisitEntries ==
    ASSUME TimerTypeOK, NEW e \in Entry, Visits(e)
    PROVE  /\ EntriesOK' /\ Listed' = Listed /\ id' = id
           /\ removed' \subseteq removed \cup {id[f] : f \in Listed}
           /\ quiet' \in BOOLEAN
           /\ \A f \in Entry : state'[f] = "on" => state[f] = "on"
<1>1. e \in Listed /\ EntriesOK
  BY DEF TimerTypeOK, ListOK, Visits
<1>2. CASE Expired(e) /\ RunTimerEvent(e)
  <2>1. /\ EntriesOK' /\ Listed' = Listed /\ id' = id
        /\ \A f \in Entry : state'[f] = "on" => state[f] = "on"
    BY <1>1, <1>2, CallbackMarks DEF EntriesOK, Expired
  <2>2. removed' \subseteq removed \cup {id[f] : f \in Listed}
    BY <1>1, <1>2, CallbackMarks
  <2>3. quiet' \in BOOLEAN
    BY <1>1, <1>2, CallbackMarks
  <2> QED
    BY <2>1, <2>2, <2>3
<1>3. CASE UNCHANGED <<entryVars, historyVars>>
  BY <1>1, <1>3 DEF entryVars, historyVars, EntriesOK, Listed, TimerTypeOK
<1> QED
  BY <1>2, <1>3 DEF Visits

(* The entries. *)
LEMMA EntriesStep ==
    ASSUME TimerTypeOK, [TimerNext]_ctVars
    PROVE  EntriesOK'
<1>1. EntriesOK /\ UsersOK
  BY DEF TimerTypeOK
<1>2. ASSUME NEW e \in Entry, Expires(e) PROVE EntriesOK'
  <2>1. due' \in [Entry -> BOOLEAN] /\ UNCHANGED <<state, id, onMain>>
    BY <1>1, <1>2 DEF Expires, EntriesOK
  <2> QED
    BY <1>1, <2>1 DEF EntriesOK, Listed
<1>3. ASSUME NEW u \in User, NEW e \in Entry, NEW mainloop \in BOOLEAN,
             AddAppends(u, e, mainloop)
      PROVE  EntriesOK'
  <2>1. idx[u] \in 0..MaxIdx /\ idx[u] # 0
    BY <1>1, <1>3 DEF AddAppends, UsersOK
  <2>2. /\ state' = [state EXCEPT ![e] = "on"] /\ id' = [id EXCEPT ![e] = idx[u]]
        /\ onMain' = [onMain EXCEPT ![e] = mainloop] /\ due' = [due EXCEPT ![e] = FALSE]
    BY <1>3 DEF AddAppends
  <2>3. state' \in [Entry -> {"none", "on", "off"}] /\ id' \in [Entry -> 0..MaxIdx]
    BY <1>1, <2>1, <2>2 DEF EntriesOK
  <2>4. onMain' \in [Entry -> BOOLEAN] /\ due' \in [Entry -> BOOLEAN]
    BY <1>1, <2>2 DEF EntriesOK
  <2>5. \A f \in Listed' : id'[f] # 0
    BY <1>1, <2>1, <2>2 DEF EntriesOK, Listed
  <2> QED
    BY <2>3, <2>4, <2>5 DEF EntriesOK
<1>4. ASSUME NEW u \in User, NEW e \in Entry, Remove(u, e) PROVE EntriesOK'
  BY <1>1, <1>4 DEF Remove, EntriesOK, Listed
<1>5. ASSUME NEW e \in Entry, RunExpiredTimer(e) \/ RunExpiredTimerOnMainloop(e)
      PROVE  EntriesOK'
  BY <1>5, BothVisit, VisitEntries
<1>6. CASE Reschedule \/ FreeJoins
  BY <1>1, <1>6 DEF Reschedule, FreeJoins, EntriesOK, Listed
<1>7. ASSUME UNCHANGED entryVars PROVE EntriesOK'
  BY <1>1, <1>7 DEF entryVars, EntriesOK, Listed
<1>8. ASSUME NEW u \in User, AddReads(u) \/ AddCounts(u) \/ AddSignals(u) \/ AddFails(u)
      PROVE  EntriesOK'
  BY <1>7, <1>8 DEF AddReads, AddCounts, AddSignals, AddFails
<1>9. CASE \/ ThreadChecks \/ ThreadAborts \/ ThreadWakes \/ ThreadResets \/ ThreadLocks
           \/ Poll \/ PollEnds \/ AbortConnect \/ ResetAbort \/ FreeStops \/ FreeSignals
           \/ UNCHANGED ctVars
  BY <1>7, <1>9 DEF ThreadChecks, ThreadAborts, ThreadWakes, ThreadResets, ThreadLocks, Poll,
                    PollEnds, AbortConnect, ResetAbort, FreeStops, FreeSignals, ctVars
<1> QED
  BY <1>2, <1>3, <1>4, <1>5, <1>6, <1>8, <1>9
     DEF TimerNext, AddStep, TimerThread, MainLoop, FreeStep

(* The users. *)
LEMMA UsersStep ==
    ASSUME TimerTypeOK, [TimerNext]_ctVars
    PROVE  UsersOK'
<1>1. UsersOK
  BY DEF TimerTypeOK
<1>2. ASSUME NEW u \in User, AddReads(u) PROVE UsersOK'
  <2>1. maxIdx + 1 \in 0..MaxIdx /\ maxIdx + 1 # 0
    BY <1>1, <1>2, CoreTimerAssumption DEF AddReads, UsersOK
  <2> QED
    BY <1>1, <1>2, <2>1 DEF AddReads, UsersOK
<1>3. ASSUME NEW u \in User, AddCounts(u) PROVE UsersOK'
  BY <1>1, <1>3 DEF AddCounts, UsersOK
<1>4. ASSUME NEW u \in User, AddSignals(u) \/ AddFails(u) PROVE UsersOK'
  BY <1>1, <1>4 DEF AddSignals, AddFails, UsersOK
<1>5. ASSUME NEW u \in User, NEW e \in Entry, NEW mainloop \in BOOLEAN,
             AddAppends(u, e, mainloop)
      PROVE  UsersOK'
  BY <1>1, <1>5 DEF AddAppends, UsersOK
<1>6. ASSUME UNCHANGED userVars PROVE UsersOK'
  BY <1>1, <1>6 DEF userVars, UsersOK
<1>7. ASSUME NEW e \in Entry,
             \/ Expires(e) \/ RunExpiredTimer(e) \/ RunExpiredTimerOnMainloop(e)
             \/ \E u \in User : Remove(u, e)
      PROVE  UsersOK'
  BY <1>6, <1>7 DEF Expires, Remove, RunExpiredTimer, RunExpiredTimerOnMainloop
<1>8. CASE \/ ThreadChecks \/ ThreadAborts \/ ThreadWakes \/ ThreadResets \/ ThreadLocks
           \/ Reschedule \/ Poll \/ PollEnds \/ AbortConnect \/ ResetAbort \/ FreeStops
           \/ FreeSignals \/ FreeJoins \/ UNCHANGED ctVars
  BY <1>6, <1>8 DEF ThreadChecks, ThreadAborts, ThreadWakes, ThreadResets, ThreadLocks, Poll,
                    PollEnds, AbortConnect, ResetAbort, FreeStops, FreeSignals, ctVars,
                    Reschedule, FreeJoins
<1> QED
  BY <1>2, <1>3, <1>4, <1>5, <1>7, <1>8
     DEF TimerNext, AddStep, TimerThread, MainLoop, FreeStep

(* The events and flags. *)
LEMMA EventsStep ==
    ASSUME TimerTypeOK, [TimerNext]_ctVars
    PROVE  EventsOK'
<1>1. EventsOK
  BY DEF TimerTypeOK
<1>2. ASSUME NEW e \in Entry,
             \/ Expires(e) \/ RunExpiredTimer(e) \/ RunExpiredTimerOnMainloop(e)
             \/ \E u \in User : Remove(u, e)
      PROVE  EventsOK'
  BY <1>1, <1>2, Zenon
     DEF Expires, Remove, RunExpiredTimer, RunExpiredTimerOnMainloop, EventsOK, threadVars
<1>3. ASSUME NEW u \in User, AddReads(u) \/ AddStep(u) PROVE EventsOK'
  BY <1>1, <1>3, Zenon
     DEF AddStep, AddReads, AddCounts, AddSignals, AddFails, AddAppends, EventsOK, threadVars
<1>4. CASE \/ ThreadChecks \/ ThreadAborts \/ ThreadWakes \/ ThreadResets \/ ThreadLocks
           \/ Poll \/ PollEnds \/ AbortConnect \/ ResetAbort \/ FreeStops
           \/ FreeSignals \/ FreeJoins \/ UNCHANGED ctVars
  BY <1>1, <1>4, Zenon
     DEF ThreadChecks, ThreadAborts, ThreadWakes, ThreadResets, ThreadLocks, Poll, PollEnds,
         AbortConnect, ResetAbort, FreeStops, FreeSignals, ctVars, FreeJoins, EventsOK, threadVars
<1>5. CASE Reschedule
  <2>1. UNCHANGED <<event, abortEvent, running, wanted>>
    BY <1>5 DEF Reschedule
  <2>2. mainEvent' \in BOOLEAN /\ forever' \in BOOLEAN
    BY <1>5, Zenon DEF Reschedule
  <2> QED
    BY <1>1, <2>1, <2>2 DEF EventsOK
<1> QED
  BY <1>2, <1>3, <1>4, <1>5 DEF TimerNext, TimerThread, MainLoop, FreeStep

(* The lock and what is visited under it. *)
LEMMA ListStep ==
    ASSUME TimerTypeOK, [TimerNext]_ctVars
    PROVE  ListOK'
<1>1. ListOK /\ EntriesOK /\ None \notin {"timer", "main"}
  BY CoreTimerAssumption DEF TimerTypeOK
<1>2. ASSUME Listed \subseteq Listed', UNCHANGED <<thread, main, lock, todo>> PROVE ListOK'
  BY <1>1, <1>2 DEF ListOK
<1>3. ASSUME NEW e \in Entry, RunExpiredTimer(e) \/ RunExpiredTimerOnMainloop(e)
      PROVE  ListOK'
  <2>1. Listed' = Listed /\ todo' \subseteq todo /\ UNCHANGED <<thread, main, lock>>
    BY <1>3, BothVisit, VisitEntries DEF Visits
  <2> QED
    BY <1>1, <2>1 DEF ListOK
<1>4. ASSUME NEW u \in User, NEW e \in Entry, NEW mainloop \in BOOLEAN,
             AddAppends(u, e, mainloop)
      PROVE  ListOK'
  <2>1. Listed \subseteq Listed' /\ UNCHANGED <<thread, main, lock, todo>>
    BY <1>1, <1>4 DEF AddAppends, EntriesOK, Listed, threadVars, listVars
  <2> QED
    BY <1>2, <2>1
<1>5. ASSUME NEW e \in Entry, Expires(e) \/ \E u \in User : Remove(u, e) PROVE ListOK'
  <2>1. Listed \subseteq Listed' /\ UNCHANGED <<thread, main, lock, todo>>
    BY <1>1, <1>5 DEF Expires, Remove, EntriesOK, Listed, threadVars, listVars
  <2> QED
    BY <1>2, <2>1
<1>6. ASSUME NEW u \in User, AddReads(u) \/ AddCounts(u) \/ AddSignals(u) \/ AddFails(u)
      PROVE  ListOK'
  <2>1. UNCHANGED <<state, thread, main, lock, todo>>
    BY <1>6 DEF AddReads, AddCounts, AddSignals, AddFails, entryVars, threadVars, listVars
  <2> QED
    BY <1>2, <2>1 DEF Listed
<1>7. CASE \/ ThreadChecks \/ ThreadAborts \/ ThreadWakes \/ ThreadResets
           \/ AbortConnect \/ ResetAbort \/ FreeStops \/ FreeSignals \/ UNCHANGED ctVars
  <2>1. UNCHANGED <<state, lock, todo>> /\ UNCHANGED Listed
    BY <1>7 DEF ThreadChecks, ThreadAborts, ThreadWakes, ThreadResets, AbortConnect, ResetAbort,
                FreeStops, FreeSignals, ctVars, entryVars, listVars, Listed
  <2>2. /\ thread' \in {"check", "wait", "woken", "reset", "visit", "ended"}
        /\ thread' = "visit" <=> thread = "visit"
    BY <1>1, <1>7 DEF ThreadChecks, ThreadAborts, ThreadWakes, ThreadResets, AbortConnect,
                ResetAbort, FreeStops, FreeSignals, ctVars, threadVars, ListOK
  <2>3. /\ main' \in {"loop", "poll", "stopping", "join", "freed"}
        /\ main' = "poll" <=> main = "poll"
    BY <1>1, <1>7 DEF ThreadChecks, ThreadAborts, ThreadWakes, ThreadResets, AbortConnect,
                ResetAbort, FreeStops, FreeSignals, ctVars, threadVars, ListOK
  <2> QED
    BY <1>1, <2>1, <2>2, <2>3 DEF ListOK
<1>8. CASE ThreadLocks \/ Poll \/ PollEnds
  <2>1. UNCHANGED Listed
    BY <1>8 DEF ThreadLocks, Poll, PollEnds, entryVars, Listed
  <2> QED
    BY <1>1, <1>8, <2>1 DEF ThreadLocks, Poll, PollEnds, threadVars, ListOK
<1>9. CASE Reschedule
  BY <1>1, <1>9 DEF Reschedule, ListOK
<1>10. CASE FreeJoins
  BY <1>1, <1>10 DEF FreeJoins, ListOK, threadVars, listVars
<1> QED
  BY <1>3, <1>4, <1>5, <1>6, <1>7, <1>8, <1>9, <1>10
     DEF TimerNext, AddStep, TimerThread, MainLoop, FreeStep

(* The history variables. *)
LEMMA HistoryStep ==
    ASSUME TimerTypeOK, [TimerNext]_ctVars
    PROVE  removed' \subseteq 1..MaxIdx /\ quiet' \in BOOLEAN
<1>1. EntriesOK /\ removed \subseteq 1..MaxIdx /\ quiet \in BOOLEAN
  BY DEF TimerTypeOK
<1>2. \A e \in Listed : id[e] \in 1..MaxIdx
  BY <1>1, CoreTimerAssumption DEF EntriesOK, Listed
<1>3. ASSUME NEW e \in Entry, RunExpiredTimer(e) \/ RunExpiredTimerOnMainloop(e)
      PROVE  removed' \subseteq 1..MaxIdx /\ quiet' \in BOOLEAN
  BY <1>1, <1>2, <1>3, BothVisit, VisitEntries
<1>4. ASSUME NEW u \in User, NEW e \in Entry, Remove(u, e)
      PROVE  removed' \subseteq 1..MaxIdx /\ quiet' \in BOOLEAN
  BY <1>1, <1>2, <1>4 DEF Remove, Listed
<1>5. CASE UNCHANGED historyVars
  BY <1>1, <1>5 DEF historyVars
<1>6. ASSUME NEW u \in User, AddReads(u) \/ AddStep(u) PROVE UNCHANGED historyVars
  BY <1>6 DEF AddStep, AddReads, AddCounts, AddSignals, AddFails, AddAppends
<1>7. \/ UNCHANGED historyVars
      \/ \E e \in Entry : \/ RunExpiredTimer(e) \/ RunExpiredTimerOnMainloop(e)
                          \/ \E u \in User : Remove(u, e)
  BY <1>6 DEF TimerNext, Expires, TimerThread, MainLoop, FreeStep, ThreadChecks, ThreadAborts,
              ThreadWakes, ThreadResets, ThreadLocks, Poll, PollEnds, AbortConnect, ResetAbort,
              FreeStops, FreeSignals, FreeJoins, Reschedule, ctVars
<1> QED
  BY <1>3, <1>4, <1>5, <1>7

-----------------------------------------------------------------------------
(***************************************************************************)
(* No wake-up is lost.                                                     *)
(***************************************************************************)

(* No step makes the timer thread sleep over a timer. *)
LEMMA ForgottenStep ==
    ASSUME TimerTypeOK, NoTimerForgotten, [TimerNext]_ctVars
    PROVE  NoTimerForgotten'
<1>1. EntriesOK /\ UsersOK /\ ListOK
  BY DEF TimerTypeOK
<1>2. ASSUME \A e \in Entry : state'[e] = "on" => state[e] = "on",
             UNCHANGED <<id, user, idx, forever, event>>,
             thread' \in {"check", "wait"} => thread \in {"check", "wait"}
      PROVE  NoTimerForgotten'
  BY <1>2 DEF NoTimerForgotten
<1>3. ASSUME NEW e \in Entry, RunExpiredTimer(e) \/ RunExpiredTimerOnMainloop(e)
      PROVE  NoTimerForgotten'
  <2>1. /\ \A f \in Entry : state'[f] = "on" => state[f] = "on"
        /\ UNCHANGED <<id, user, idx, forever, event, thread>>
    BY <1>3, BothVisit, VisitEntries DEF Visits, userVars
  <2> QED
    BY <1>2, <2>1
<1>4. ASSUME NEW e \in Entry, Expires(e) \/ \E u \in User : Remove(u, e)
      PROVE  NoTimerForgotten'
  <2>1. /\ \A f \in Entry : state'[f] = "on" => state[f] = "on"
        /\ UNCHANGED <<id, user, idx, forever, event, thread>>
    BY <1>1, <1>4 DEF Expires, Remove, EntriesOK, userVars, threadVars
  <2> QED
    BY <1>2, <2>1
<1>5. ASSUME NEW u \in User, NEW e \in Entry, NEW mainloop \in BOOLEAN,
             AddAppends(u, e, mainloop)
      PROVE  NoTimerForgotten'
  <2>1. /\ state' = [state EXCEPT ![e] = "on"] /\ id' = [id EXCEPT ![e] = idx[u]]
        /\ user[u] = "counted" /\ user' = [user EXCEPT ![u] = "appended"]
        /\ UNCHANGED <<idx, event, thread, forever>>
    BY <1>5 DEF AddAppends, threadVars
  <2> SUFFICES ASSUME thread \in {"check", "wait"}, forever, ~event,
                      NEW f \in Entry, state'[f] = "on"
               PROVE  \E v \in User : user'[v] = "appended" /\ idx'[v] = id'[f]
    BY <2>1 DEF NoTimerForgotten
  <2>2. CASE f = e
    BY <1>1, <2>1, <2>2 DEF EntriesOK, UsersOK
  <2>3. CASE f # e
    <3>1. PICK v \in User : user[v] = "appended" /\ idx[v] = id[f]
      BY <1>1, <2>1, <2>3 DEF NoTimerForgotten, EntriesOK
    <3>2. user'[v] = "appended" /\ idx'[v] = id'[f]
      BY <1>1, <2>1, <2>3, <3>1 DEF EntriesOK, UsersOK
    <3> QED
      BY <3>2
  <2> QED
    BY <2>2, <2>3
<1>6. ASSUME NEW u \in User, AddReads(u) \/ AddCounts(u) \/ AddFails(u)
      PROVE  NoTimerForgotten'
  <2>1. /\ user[u] # "appended"
        /\ \A v \in User : v # u => user'[v] = user[v] /\ idx'[v] = idx[v]
        /\ UNCHANGED <<state, id, event, thread, forever>>
    BY <1>1, <1>6 DEF AddReads, AddCounts, AddFails, UsersOK, entryVars, threadVars
  <2> SUFFICES ASSUME thread \in {"check", "wait"}, forever, ~event,
                      NEW f \in Entry, state[f] = "on"
               PROVE  \E v \in User : user'[v] = "appended" /\ idx'[v] = id[f]
    BY <2>1 DEF NoTimerForgotten
  <2>2. PICK v \in User : user[v] = "appended" /\ idx[v] = id[f]
    BY DEF NoTimerForgotten
  <2> QED
    BY <2>1, <2>2
<1>7. ASSUME NEW u \in User, AddSignals(u) PROVE NoTimerForgotten'
  BY <1>7 DEF AddSignals, NoTimerForgotten
<1>8. CASE ThreadResets \/ ThreadLocks \/ PollEnds \/ FreeSignals
  <2>1. thread' \notin {"check", "wait"} \/ event'
    BY <1>8 DEF ThreadResets, ThreadLocks, PollEnds, FreeSignals
  <2> QED
    BY <2>1 DEF NoTimerForgotten
<1>9. CASE \/ ThreadChecks \/ ThreadAborts \/ ThreadWakes \/ Poll \/ AbortConnect \/ ResetAbort
           \/ FreeStops \/ UNCHANGED ctVars
  <2>1. /\ UNCHANGED <<state, id, user, idx, forever, event>>
        /\ thread' \in {"check", "wait"} => thread \in {"check", "wait"}
    BY <1>9 DEF ThreadChecks, ThreadAborts, ThreadWakes, Poll, AbortConnect, ResetAbort,
                FreeStops, ctVars, entryVars, userVars, threadVars
  <2> QED
    BY <1>2, <2>1
<1>10. CASE Reschedule
  <2>1. /\ state' = [e \in Entry |-> IF state[e] = "on" THEN "on" ELSE "none"]
        /\ forever' = ({e \in Entry : state[e] = "on"} = {})
    BY <1>10 DEF Reschedule
  <2> QED
    BY <2>1 DEF NoTimerForgotten
<1>11. CASE FreeJoins
  BY <1>11 DEF FreeJoins, NoTimerForgotten
<1> QED
  BY <1>3, <1>4, <1>5, <1>6, <1>7, <1>8, <1>9, <1>10, <1>11
     DEF TimerNext, AddStep, TimerThread, MainLoop, FreeStep

-----------------------------------------------------------------------------
(***************************************************************************)
(* Ids, and removed timers.                                                *)
(***************************************************************************)

(* With one thread that adds timers their ids are distinct. *)
LEMMA IdsStep ==
    ASSUME OneAdder, TimerTypeOK, IdsOK, [TimerNext]_ctVars
    PROVE  IdsOK'
<1>1. EntriesOK /\ UsersOK /\ ListOK /\ removed \subseteq 1..MaxIdx
  BY DEF TimerTypeOK
<1>2. maxIdx \in Nat /\ MaxIdx \in Nat /\ \A e \in Entry : id[e] \in Nat
  BY <1>1, CoreTimerAssumption DEF UsersOK, EntriesOK
<1>3. ASSUME Listed' \subseteq Listed, UNCHANGED <<id, maxIdx, user, idx>>,
             \A i \in removed' : i \in removed \/ \E e \in Listed : i = id[e]
      PROVE  IdsOK'
  BY <1>3, <1>2 DEF IdsOK
<1>4. ASSUME NEW e \in Entry, RunExpiredTimer(e) \/ RunExpiredTimerOnMainloop(e)
      PROVE  IdsOK'
  <2>1. Listed' = Listed /\ UNCHANGED <<id, maxIdx, user, idx>>
    BY <1>4, BothVisit, VisitEntries DEF Visits, userVars
  <2>2. \A i \in removed' : i \in removed \/ \E f \in Listed : i = id[f]
    BY <1>4, BothVisit, VisitEntries
  <2> QED
    BY <1>3, <2>1, <2>2
<1>5. ASSUME NEW e \in Entry, NEW u \in User, Remove(u, e) PROVE IdsOK'
  <2>1. Listed' = Listed /\ UNCHANGED <<id, maxIdx, user, idx>>
        /\ removed' = removed \cup {id[e]} /\ e \in Listed
    BY <1>1, <1>5 DEF Remove, EntriesOK, Listed, userVars
  <2> QED
    BY <1>3, <2>1
<1>6. ASSUME NEW u \in User, AddReads(u) PROVE IdsOK'
  <2>1. /\ user' = [user EXCEPT ![u] = "read"] /\ idx' = [idx EXCEPT ![u] = maxIdx + 1]
        /\ UNCHANGED <<Listed, id, maxIdx, removed>>
    BY <1>6 DEF AddReads, entryVars, historyVars, Listed
  <2> QED
    BY <1>1, <2>1 DEF IdsOK, UsersOK
<1>7. ASSUME NEW u \in User, AddCounts(u) PROVE IdsOK'
  <2>1. /\ user[u] = "read" /\ user' = [user EXCEPT ![u] = "counted"] /\ maxIdx' = idx[u]
        /\ UNCHANGED <<Listed, id, idx, removed>>
    BY <1>7 DEF AddCounts, entryVars, historyVars, Listed
  <2>2. maxIdx' = maxIdx + 1
    BY <2>1 DEF IdsOK
  <2>3. \A v \in User : v # u => user[v] = "idle"
    BY <1>1, <2>1 DEF UsersOK, OneAdder
  <2>4. \A v \in User : user'[v] = IF v = u THEN "counted" ELSE "idle"
    BY <1>1, <2>1, <2>3 DEF UsersOK
  <2>5. maxIdx' \notin removed /\ \A e \in Listed : id[e] # maxIdx' /\ id[e] <= maxIdx'
    BY <1>1, <1>2, <2>2 DEF IdsOK, Listed
  <2>6. \A i \in removed : i <= maxIdx'
    BY <1>1, <1>2, <2>2 DEF IdsOK
  <2> QED
    BY <2>1, <2>4, <2>5, <2>6 DEF IdsOK
<1>8. ASSUME NEW u \in User, NEW e \in Entry, NEW mainloop \in BOOLEAN,
             AddAppends(u, e, mainloop)
      PROVE  IdsOK'
  <2>1. /\ state' = [state EXCEPT ![e] = "on"] /\ id' = [id EXCEPT ![e] = idx[u]]
        /\ user[u] = "counted" /\ user' = [user EXCEPT ![u] = "appended"]
        /\ UNCHANGED <<idx, maxIdx, removed>> /\ state[e] = "none"
    BY <1>8 DEF AddAppends, historyVars
  <2>2. \A v \in User : v # u => user[v] = "idle"
    BY <1>1, <2>1 DEF UsersOK, OneAdder
  <2>3. \A v \in User : user'[v] = IF v = u THEN "appended" ELSE "idle"
    BY <1>1, <2>1, <2>2 DEF UsersOK
  <2>4. idx[u] = maxIdx /\ \A f \in Listed : id[f] # maxIdx /\ id[f] <= maxIdx
    BY <2>1 DEF IdsOK
  <2>5. Listed' = Listed \cup {e} /\ e \notin Listed
    BY <1>1, <2>1 DEF EntriesOK, Listed
  <2>6. id'[e] = maxIdx /\ \A f \in Listed : id'[f] = id[f]
    BY <1>1, <2>1, <2>4, <2>5 DEF EntriesOK, Listed
  <2>7. \A f \in Listed' : id'[f] <= maxIdx
    BY <1>2, <2>4, <2>5, <2>6
  <2>8. \A f, g \in Listed' : id'[f] = id'[g] => f = g
    BY <2>4, <2>5, <2>6 DEF IdsOK
  <2>9. \A i \in removed' : i <= maxIdx'
    BY <2>1 DEF IdsOK
  <2> QED
    BY <2>1, <2>3, <2>4, <2>7, <2>8, <2>9 DEF IdsOK
<1>9. ASSUME NEW u \in User, AddSignals(u) \/ AddFails(u) PROVE IdsOK'
  <2>1. user' = [user EXCEPT ![u] = "idle"] /\ UNCHANGED <<Listed, id, maxIdx, idx, removed>>
    BY <1>9 DEF AddSignals, AddFails, entryVars, historyVars, Listed
  <2> QED
    BY <1>1, <2>1 DEF IdsOK, UsersOK
<1>10. ASSUME Listed' \subseteq Listed, UNCHANGED <<id, maxIdx, user, idx, removed>>
       PROVE  IdsOK'
  BY <1>3, <1>10
<1>11. ASSUME NEW e \in Entry, Expires(e) PROVE IdsOK'
  BY <1>10, <1>11 DEF Expires, userVars, historyVars, Listed
<1>12. CASE \/ ThreadChecks \/ ThreadAborts \/ ThreadWakes \/ ThreadResets \/ ThreadLocks
            \/ Poll \/ PollEnds \/ AbortConnect \/ ResetAbort \/ FreeStops
            \/ FreeSignals \/ UNCHANGED ctVars
  <2>1. UNCHANGED <<Listed, id, maxIdx, user, idx, removed>>
    BY <1>12 DEF ThreadChecks, ThreadAborts, ThreadWakes, ThreadResets, ThreadLocks, Poll,
                 PollEnds, AbortConnect, ResetAbort, FreeStops, FreeSignals, ctVars,
                 entryVars, userVars, historyVars, Listed
  <2> QED
    BY <1>10, <2>1
<1>13. CASE Reschedule \/ FreeJoins
  <2>1. Listed' \subseteq Listed /\ UNCHANGED <<id, maxIdx, user, idx, removed>>
    BY <1>13 DEF Reschedule, FreeJoins, userVars, historyVars, Listed
  <2> QED
    BY <1>10, <2>1
<1> QED
  BY <1>4, <1>5, <1>6, <1>7, <1>8, <1>9, <1>11, <1>12, <1>13
     DEF TimerNext, AddStep, TimerThread, MainLoop, FreeStep

(* A removed timer does not run again, and is not called. *)
LEMMA RemovedStep ==
    ASSUME OneAdder, ~CallbackInsists, TimerTypeOK, IdsOK, RemovedAreOff, [TimerNext]_ctVars
    PROVE  RemovedAreOff' /\ (quiet => quiet')
<1>1. EntriesOK /\ UsersOK /\ ListOK
  BY DEF TimerTypeOK
<1>2. ASSUME \A e \in Entry : state'[e] = "on" => state[e] = "on",
             UNCHANGED <<id, removed, quiet>>
      PROVE  RemovedAreOff' /\ (quiet => quiet')
  BY <1>2 DEF RemovedAreOff
<1>3. ASSUME NEW e \in Entry, RunExpiredTimer(e) \/ RunExpiredTimerOnMainloop(e)
      PROVE  RemovedAreOff' /\ (quiet => quiet')
  <2>1. CASE Expired(e) /\ RunTimerEvent(e)
    <3>1. e \in Listed /\ state[e] = "on"
      BY <1>1, <1>3, <2>1, BothVisit DEF Visits, ListOK, Expired
    <3>2. id[e] \notin removed
      BY <3>1 DEF RemovedAreOff
    <3>3. quiet => quiet'
      BY <1>1, <2>1, <3>1, <3>2, CallbackMarks
    <3>4. ASSUME NEW f \in Entry, state'[f] = "on" PROVE id'[f] \notin removed'
      <4>1. state[f] = "on" /\ f \in Listed /\ id' = id
        BY <1>1, <2>1, <3>1, <3>4, CallbackMarks DEF Listed
      <4>2. id[f] \notin removed
        BY <4>1 DEF RemovedAreOff
      <4>3. \A g \in Listed : id[f] = id[g] => g = f
        BY <4>1 DEF IdsOK
      <4>4. \A i \in removed' : i \in removed \/ \E g \in Listed : i = id[g] /\ state'[g] # "on"
        BY <1>1, <2>1, <3>1, CallbackMarks
      <4> QED
        BY <3>4, <4>1, <4>2, <4>3, <4>4
    <3> QED
      BY <3>3, <3>4 DEF RemovedAreOff
  <2>2. CASE UNCHANGED <<entryVars, historyVars>>
    BY <1>2, <2>2 DEF entryVars, historyVars
  <2> QED
    BY <1>3, <2>1, <2>2, BothVisit DEF Visits
<1>4. ASSUME NEW e \in Entry, NEW u \in User, Remove(u, e)
      PROVE  RemovedAreOff' /\ (quiet => quiet')
  <2>1. /\ state' = [state EXCEPT ![e] = "off"] /\ removed' = removed \cup {id[e]}
        /\ e \in Listed /\ UNCHANGED <<id, quiet>>
    BY <1>4 DEF Remove, Listed
  <2>2. \A f \in Entry : state'[f] = "on" => state[f] = "on" /\ f # e /\ f \in Listed
    BY <1>1, <2>1 DEF EntriesOK, Listed
  <2>3. \A f \in Listed : f # e => id[f] # id[e]
    BY <2>1 DEF IdsOK
  <2> QED
    BY <2>1, <2>2, <2>3 DEF RemovedAreOff
<1>5. ASSUME NEW u \in User, NEW e \in Entry, NEW mainloop \in BOOLEAN,
             AddAppends(u, e, mainloop)
      PROVE  RemovedAreOff' /\ (quiet => quiet')
  <2>1. /\ state' = [state EXCEPT ![e] = "on"] /\ id' = [id EXCEPT ![e] = idx[u]]
        /\ user[u] = "counted" /\ UNCHANGED <<removed, quiet>>
    BY <1>5 DEF AddAppends, historyVars
  <2>2. idx[u] \notin removed
    BY <2>1 DEF IdsOK
  <2> QED
    BY <1>1, <2>1, <2>2 DEF RemovedAreOff, EntriesOK
<1>6. ASSUME NEW u \in User, AddReads(u) \/ AddCounts(u) \/ AddSignals(u) \/ AddFails(u)
      PROVE  RemovedAreOff' /\ (quiet => quiet')
  BY <1>2, <1>6 DEF AddReads, AddCounts, AddSignals, AddFails, entryVars, historyVars
<1>7. ASSUME NEW e \in Entry, Expires(e) PROVE RemovedAreOff' /\ (quiet => quiet')
  BY <1>2, <1>7 DEF Expires, historyVars
<1>8. CASE \/ ThreadChecks \/ ThreadAborts \/ ThreadWakes \/ ThreadResets \/ ThreadLocks
           \/ Poll \/ PollEnds \/ AbortConnect \/ ResetAbort \/ FreeStops
           \/ FreeSignals \/ UNCHANGED ctVars
  <2>1. UNCHANGED <<state, id, removed, quiet>>
    BY <1>8 DEF ThreadChecks, ThreadAborts, ThreadWakes, ThreadResets, ThreadLocks, Poll,
                PollEnds, AbortConnect, ResetAbort, FreeStops, FreeSignals, ctVars,
                entryVars, historyVars
  <2> QED
    BY <1>2, <2>1
<1>9. CASE Reschedule \/ FreeJoins
  <2>1. /\ \A e \in Entry : state'[e] = "on" => state[e] = "on"
        /\ UNCHANGED <<id, removed, quiet>>
    BY <1>9 DEF Reschedule, FreeJoins, historyVars
  <2> QED
    BY <1>2, <2>1
<1> QED
  BY <1>3, <1>4, <1>5, <1>6, <1>7, <1>8, <1>9
     DEF TimerNext, AddStep, TimerThread, MainLoop, FreeStep

-----------------------------------------------------------------------------

(* For any threads, entries and number of timers: the list of              *)
(* core/timer.c is used under its lock, the timer thread never sleeps over *)
(* a timer that nobody is about to tell it of, and, as long as one thread  *)
(* adds timers, the ids of the timers in the list are distinct.            *)
THEOREM TimerInvariance == TimerSpec => []TimerInv
<1>1. TimerInit => TimerInv
  <2> SUFFICES ASSUME TimerInit PROVE TimerInv
    OBVIOUS
  <2>1. Listed = {}
    BY DEF TimerInit, Listed
  <2>2. EntriesOK /\ UsersOK
    BY <2>1, CoreTimerAssumption DEF TimerInit, EntriesOK, UsersOK
  <2>3. EventsOK /\ ListOK
    BY <2>1, CoreTimerAssumption DEF TimerInit, EventsOK, ListOK
  <2>4. TimerTypeOK
    BY <2>2, <2>3 DEF TimerInit, TimerTypeOK
  <2>5. NoTimerForgotten /\ IdsOK /\ RemovedAreOff
    BY <2>1 DEF TimerInit, NoTimerForgotten, IdsOK, RemovedAreOff
  <2> QED
    BY <2>4, <2>5 DEF TimerInv
<1>2. TimerInv /\ [TimerNext]_ctVars => TimerInv'
  <2> SUFFICES ASSUME TimerInv, [TimerNext]_ctVars PROVE TimerInv'
    OBVIOUS
  <2>1. TimerTypeOK'
    BY EntriesStep, UsersStep, EventsStep, ListStep, HistoryStep DEF TimerInv, TimerTypeOK
  <2>2. NoTimerForgotten'
    BY ForgottenStep DEF TimerInv
  <2>3. OneAdder => IdsOK'
    BY IdsStep DEF TimerInv
  <2>4. OneAdder /\ ~CallbackInsists => RemovedAreOff'
    BY RemovedStep DEF TimerInv
  <2> QED
    BY <2>1, <2>2, <2>3, <2>4 DEF TimerInv, OneAdder
<1> QED
  BY <1>1, <1>2, PTL DEF TimerSpec

(* As long as one thread adds timers and no callback that removes its own  *)
(* timer returns an interval, freerdp_timer_remove means what it says: the *)
(* callback is not called again, on either thread.                         *)
THEOREM RemovedQuiet ==
    OneAdder /\ ~CallbackInsists => (TimerSpec => []RemovedIsQuiet)
<1> SUFFICES ASSUME OneAdder, ~CallbackInsists PROVE TimerSpec => []RemovedIsQuiet
  OBVIOUS
<1>1. TimerInit => RemovedIsQuiet
  BY DEF TimerInit, RemovedIsQuiet
<1>2. TimerInv /\ RemovedIsQuiet /\ [TimerNext]_ctVars => RemovedIsQuiet'
  BY RemovedStep DEF TimerInv, RemovedIsQuiet
<1> QED
  BY <1>1, <1>2, TimerInvariance, PTL DEF TimerSpec

-----------------------------------------------------------------------------
(***************************************************************************)
(* What the streams of the connection sequence allow.                      *)
(***************************************************************************)

(* A step of the client's stream, for a message that is input and for any  *)
(* other.                                                                  *)
LEMMA UpStepIs ==
    ASSUME NEW o, NEW keys, NEW a \in Messages, NEW m \in Messages, NEW b \in Messages
    PROVE  <<a, m, b>> \in UpStep(o, keys) <=>
             IF m.type \in Noise THEN a.type \in Activating /\ b = a
             ELSE UpNext(o, keys, a, m) /\ b = m
BY DEF UpStep

(* A step of the server's stream, for an ultimatum and for any other       *)
(* message.                                                                *)
LEMMA DownStepIs ==
    ASSUME NEW o, NEW a \in Messages, NEW m \in Messages, NEW b \in Messages
    PROVE  <<a, m, b>> \in DownStep(o) <=>
             IF m.type = "Ultimatum" THEN b = a ELSE DownNext(o, a, m) /\ b = m
BY DEF DownStep

(* peer_recv_pdu on a message that has not been read, type by type.        *)
LEMMA RecvPdu ==
    ASSUME run = "unread"
    PROVE  /\ cur.type = "Sync" => PeerRecvPdu = Kept("SUCCESS", sflags \cup {"CS_SYNC"})
           /\ cur.type = "Cooperate" => PeerRecvPdu = AcceptClientControl("CS_COOPERATE", "CS_SYNC")
           /\ cur.type = "Request" => PeerRecvPdu = AcceptClientControl("CS_REQUEST", "CS_COOPERATE")
           /\ cur.type = "Keys" => PeerRecvPdu = Kept("SUCCESS", sflags \cup {"CS_KEYS"})
           /\ cur.type = "FontList" => PeerRecvPdu = AcceptFontList
           /\ cur.type = "ConfirmActive" => PeerRecvPdu = AcceptConfirmActive
           /\ cur.type = "Input" => PeerRecvPdu = Kept("SUCCESS", sflags)
           /\ cur.type = "Shutdown" =>
                PeerRecvPdu = Outcome("QUIT_SESSION", sstate, sflags, activated, <<Msg("Ultimatum", 0)>>)
           /\ cur.type \notin {"Sync", "Cooperate", "Request", "Keys", "FontList", "ConfirmActive", "Input", "Shutdown"} => PeerRecvPdu = Kept("FAILED", sflags)
<1>1. cur.type = "Sync" => PeerRecvPdu = Kept("SUCCESS", sflags \cup {"CS_SYNC"})
  BY DEF PeerRecvPdu
<1>2. cur.type = "Shutdown" =>
                PeerRecvPdu = Outcome("QUIT_SESSION", sstate, sflags, activated, <<Msg("Ultimatum", 0)>>)
  BY DEF PeerRecvPdu, Kept, Outcome
<1> QED BY <1>1, <1>2 DEF PeerRecvPdu

-----------------------------------------------------------------------------
(***************************************************************************)
(* The connection sequence: types.                                         *)
(***************************************************************************)

(* The types of what peer_recv_pdu gives back.                             *)
LEMMA RecvPduType ==
    ASSUME TypeInv
    PROVE  /\ PeerRecvPdu.rc \in {"SUCCESS", "CONTINUE", "FAILED", "QUIT_SESSION"}
           /\ PeerRecvPdu.state \in {sstate, "FINALIZATION_SYNC", "ACTIVE"}
           /\ PeerRecvPdu.flags \subseteq CSFlags \cup {Reactivation}
           /\ PeerRecvPdu.activated \in BOOLEAN
           /\ PeerRecvPdu.out \in Seq(Messages)
<1>1. \A t \in Types : Msg(t, 0) \in Messages
  BY DEF Msg, Messages
<1>2. <<Msg("Sync", 0), Msg("Cooperate", 0)>> \in Seq(Messages) /\ <<Msg("FontMap", 0)>> \in Seq(Messages)
        /\ <<Msg("Ultimatum", 0)>> \in Seq(Messages) /\ <<>> \in Seq(Messages)
  BY <1>1 DEF Types
<1>3. sflags \subseteq CSFlags \cup {Reactivation} /\ activated \in BOOLEAN
  BY DEF TypeInv, ServerOK
<1> DEFINE Good(r) == /\ r.rc \in {"SUCCESS", "CONTINUE", "FAILED", "QUIT_SESSION"}
           /\ r.state \in {sstate, "FINALIZATION_SYNC", "ACTIVE"}
           /\ r.flags \subseteq CSFlags \cup {Reactivation}
           /\ r.activated \in BOOLEAN
           /\ r.out \in Seq(Messages)
<1>4. \A rc \in {"SUCCESS", "CONTINUE", "FAILED", "QUIT_SESSION"}, fl \in SUBSET (CSFlags \cup {Reactivation}) : Good(Kept(rc, fl))
  BY <1>2, <1>3 DEF Kept, Outcome
<1>5. Good(AcceptConfirmActive)
  <2>1. CASE sstate # "CONFIRM_ACTIVE"
    BY <2>1, <1>3, <1>4 DEF AcceptConfirmActive
  <2>2. CASE sstate = "CONFIRM_ACTIVE"
    BY <2>2, <1>2, <1>3 DEF AcceptConfirmActive, Outcome
  <2> QED BY <2>1, <2>2
<1>6. Good(AcceptFontList)
  BY <1>2, <1>3 DEF AcceptFontList, Outcome, CSFlags
<1>7. \A f, g \in CSFlags : Good(AcceptClientControl(f, g))
  BY <1>3, <1>4 DEF AcceptClientControl
<1>8. Good(Outcome("QUIT_SESSION", sstate, sflags, activated, <<Msg("Ultimatum", 0)>>))
  BY <1>2, <1>3 DEF Outcome
<1>9. [Kept("QUIT_SESSION", sflags) EXCEPT !.out = <<Msg("Ultimatum", 0)>>] = Outcome("QUIT_SESSION", sstate, sflags, activated, <<Msg("Ultimatum", 0)>>)
  BY DEF Kept, Outcome
<1>10. Good(PeerRecvPdu)
  <2> HIDE DEF Good
  <2>1. PeerRecvPdu \in {Kept("FAILED", sflags), Kept("SUCCESS", sflags \cup {"CS_SYNC"}), AcceptClientControl("CS_COOPERATE", "CS_SYNC"),
       AcceptClientControl("CS_REQUEST", "CS_COOPERATE"), Kept("SUCCESS", sflags \cup {"CS_KEYS"}), AcceptFontList, AcceptConfirmActive, Kept("SUCCESS", sflags),
       Outcome("QUIT_SESSION", sstate, sflags, activated, <<Msg("Ultimatum", 0)>>)}
    BY <1>9 DEF PeerRecvPdu
  <2> QED BY <2>1, <1>3, <1>4, <1>5, <1>6, <1>7, <1>8 DEF CSFlags
<1> QED BY <1>10

(* The end of a pass over the state machine leaves the current message     *)
(* well typed.                                                             *)
LEMMA FinishType ==
    ASSUME TypeInv, NEW rc, NEW rd \in BOOLEAN, Finish(rc, rd), run # "idle"
    PROVE  CurrentOK'
<1>1. NoMsg \in Messages
  BY DEF NoMsg, Msg, Messages, Types
<1>2. (run' \in {"idle", "unread", "read"} /\ cur' \in Messages /\ (run' = "idle" => cur' = NoMsg))
  BY <1>1 DEF TypeInv, CurrentOK, Finish
<1>3. sclosed' \in BOOLEAN /\ unheard' \in BOOLEAN
  BY DEF TypeInv, CurrentOK, Finish
<1> QED BY <1>2, <1>3 DEF CurrentOK

(* The typing of the proof is finer than the one the model states.         *)
LEMMA TypeInvGives == TypeInv => PeerTypeOK
<1> SUFFICES ASSUME TypeInv PROVE PeerTypeOK
  OBVIOUS
<1>1. \A m \in Messages : m.type \in Types /\ m.n \in Nat
  BY DEF Messages
<1>2. \A q \in {c2s, s2c} : \A i \in DOMAIN q : q[i].type \in Types /\ q[i].n \in Nat
  BY <1>1 DEF TypeInv, StreamsOK
<1>3. run \in {"idle", "unread", "read"} /\ cur.type \in Types /\ (run = "idle" => cur = NoMsg)
  BY <1>1 DEF TypeInv, CurrentOK
<1>4. {connected, activated, sclosed, layoutPdu, cclosed, unheard} \subseteq BOOLEAN
  BY DEF TypeInv, ServerOK, CurrentOK, ClientOK
<1>5. {cdemand, demanded, confirmed, listed, posted} \subseteq Nat
  BY DEF TypeInv, CountsOK, ClientOK
<1> QED
  BY <1>2, <1>3, <1>4, <1>5 DEF PeerTypeOK, TypeInv, ServerOK, ClientOK

(* A type and a number make a message.                                     *)
LEMMA MsgType == \A t \in Types, k \in Nat : Msg(t, k) \in Messages
BY DEF Msg, Messages

(* The four states in which the server only waits for one PDU, and what it *)
(* does then.                                                              *)
LEMMA WaitsIs ==
    /\ DOMAIN Waits = {"NEGO", "MCS_CREATE_REQUEST", "MCS_ERECT_DOMAIN", "MCS_ATTACH_USER"}
    /\ Waits["NEGO"] = Wait("NegoRequest", "MCS_CREATE_REQUEST", <<Msg("NegoConfirm", 0)>>)
    /\ Waits["MCS_CREATE_REQUEST"] =
         Wait("ConnectInitial", "MCS_ERECT_DOMAIN", <<Msg("ConnectResponse", 0)>>)
    /\ Waits["MCS_ERECT_DOMAIN"] = Wait("ErectDomain", "MCS_ATTACH_USER", <<>>)
    /\ Waits["MCS_ATTACH_USER"] =
         Wait("AttachUser", IF opts.skipJoin THEN "RDP_SECURITY_COMMENCEMENT"
                            ELSE "MCS_CHANNEL_JOIN_REQUEST", <<Msg("AttachConfirm", 0)>>)
BY DEF Waits

(* The fields of such a wait.                                              *)
LEMMA WaitIs ==
    ASSUME NEW pdu, NEW next, NEW out
    PROVE  /\ Wait(pdu, next, out).pdu = pdu /\ Wait(pdu, next, out).next = next
           /\ Wait(pdu, next, out).out = out
BY DEF Wait

(* The tables lead to states of the connection, and send messages.         *)
LEMMA StatesType ==
    /\ \A st \in DOMAIN PassOn : PassOn[st] \in States
    /\ \A st \in DOMAIN Waits : Waits[st].next \in States /\ Waits[st].out \in Seq(Messages)
<1>1. \A st \in DOMAIN PassOn : PassOn[st] \in States
  BY DEF PassOn, States
<1>2. <<>> \in Seq(Messages) /\ <<Msg("NegoConfirm", 0)>> \in Seq(Messages)
        /\ <<Msg("ConnectResponse", 0)>> \in Seq(Messages) /\ <<Msg("AttachConfirm", 0)>> \in Seq(Messages)
  BY MsgType DEF Types
<1>3. {"MCS_CREATE_REQUEST", "MCS_ERECT_DOMAIN", "MCS_ATTACH_USER", "RDP_SECURITY_COMMENCEMENT", "MCS_CHANNEL_JOIN_REQUEST"} \subseteq States
  BY DEF States
<1>4. \A st \in DOMAIN Waits : Waits[st].next \in States 
  BY <1>3, WaitsIs, WaitIs
<1>5. \A st \in DOMAIN Waits : Waits[st].out \in Seq(Messages)
  <2>1. /\ Waits["NEGO"].out \in Seq(Messages) /\ Waits["MCS_CREATE_REQUEST"].out \in Seq(Messages)
        /\ Waits["MCS_ERECT_DOMAIN"].out \in Seq(Messages) /\ Waits["MCS_ATTACH_USER"].out \in Seq(Messages)
    <3>1. /\ Waits["NEGO"].out = <<Msg("NegoConfirm", 0)>>
          /\ Waits["MCS_CREATE_REQUEST"].out = <<Msg("ConnectResponse", 0)>>
          /\ Waits["MCS_ERECT_DOMAIN"].out = <<>>
          /\ Waits["MCS_ATTACH_USER"].out = <<Msg("AttachConfirm", 0)>>
      BY DEF Waits, Wait
    <3> QED BY <3>1, <1>2, Zenon
  <2> QED BY <2>1, WaitsIs, Zenon
<1> QED BY <1>1, <1>4, <1>5

(* Every step of the peer, and a resize, keeps the types.                  *)
LEMMA ServerTypes ==
    ASSUME TypeInv, PeerStep \/ DesktopResize, joined' \subseteq 1 .. NChannels
    PROVE  TypeInv'
<1> USE DEF TypeInv, clientVars, answers, history, budget
<1>1. ASSUME NEW st \in States, TransitionTo(st) PROVE sstate' \in States /\ activated' \in BOOLEAN
  BY <1>1 DEF TransitionTo, ServerOK
<1>2. \A t \in Types, k \in Nat : Append(s2c, Msg(t, k)) \in Seq(Messages)
  BY MsgType DEF StreamsOK
<1>3. {"SECURE_SETTINGS_EXCHANGE", "AUTO_DETECT_REQUEST", "MULTITRANSPORT_REQUEST", "MONITOR_LAYOUT", "CONFIRM_ACTIVE",
       "RDP_SECURITY_COMMENCEMENT", "MCS_CHANNEL_JOIN_REQUEST", "ACTIVE",
       "FINALIZATION_SYNC", "FINALIZATION_COOPERATE", "FINALIZATION_REQUEST_CONTROL",
       "FINALIZATION_PERSISTENT_KEY_LIST", "FINALIZATION_FONT_LIST"} \subseteq States
  BY DEF States, FinalizationStates
<1>4. {"JoinConfirm", "License", "DemandActive", "MonitorLayout", "DeactivateAll", "Granted"} \subseteq Types
  BY DEF Types
<1>5. CASE PeerBegin
  <2>1. Head(c2s) \in Messages /\ Tail(c2s) \in Seq(Messages)
    BY <1>5 DEF PeerBegin, StreamsOK
  <2> QED BY <1>5, <2>1 DEF PeerBegin, StreamsOK, ServerOK, CurrentOK, ClientOK, CountsOK

<1>6. CASE PeerPassOn
  <2>1. sstate' \in States /\ activated' \in BOOLEAN
    BY <1>6, <1>1, <1>3, StatesType DEF PeerPassOn, ServerOK
  <2>2. StreamsOK'
    BY <1>6, <1>2, <1>4, StatesType DEF PeerPassOn, StreamsOK, ServerOK, CountsOK, CurrentOK, Messages
  <2>3. CurrentOK'
    BY <1>6, FinishType DEF PeerPassOn, Running
  <2>4. ServerOK' /\ ClientOK' /\ CountsOK' /\ UNCHANGED <<opts, resizer>>
    BY <1>6, <2>1 DEF PeerPassOn, ServerOK, ClientOK, CountsOK
  <2> QED BY <2>2, <2>3, <2>4
<1>7. CASE PeerWaits
  <2>1. sstate' \in States /\ activated' \in BOOLEAN
    BY <1>7, <1>1, <1>3, StatesType DEF PeerWaits, ServerOK
  <2>2. StreamsOK'
    <3>1. s2c \o Waits[sstate].out \in Seq(Messages)
      BY <1>7, StatesType DEF PeerWaits, StreamsOK
    <3> QED BY <1>7, <3>1 DEF PeerWaits, StreamsOK
  <2>3. CurrentOK'
    BY <1>7, FinishType DEF PeerWaits, Running
  <2>4. ServerOK' /\ ClientOK' /\ CountsOK' /\ UNCHANGED <<opts, resizer>>
    BY <1>7, <2>1 DEF PeerWaits, ServerOK, ClientOK, CountsOK
  <2> QED BY <2>2, <2>3, <2>4
<1>8. CASE PeerJoin
  <2>1. sstate' \in States /\ activated' \in BOOLEAN
    BY <1>8, <1>1, <1>3, StatesType DEF PeerJoin, ServerOK
  <2>2. StreamsOK'
    BY <1>8, <1>2, <1>4, StatesType DEF PeerJoin, StreamsOK, ServerOK, CountsOK, CurrentOK, Messages
  <2>3. CurrentOK'
    BY <1>8, FinishType DEF PeerJoin, Running
  <2>4. ServerOK' /\ ClientOK' /\ CountsOK' /\ UNCHANGED <<opts, resizer>>
    BY <1>8, <2>1 DEF PeerJoin, ServerOK, ClientOK, CountsOK
  <2> QED BY <2>2, <2>3, <2>4
<1>9. CASE PeerSecurity
  <2>1. sstate' \in States /\ activated' \in BOOLEAN
    BY <1>9, <1>1, <1>3, StatesType DEF PeerSecurity, ServerOK
  <2>2. StreamsOK'
    BY <1>9, <1>2, <1>4, StatesType DEF PeerSecurity, StreamsOK, ServerOK, CountsOK, CurrentOK, Messages
  <2>3. CurrentOK'
    BY <1>9, FinishType DEF PeerSecurity, Running
  <2>4. ServerOK' /\ ClientOK' /\ CountsOK' /\ UNCHANGED <<opts, resizer>>
    BY <1>9, <2>1 DEF PeerSecurity, ServerOK, ClientOK, CountsOK
  <2> QED BY <2>2, <2>3, <2>4
<1>10. CASE PeerClientInfo
  <2>1. sstate' \in States /\ activated' \in BOOLEAN
    BY <1>10, <1>1, <1>3, StatesType DEF PeerClientInfo, ServerOK
  <2>2. StreamsOK'
    BY <1>10, <1>2, <1>4, StatesType DEF PeerClientInfo, StreamsOK, ServerOK, CountsOK, CurrentOK, Messages
  <2>3. CurrentOK'
    BY <1>10, FinishType DEF PeerClientInfo, Running
  <2>4. ServerOK' /\ ClientOK' /\ CountsOK' /\ UNCHANGED <<opts, resizer>>
    BY <1>10, <2>1 DEF PeerClientInfo, ServerOK, ClientOK, CountsOK
  <2> QED BY <2>2, <2>3, <2>4
<1>11. CASE PeerLicensing
  <2>1. sstate' \in States /\ activated' \in BOOLEAN
    BY <1>11, <1>1, <1>3, StatesType DEF PeerLicensing, ServerOK
  <2>2. StreamsOK'
    BY <1>11, <1>2, <1>4, StatesType DEF PeerLicensing, StreamsOK, ServerOK, CountsOK, CurrentOK, Messages
  <2>3. CurrentOK'
    BY <1>11, FinishType DEF PeerLicensing, Running
  <2>4. ServerOK' /\ ClientOK' /\ CountsOK' /\ UNCHANGED <<opts, resizer>>
    BY <1>11, <2>1 DEF PeerLicensing, ServerOK, ClientOK, CountsOK
  <2> QED BY <2>2, <2>3, <2>4
<1>12. CASE PeerDemandActive
  <2>1. sstate' \in States /\ activated' \in BOOLEAN
    BY <1>12, <1>1, <1>3, StatesType DEF PeerDemandActive, ServerOK
  <2>2. StreamsOK'
    BY <1>12, <1>2, <1>4, StatesType DEF PeerDemandActive, StreamsOK, ServerOK, CountsOK, CurrentOK, Messages
  <2>3. CurrentOK'
    BY <1>12, FinishType DEF PeerDemandActive, Running
  <2>4. ServerOK' /\ ClientOK' /\ CountsOK' /\ UNCHANGED <<opts, resizer>>
    BY <1>12, <2>1 DEF PeerDemandActive, ServerOK, ClientOK, CountsOK
  <2> QED BY <2>2, <2>3, <2>4
<1>13. CASE PeerMonitorLayout
  <2>1. sstate' \in States /\ activated' \in BOOLEAN
    BY <1>13, <1>1, <1>3, StatesType DEF PeerMonitorLayout, ServerOK
  <2>2. StreamsOK'
    BY <1>13, <1>2, <1>4, StatesType DEF PeerMonitorLayout, StreamsOK, ServerOK, CountsOK, CurrentOK, Messages
  <2>3. CurrentOK'
    BY <1>13, FinishType DEF PeerMonitorLayout, Running
  <2>4. ServerOK' /\ ClientOK' /\ CountsOK' /\ UNCHANGED <<opts, resizer>>
    BY <1>13, <2>1 DEF PeerMonitorLayout, ServerOK, ClientOK, CountsOK
  <2> QED BY <2>2, <2>3, <2>4
<1>14. CASE PeerFinalizationNoKeys
  <2>1. sstate' \in States /\ activated' \in BOOLEAN
    BY <1>14, <1>1, <1>3, StatesType DEF PeerFinalizationNoKeys, ServerOK
  <2>2. StreamsOK'
    BY <1>14, <1>2, <1>4, StatesType DEF PeerFinalizationNoKeys, StreamsOK, ServerOK, CountsOK, CurrentOK, Messages
  <2>3. CurrentOK'
    BY <1>14, FinishType DEF PeerFinalizationNoKeys, Running
  <2>4. ServerOK' /\ ClientOK' /\ CountsOK' /\ UNCHANGED <<opts, resizer>>
    BY <1>14, <2>1 DEF PeerFinalizationNoKeys, ServerOK, ClientOK, CountsOK
  <2> QED BY <2>2, <2>3, <2>4
<1>15. CASE PeerConfirmActive
  <2>1. sstate' \in States /\ activated' \in BOOLEAN
    BY <1>15, <1>3, RecvPduType DEF PeerConfirmActive, ServerOK
  <2>2. StreamsOK'
    BY <1>15, <1>2, <1>4, RecvPduType, MsgType DEF PeerConfirmActive, StreamsOK
  <2>3. CurrentOK'
    BY <1>15, FinishType DEF PeerConfirmActive, Running
  <2>4. sflags' \in SUBSET (CSFlags \cup {Reactivation}) /\ UNCHANGED <<opts, resizer, joined, connected, demanded, posted, shutdowns, cstate, cflags, layoutPdu, cclosed, cdemand>>
    BY <1>15, RecvPduType DEF PeerConfirmActive
  <2>5. confirmed' \in Nat /\ listed' \in Nat
    BY <1>15 DEF PeerConfirmActive, Recorded, CountsOK, CurrentOK, Messages
  <2> QED BY <2>1, <2>2, <2>3, <2>4, <2>5 DEF ServerOK, ClientOK, CountsOK
<1>16. CASE PeerFinalizationSync
  <2>1. sstate' \in States /\ activated' \in BOOLEAN
    BY <1>16, <1>3, RecvPduType DEF PeerFinalizationSync, ServerOK, Finalization
  <2>2. StreamsOK'
    BY <1>16, <1>2, <1>4, RecvPduType, MsgType DEF PeerFinalizationSync, StreamsOK, Finalization
  <2>3. CurrentOK'
    BY <1>16, FinishType DEF PeerFinalizationSync, Running, Finalization
  <2>4. sflags' \in SUBSET (CSFlags \cup {Reactivation}) /\ UNCHANGED <<opts, resizer, joined, connected, demanded, posted, shutdowns, cstate, cflags, layoutPdu, cclosed, cdemand>>
    BY <1>16, RecvPduType DEF PeerFinalizationSync, Finalization
  <2>5. confirmed' \in Nat /\ listed' \in Nat
    BY <1>16 DEF PeerFinalizationSync, Recorded, CountsOK, CurrentOK, Messages, Finalization
  <2> QED BY <2>1, <2>2, <2>3, <2>4, <2>5 DEF ServerOK, ClientOK, CountsOK
<1>17. CASE PeerFinalizationCooperate
  <2>1. sstate' \in States /\ activated' \in BOOLEAN
    BY <1>17, <1>3, RecvPduType DEF PeerFinalizationCooperate, ServerOK, Finalization
  <2>2. StreamsOK'
    BY <1>17, <1>2, <1>4, RecvPduType, MsgType DEF PeerFinalizationCooperate, StreamsOK, Finalization
  <2>3. CurrentOK'
    BY <1>17, FinishType DEF PeerFinalizationCooperate, Running, Finalization
  <2>4. sflags' \in SUBSET (CSFlags \cup {Reactivation}) /\ UNCHANGED <<opts, resizer, joined, connected, demanded, posted, shutdowns, cstate, cflags, layoutPdu, cclosed, cdemand>>
    BY <1>17, RecvPduType DEF PeerFinalizationCooperate, Finalization
  <2>5. confirmed' \in Nat /\ listed' \in Nat
    BY <1>17 DEF PeerFinalizationCooperate, Recorded, CountsOK, CurrentOK, Messages, Finalization
  <2> QED BY <2>1, <2>2, <2>3, <2>4, <2>5 DEF ServerOK, ClientOK, CountsOK
<1>18. CASE PeerFinalizationRequestControl
  <2>1. sstate' \in States /\ activated' \in BOOLEAN
    BY <1>18, <1>3, RecvPduType DEF PeerFinalizationRequestControl, ServerOK, Finalization
  <2>2. StreamsOK'
    BY <1>18, <1>2, <1>4, RecvPduType, MsgType DEF PeerFinalizationRequestControl, StreamsOK, Finalization
  <2>3. CurrentOK'
    BY <1>18, FinishType DEF PeerFinalizationRequestControl, Running, Finalization
  <2>4. sflags' \in SUBSET (CSFlags \cup {Reactivation}) /\ UNCHANGED <<opts, resizer, joined, connected, demanded, posted, shutdowns, cstate, cflags, layoutPdu, cclosed, cdemand>>
    BY <1>18, RecvPduType DEF PeerFinalizationRequestControl, Finalization
  <2>5. confirmed' \in Nat /\ listed' \in Nat
    BY <1>18 DEF PeerFinalizationRequestControl, Recorded, CountsOK, CurrentOK, Messages, Finalization
  <2> QED BY <2>1, <2>2, <2>3, <2>4, <2>5 DEF ServerOK, ClientOK, CountsOK
<1>19. CASE PeerFinalizationKeys
  <2>1. sstate' \in States /\ activated' \in BOOLEAN
    BY <1>19, <1>3, RecvPduType DEF PeerFinalizationKeys, ServerOK, Finalization
  <2>2. StreamsOK'
    BY <1>19, <1>2, <1>4, RecvPduType, MsgType DEF PeerFinalizationKeys, StreamsOK, Finalization
  <2>3. CurrentOK'
    BY <1>19, FinishType DEF PeerFinalizationKeys, Running, Finalization
  <2>4. sflags' \in SUBSET (CSFlags \cup {Reactivation}) /\ UNCHANGED <<opts, resizer, joined, connected, demanded, posted, shutdowns, cstate, cflags, layoutPdu, cclosed, cdemand>>
    BY <1>19, RecvPduType DEF PeerFinalizationKeys, Finalization
  <2>5. confirmed' \in Nat /\ listed' \in Nat
    BY <1>19 DEF PeerFinalizationKeys, Recorded, CountsOK, CurrentOK, Messages, Finalization
  <2> QED BY <2>1, <2>2, <2>3, <2>4, <2>5 DEF ServerOK, ClientOK, CountsOK
<1>20. CASE PeerFinalizationFontList
  <2>1. sstate' \in States /\ activated' \in BOOLEAN
    BY <1>20, <1>3, RecvPduType DEF PeerFinalizationFontList, ServerOK
  <2>2. StreamsOK'
    BY <1>20, <1>2, <1>4, RecvPduType, MsgType DEF PeerFinalizationFontList, StreamsOK
  <2>3. CurrentOK'
    BY <1>20, FinishType DEF PeerFinalizationFontList, Running
  <2>4. sflags' \in SUBSET (CSFlags \cup {Reactivation}) /\ UNCHANGED <<opts, resizer, joined, connected, demanded, posted, shutdowns, cstate, cflags, layoutPdu, cclosed, cdemand>>
    BY <1>20, RecvPduType DEF PeerFinalizationFontList
  <2>5. confirmed' \in Nat /\ listed' \in Nat
    BY <1>20 DEF PeerFinalizationFontList, Recorded, CountsOK, CurrentOK, Messages
  <2> QED BY <2>1, <2>2, <2>3, <2>4, <2>5 DEF ServerOK, ClientOK, CountsOK
<1>21. CASE PeerActive
  <2>1. sstate' \in States /\ activated' \in BOOLEAN
    BY <1>21, <1>3, RecvPduType DEF PeerActive, ServerOK
  <2>2. StreamsOK'
    BY <1>21, <1>2, <1>4, RecvPduType, MsgType DEF PeerActive, StreamsOK
  <2>3. CurrentOK'
    BY <1>21, FinishType DEF PeerActive, Running
  <2>4. sflags' \in SUBSET (CSFlags \cup {Reactivation}) /\ UNCHANGED <<opts, resizer, joined, connected, demanded, posted, shutdowns, cstate, cflags, layoutPdu, cclosed, cdemand>>
    BY <1>21, RecvPduType DEF PeerActive
  <2>5. confirmed' \in Nat /\ listed' \in Nat
    BY <1>21 DEF PeerActive, Recorded, CountsOK, CurrentOK, Messages
  <2> QED BY <2>1, <2>2, <2>3, <2>4, <2>5 DEF ServerOK, ClientOK, CountsOK
<1>22. CASE PeerActivate
  <2>1. StreamsOK'
    BY <1>22, <1>4, MsgType DEF PeerActivate, PeerActivates, StreamsOK, CountsOK
  <2>2. CurrentOK'
    BY <1>22, FinishType DEF PeerActivate, PeerActivates, Running
  <2>3. sstate' \in States /\ sflags' \in SUBSET (CSFlags \cup {Reactivation}) /\ connected' \in BOOLEAN /\ activated' \in BOOLEAN
    BY <1>22, <1>3 DEF PeerActivate, PeerActivates, ServerOK
  <2>4. demanded' \in Nat /\ posted' \in Nat
    BY <1>22 DEF PeerActivate, PeerActivates, CountsOK
  <2> QED BY <1>22, <2>1, <2>2, <2>3, <2>4 DEF PeerActivate, PeerActivates, ServerOK, ClientOK, CountsOK
<1>23. CASE PeerActivateResizes
  <2>1. StreamsOK'
    BY <1>23, <1>4, MsgType DEF PeerActivateResizes, PeerActivates, StreamsOK, CountsOK, Reactivate
  <2>2. CurrentOK'
    BY <1>23, FinishType DEF PeerActivateResizes, PeerActivates, Running
  <2>3. sstate' \in States /\ sflags' \in SUBSET (CSFlags \cup {Reactivation}) /\ connected' \in BOOLEAN /\ activated' \in BOOLEAN
    BY <1>23, <1>3 DEF PeerActivateResizes, PeerActivates, ServerOK, Reactivate
  <2>4. demanded' \in Nat /\ posted' \in Nat
    BY <1>23 DEF PeerActivateResizes, PeerActivates, CountsOK, Reactivate
  <2> QED BY <1>23, <2>1, <2>2, <2>3, <2>4 DEF PeerActivateResizes, PeerActivates, ServerOK, ClientOK, CountsOK
<1>24. CASE PeerPostConnectResizes
  <2>1. StreamsOK'
    BY <1>24, <1>4, MsgType DEF PeerPostConnectResizes, PeerActivates, StreamsOK, CountsOK, Reactivate
  <2>2. CurrentOK'
    BY <1>24, FinishType DEF PeerPostConnectResizes, PeerActivates, Running
  <2>3. sstate' \in States /\ sflags' \in SUBSET (CSFlags \cup {Reactivation}) /\ connected' \in BOOLEAN /\ activated' \in BOOLEAN
    BY <1>24, <1>3 DEF PeerPostConnectResizes, PeerActivates, ServerOK, Reactivate
  <2>4. demanded' \in Nat /\ posted' \in Nat
    BY <1>24 DEF PeerPostConnectResizes, PeerActivates, CountsOK, Reactivate
  <2> QED BY <1>24, <2>1, <2>2, <2>3, <2>4 DEF PeerPostConnectResizes, PeerActivates, ServerOK, ClientOK, CountsOK
<1>25. CASE DesktopResize
  <2>1. StreamsOK'
    BY <1>25, <1>4, MsgType DEF DesktopResize, StreamsOK, CountsOK, Reactivate
  <2>2. sstate' \in States /\ demanded' \in Nat
    BY <1>25, <1>3 DEF DesktopResize, Reactivate, CountsOK
  <2>4. activated' \in BOOLEAN
    BY <1>25 DEF DesktopResize
  <2>3. sflags' \in SUBSET (CSFlags \cup {Reactivation})
    BY <1>25 DEF DesktopResize, ServerOK, Reactivate
  <2> QED BY <1>25, <2>1, <2>2, <2>3, <2>4 DEF DesktopResize, ServerOK, CurrentOK, ClientOK, CountsOK
<1>26. CASE PeerTransportFails
  BY <1>26 DEF PeerTransportFails, StreamsOK, ServerOK, CurrentOK, ClientOK, CountsOK
<1> QED BY <1>5, <1>6, <1>7, <1>8, <1>9, <1>10, <1>11, <1>12, <1>13, <1>14, <1>15, <1>16, <1>17, <1>18, <1>19, <1>20, <1>21, <1>22, <1>23, <1>24, <1>25, <1>26 DEF PeerStep

(* What the client sends after the channels are joined is a sequence of    *)
(* messages.                                                               *)
LEMMA ClientInfoType == ClientInfo \in Seq(Messages)
<1>1. <<Msg("SecurityExchange", 0)>> \in Seq(Messages) /\ <<Msg("ClientInfo", 0)>> \in Seq(Messages)
        /\ <<>> \in Seq(Messages)
  BY MsgType DEF Types
<1> QED BY <1>1 DEF ClientInfo

(* Every step of the client keeps the types.                               *)
LEMMA ClientTypes ==
    ASSUME TypeInv, ClientStepAny \/ ClientInput \/ ClientShutdown
    PROVE  TypeInv'
<1> USE DEF TypeInv, serverVars, clientVars, answers, history, budget
<1>1. ASSUME NEW rest \in Seq(Messages), NEW out \in Seq(Messages), ClientStep(rest, out)
      PROVE  StreamsOK' /\ ServerOK' /\ CurrentOK' /\ CountsOK' /\ UNCHANGED <<opts, resizer>>
  BY <1>1 DEF ClientStep, StreamsOK, ServerOK, CurrentOK, CountsOK
<1>2. s2c \in Seq(Messages) /\ c2s \in Seq(Messages) /\ <<>> \in Seq(Messages)
        /\ (s2c # <<>> => Tail(s2c) \in Seq(Messages) /\ Head(s2c) \in Messages)
  BY DEF StreamsOK
<1>3. {"ConnectInitial", "ErectDomain", "AttachUser", "JoinRequest", "ConfirmActive", "Sync", "Cooperate", "Request", "Keys",
       "FontList", "Input", "Shutdown"} \subseteq Types
  BY DEF Types
<1>4. {"MCS_CREATE_RESPONSE", "MCS_ATTACH_USER_CONFIRM", "AUTO_DETECT_REQUEST", "MCS_CHANNEL_JOIN_RESPONSE", "LICENSING",
       "DEMAND_ACTIVE", "MULTITRANSPORT_REQUEST", "CONFIRM_ACTIVE", "MONITOR_LAYOUT", "ACTIVE",
       "FINALIZATION_SYNC", "FINALIZATION_COOPERATE", "FINALIZATION_REQUEST_CONTROL",
       "FINALIZATION_PERSISTENT_KEY_LIST", "FINALIZATION_FONT_LIST", "FINALIZATION_CLIENT_SYNC", "FINALIZATION_CLIENT_COOPERATE",
       "FINALIZATION_CLIENT_GRANTED_CONTROL", "FINALIZATION_CLIENT_FONT_MAP"} \subseteq States
  BY DEF States, FinalizationStates, ClientFinalizationStates
<1>5. \A t \in Types, k \in Nat : <<Msg(t, k)>> \in Seq(Messages)
  BY MsgType
<1>6. \A m \in Messages : m.n \in Nat
  BY DEF Messages
<1>7. cstate \in States /\ cflags \in SUBSET (SCFlags \cup {Reactivation}) /\ layoutPdu \in BOOLEAN
        /\ cclosed \in BOOLEAN /\ cdemand \in Nat
  BY DEF ClientOK
<1>8. \A m \in Messages : LET r == ClientRecvPdu(m) IN
        /\ r.state \in {cstate, "DEMAND_ACTIVE"} /\ r.flags \in SUBSET (SCFlags \cup {Reactivation})
        /\ r.layout \in BOOLEAN /\ r.ok \in BOOLEAN
  <2> SUFFICES ASSUME NEW m \in Messages PROVE LET r == ClientRecvPdu(m) IN
        /\ r.state \in {cstate, "DEMAND_ACTIVE"} /\ r.flags \in SUBSET (SCFlags \cup {Reactivation})
        /\ r.layout \in BOOLEAN /\ r.ok \in BOOLEAN
    OBVIOUS
  <2>1. ClientRecvPdu(m).state \in {cstate, "DEMAND_ACTIVE"}
    BY DEF ClientRecvPdu
  <2>2. m.type \in DOMAIN FlagOf => FlagOf[m.type] \in SCFlags
    BY DEF FlagOf, SCFlags
  <2>3. ClientRecvPdu(m).flags \in SUBSET (SCFlags \cup {Reactivation})
    BY <1>7, <2>2 DEF ClientRecvPdu
  <2>4. ClientRecvPdu(m).layout \in BOOLEAN /\ ClientRecvPdu(m).ok \in BOOLEAN
    BY <1>7, Zenon DEF ClientRecvPdu
  <2> QED BY <2>1, <2>3, <2>4

<1>9. CASE ClientNego
  <2>1. Tail(s2c) \in Seq(Messages)
    BY <1>9, <1>2 DEF ClientNego, Got
  <2>2. <<Msg("ConnectInitial", 0)>> \in Seq(Messages)
    BY <1>9, <1>2, <1>3, <1>5, <1>6, <1>7, ClientInfoType, MsgType DEF ClientNego, Got
  <2>3. StreamsOK' /\ ServerOK' /\ CurrentOK' /\ CountsOK' /\ UNCHANGED <<opts, resizer>>
    BY <1>9, <1>1, <2>1, <2>2 DEF ClientNego
  <2>4. ClientOK'
    BY <1>9, <1>2, <1>4, <1>6, <1>7, <1>8 DEF ClientNego, Got, ClientOK
  <2> QED BY <2>3, <2>4
<1>10. CASE ClientConnectResponse
  <2>1. Tail(s2c) \in Seq(Messages)
    BY <1>10, <1>2 DEF ClientConnectResponse, Got
  <2>2. <<Msg("ErectDomain", 0), Msg("AttachUser", 0)>> \in Seq(Messages)
    BY <1>10, <1>2, <1>3, <1>5, <1>6, <1>7, ClientInfoType, MsgType DEF ClientConnectResponse, Got
  <2>3. StreamsOK' /\ ServerOK' /\ CurrentOK' /\ CountsOK' /\ UNCHANGED <<opts, resizer>>
    BY <1>10, <1>1, <2>1, <2>2 DEF ClientConnectResponse
  <2>4. ClientOK'
    BY <1>10, <1>2, <1>4, <1>6, <1>7, <1>8 DEF ClientConnectResponse, Got, ClientOK
  <2> QED BY <2>3, <2>4
<1>11. CASE ClientAttachConfirm
  <2>1. Tail(s2c) \in Seq(Messages)
    BY <1>11, <1>2 DEF ClientAttachConfirm, Got
  <2>2. (IF opts.skipJoin THEN ClientInfo ELSE <<Msg("JoinRequest", 1)>>) \in Seq(Messages)
    BY <1>11, <1>2, <1>3, <1>5, <1>6, <1>7, ClientInfoType, MsgType DEF ClientAttachConfirm, Got
  <2>3. StreamsOK' /\ ServerOK' /\ CurrentOK' /\ CountsOK' /\ UNCHANGED <<opts, resizer>>
    BY <1>11, <1>1, <2>1, <2>2 DEF ClientAttachConfirm
  <2>4. ClientOK'
    BY <1>11, <1>2, <1>4, <1>6, <1>7, <1>8 DEF ClientAttachConfirm, Got, ClientOK
  <2> QED BY <2>3, <2>4
<1>12. CASE ClientJoinConfirm
  <2>1. Tail(s2c) \in Seq(Messages)
    BY <1>12, <1>2 DEF ClientJoinConfirm, Got
  <2>2. (IF Head(s2c).n < NChannels THEN <<Msg("JoinRequest", Head(s2c).n + 1)>> ELSE ClientInfo) \in Seq(Messages)
    BY <1>12, <1>2, <1>3, <1>5, <1>6, <1>7, ClientInfoType, MsgType DEF ClientJoinConfirm, Got
  <2>3. StreamsOK' /\ ServerOK' /\ CurrentOK' /\ CountsOK' /\ UNCHANGED <<opts, resizer>>
    BY <1>12, <1>1, <2>1, <2>2 DEF ClientJoinConfirm
  <2>4. ClientOK'
    BY <1>12, <1>2, <1>4, <1>6, <1>7, <1>8 DEF ClientJoinConfirm, Got, ClientOK
  <2> QED BY <2>3, <2>4
<1>13. CASE ClientTryAgain
  <2>1. s2c \in Seq(Messages)
    BY <1>13, <1>2 DEF ClientTryAgain, Got
  <2>2. <<>> \in Seq(Messages)
    BY <1>13, <1>2, <1>3, <1>5, <1>6, <1>7, ClientInfoType, MsgType DEF ClientTryAgain, Got
  <2>3. StreamsOK' /\ ServerOK' /\ CurrentOK' /\ CountsOK' /\ UNCHANGED <<opts, resizer>>
    BY <1>13, <1>1, <2>1, <2>2 DEF ClientTryAgain
  <2>4. ClientOK'
    BY <1>13, <1>2, <1>4, <1>6, <1>7, <1>8 DEF ClientTryAgain, Got, ClientOK
  <2> QED BY <2>3, <2>4
<1>14. CASE ClientLicense
  <2>1. Tail(s2c) \in Seq(Messages)
    BY <1>14, <1>2 DEF ClientLicense, Got
  <2>2. <<>> \in Seq(Messages)
    BY <1>14, <1>2, <1>3, <1>5, <1>6, <1>7, ClientInfoType, MsgType DEF ClientLicense, Got
  <2>3. StreamsOK' /\ ServerOK' /\ CurrentOK' /\ CountsOK' /\ UNCHANGED <<opts, resizer>>
    BY <1>14, <1>1, <2>1, <2>2 DEF ClientLicense
  <2>4. ClientOK'
    BY <1>14, <1>2, <1>4, <1>6, <1>7, <1>8 DEF ClientLicense, Got, ClientOK
  <2> QED BY <2>3, <2>4
<1>15. CASE ClientDemandActive
  <2>1. Tail(s2c) \in Seq(Messages)
    BY <1>15, <1>2 DEF ClientDemandActive, Got
  <2>2. <<>> \in Seq(Messages)
    BY <1>15, <1>2, <1>3, <1>5, <1>6, <1>7, ClientInfoType, MsgType DEF ClientDemandActive, Got
  <2>3. StreamsOK' /\ ServerOK' /\ CurrentOK' /\ CountsOK' /\ UNCHANGED <<opts, resizer>>
    BY <1>15, <1>1, <2>1, <2>2 DEF ClientDemandActive
  <2>4. ClientOK'
    BY <1>15, <1>2, <1>4, <1>6, <1>7, <1>8 DEF ClientDemandActive, Got, ClientOK
  <2> QED BY <2>3, <2>4
<1>16. CASE ClientConfirmActive
  <2>1. s2c \in Seq(Messages)
    BY <1>16, <1>2 DEF ClientConfirmActive, Got
  <2>2. <<Msg("ConfirmActive", cdemand)>> \in Seq(Messages)
    BY <1>16, <1>2, <1>3, <1>5, <1>6, <1>7, ClientInfoType, MsgType DEF ClientConfirmActive, Got
  <2>3. StreamsOK' /\ ServerOK' /\ CurrentOK' /\ CountsOK' /\ UNCHANGED <<opts, resizer>>
    BY <1>16, <1>1, <2>1, <2>2 DEF ClientConfirmActive
  <2>4. ClientOK'
    BY <1>16, <1>2, <1>4, <1>6, <1>7, <1>8 DEF ClientConfirmActive, Got, ClientOK
  <2> QED BY <2>3, <2>4
<1>17. CASE ClientFinalize
  <2>1. ClientBatch[cstate].pdu \in Types /\ ClientBatch[cstate].next \in States
    BY <1>17, <1>3, <1>4 DEF ClientFinalize, FinalizationStates, ClientBatch, Batch
  <2>2. <<Msg(ClientBatch[cstate].pdu, cdemand)>> \in Seq(Messages)
    BY <2>1, <1>5, <1>7
  <2>3. StreamsOK' /\ ServerOK' /\ CurrentOK' /\ CountsOK' /\ UNCHANGED <<opts, resizer>>
    BY <1>17, <1>1, <1>2, <2>2 DEF ClientFinalize
  <2>4. ClientOK'
    BY <1>17, <1>7, <2>1 DEF ClientFinalize, ClientOK
  <2> QED BY <2>3, <2>4
<1>18. CASE ClientMonitorLayout
  <2> DEFINE r == ClientRecvPdu(Head(s2c))
  <2>1. PICK rest \in Seq(Messages) : ClientStep(rest, <<>>)
    BY <1>18, <1>2 DEF ClientMonitorLayout
  <2>2. StreamsOK' /\ ServerOK' /\ CurrentOK' /\ CountsOK' /\ UNCHANGED <<opts, resizer>>
    BY <1>1, <1>2, <2>1
  <2>3. r.state \in States /\ r.flags \in SUBSET (SCFlags \cup {Reactivation}) /\ r.layout \in BOOLEAN
    BY <1>18, <1>2, <1>4, <1>7, <1>8 DEF ClientMonitorLayout
  <2>4. cstate' \in States /\ cflags' \in SUBSET (SCFlags \cup {Reactivation}) /\ layoutPdu' \in BOOLEAN
    BY <1>18, <1>4, <2>3 DEF ClientMonitorLayout
  <2>5. cclosed' \in BOOLEAN /\ cdemand' \in Nat
    BY <1>18, <1>7 DEF ClientMonitorLayout
  <2> QED BY <2>2, <2>4, <2>5 DEF ClientOK
<1>19. CASE ClientReceive
  <2> DEFINE r == ClientRecvPdu(Head(s2c))
  <2>1. StreamsOK' /\ ServerOK' /\ CurrentOK' /\ CountsOK' /\ UNCHANGED <<opts, resizer>>
    BY <1>19, <1>1, <1>2 DEF ClientReceive
  <2>2. r.state \in States /\ r.flags \in SUBSET (SCFlags \cup {Reactivation}) /\ r.layout \in BOOLEAN /\ r.ok \in BOOLEAN
    BY <1>19, <1>2, <1>4, <1>7, <1>8 DEF ClientReceive
  <2>3. cstate \in DOMAIN Awaited => Following[cstate] \in States
    BY <1>4 DEF Awaited, Following
  <2>4. cstate' \in States /\ cflags' \in SUBSET (SCFlags \cup {Reactivation}) /\ layoutPdu' \in BOOLEAN
    BY <1>19, <2>2, <2>3 DEF ClientReceive
  <2>5. cclosed' \in BOOLEAN /\ cdemand' \in Nat
    BY <1>19, <1>7, <2>2 DEF ClientReceive
  <2> QED BY <2>1, <2>4, <2>5 DEF ClientOK
<1>20. CASE ClientInput
  <2>1. StreamsOK'
    BY <1>20, <1>3, MsgType DEF ClientInput, StreamsOK
  <2> QED BY <1>20, <2>1 DEF ClientInput, ServerOK, CurrentOK, ClientOK, CountsOK
<1>21. CASE ClientShutdown
  <2>1. StreamsOK'
    BY <1>21, <1>3, MsgType DEF ClientShutdown, StreamsOK
  <2> QED BY <1>21, <2>1 DEF ClientShutdown, ServerOK, CurrentOK, ClientOK, CountsOK
<1>22. CASE ClientTransportFails
  BY <1>22 DEF ClientTransportFails, StreamsOK, ServerOK, CurrentOK, ClientOK, CountsOK
<1> QED BY <1>9, <1>10, <1>11, <1>12, <1>13, <1>14, <1>15, <1>16, <1>17, <1>18, <1>19, <1>20, <1>21, <1>22 DEF ClientStepAny

-----------------------------------------------------------------------------
(***************************************************************************)
(* The connection sequence: the server keeps in step, state by state.      *)
(***************************************************************************)

(* A message has a type and a number, and nothing else.                    *)
LEMMA MessageIs ==
    \A m \in Messages : m.type \in Types /\ m.n \in Nat /\ m = Msg(m.type, m.n)
BY DEF Messages, Msg

(* To show that the two sides are in step after a step of the server, it   *)
(* is enough to give the places of the conversation after it.              *)
LEMMA ServerMoves ==
    ASSUME NEW a \in Messages, NEW m \in Messages, NEW c \in Messages, NEW b \in Messages,
           NEW s \in Messages,
           Sent(c), Seen(b), Joining(b, c), UNCHANGED <<opts, cstate, cflags, cdemand>>,
           Heard(a)', Taken(a, m)', Linked(Messages, UpStep(opts, KeysExpected'), m, c2s', c),
           Said(s)', Linked(Messages, DownStep(opts), b, s2c', s)
    PROVE  InStep'
<1>1. Sent(c)'
  BY DEF Sent
<1>2. Seen(b)' /\ Joining(b, c)'
  BY DEF Seen, Joining, SaidJoined
<1>3. Conversation(a, m, c, b, s)'
  BY <1>1, <1>2 DEF Conversation
<1> QED BY <1>3 DEF InStep

(* What the server has heard depends on its state and its counters only.   *)
LEMMA HeardStays ==
    ASSUME NEW a, Heard(a), UNCHANGED <<opts, sclosed, sstate, joined, demanded, confirmed, listed>>
    PROVE  Heard(a)'
BY DEF Heard

(* What the server has said depends on its state only.                     *)
LEMMA SaidStays ==
    ASSUME NEW s, Said(s), UNCHANGED <<opts, sclosed, sstate, joined>>
    PROVE  Said(s)'
BY DEF Said, SaidJoined

(* The place of the current message depends on that message only.          *)
LEMMA TakenStays ==
    ASSUME NEW a, NEW m, Taken(a, m), UNCHANGED <<opts, run, cur>>, KeysExpected' = KeysExpected
    PROVE  Taken(a, m)'
BY DEF Taken

(* The end of a pass, for each result of a handler.                        *)
LEMMA FinishIs ==
    /\ Finish("CONTINUE", FALSE) => run' = run /\ cur' = cur /\ ~sclosed'
    /\ Finish("CONTINUE", TRUE) => run' = "read" /\ cur' = cur /\ ~sclosed'
    /\ Finish("SUCCESS", FALSE) => run' = "idle" /\ cur' = NoMsg /\ ~sclosed'
    /\ Finish("SUCCESS", TRUE) => run' = "idle" /\ cur' = NoMsg /\ ~sclosed'
    /\ Finish("FAILED", TRUE) => run' = "idle" /\ cur' = NoMsg /\ sclosed'
    /\ Finish("QUIT_SESSION", TRUE) => run' = "idle" /\ cur' = NoMsg /\ sclosed'
<1>1. ASSUME Finish("CONTINUE", FALSE) PROVE run' = run /\ cur' = cur /\ sclosed' \in BOOLEAN
  BY <1>1 DEF Finish
<1>2. ASSUME Finish("CONTINUE", FALSE) PROVE ~sclosed'
  BY <1>1, <1>2 DEF Finish
<1>3. ASSUME Finish("CONTINUE", TRUE) PROVE run' = "read" /\ cur' = cur /\ sclosed' \in BOOLEAN
  BY <1>3 DEF Finish
<1>4. ASSUME Finish("CONTINUE", TRUE) PROVE ~sclosed'
  BY <1>3, <1>4 DEF Finish
<1>5. ASSUME Finish("SUCCESS", FALSE) PROVE run' = "idle" /\ cur' = NoMsg /\ sclosed' \in BOOLEAN
  BY <1>5 DEF Finish
<1>6. ASSUME Finish("SUCCESS", FALSE) PROVE ~sclosed'
  BY <1>5, <1>6 DEF Finish
<1>7. ASSUME Finish("SUCCESS", TRUE) PROVE run' = "idle" /\ cur' = NoMsg /\ sclosed' \in BOOLEAN
  BY <1>7 DEF Finish
<1>8. ASSUME Finish("SUCCESS", TRUE) PROVE ~sclosed'
  BY <1>7, <1>8 DEF Finish
<1>9. ASSUME Finish("FAILED", TRUE) PROVE run' = "idle" /\ cur' = NoMsg /\ sclosed' \in BOOLEAN
  BY <1>9 DEF Finish
<1>10. ASSUME Finish("FAILED", TRUE) PROVE sclosed'
  BY <1>9, <1>10 DEF Finish
<1>11. ASSUME Finish("QUIT_SESSION", TRUE) PROVE run' = "idle" /\ cur' = NoMsg /\ sclosed' \in BOOLEAN
  BY <1>11 DEF Finish
<1>12. ASSUME Finish("QUIT_SESSION", TRUE) PROVE sclosed'
  BY <1>11, <1>12 DEF Finish
<1> QED BY <1>1, <1>2, <1>3, <1>4, <1>5, <1>6, <1>7, <1>8, <1>9, <1>10, <1>11, <1>12, Zenon

(* Taking a message from the stream makes it the current one, and keeps    *)
(* the sides in step.                                                      *)
LEMMA BeginTakes ==
    ASSUME TypeInv, InStep, PeerBegin
    PROVE  InStep' /\ Head(c2s) # NoMsg
<1>1. PICK a \in Messages, m \in Messages, c \in Messages, b \in Messages, s \in Messages :
        Conversation(a, m, c, b, s)
  BY DEF InStep
<1>2. m = a
  BY <1>1 DEF Conversation, Taken, PeerBegin
<1>3. c2s \in Seq(Messages) /\ c2s # <<>> /\ Head(c2s) \in Messages
  BY DEF TypeInv, StreamsOK, PeerBegin
<1>4. PICK n \in Messages : <<a, Head(c2s), n>> \in UpStep(opts, KeysExpected)
                            /\ Linked(Messages, UpStep(opts, KeysExpected), n, Tail(c2s), c)
  BY <1>1, <1>2, <1>3, LinkedTake DEF Conversation
<1>5. Head(c2s).type # "none"
  BY <1>3, <1>4, UpStepIs DEF UpNext, Secures, Noise
<1>6. KeysExpected' = KeysExpected
  BY DEF PeerBegin, KeysExpected
<1>7. Taken(a, n)'
  BY <1>4, <1>6 DEF Taken, PeerBegin
<1>8. Heard(a)' /\ Said(s)'
  BY <1>1, HeardStays, SaidStays DEF Conversation, PeerBegin, answers
<1>9. InStep'
  BY <1>1, <1>4, <1>6, <1>7, <1>8, ServerMoves DEF Conversation, PeerBegin, clientVars
<1> QED BY <1>5, <1>9 DEF NoMsg, Msg

(* States that need no message are passed on with the sides in step.       *)
LEMMA PassOnMoves ==
    ASSUME TypeInv, InStep, RunOK, PeerPassOn \/ PeerFinalizationNoKeys
    PROVE  InStep'
<1>1. PICK a \in Messages, m \in Messages, c \in Messages, b \in Messages, s \in Messages :
        Conversation(a, m, c, b, s)
  BY DEF InStep
<1>2. run # "idle" /\ ~sclosed
  <2>1. run # "idle"
    BY DEF PeerPassOn, PeerFinalizationNoKeys, Running
  <2> QED BY <2>1, Zenon DEF RunOK
<1>3. run' = run /\ cur' = cur /\ ~sclosed'
  BY FinishIs DEF PeerPassOn, PeerFinalizationNoKeys
<1>33. UNCHANGED <<opts, sflags, c2s, s2c, cstate, cflags, cdemand, joined, demanded, confirmed, listed>>
  BY DEF PeerPassOn, PeerFinalizationNoKeys, clientVars, answers
<1>4. KeysExpected' = KeysExpected /\ Taken(a, m)'
  BY <1>1, <1>3, <1>33, TakenStays DEF Conversation, KeysExpected
<1>5. Heard(a)' /\ Said(s)'
  <2>1. CASE PeerPassOn
    BY <1>1, <1>2, <1>3, <1>33, <2>1 DEF Conversation, Heard, Said, SaidJoined, PeerPassOn, PassOn, TransitionTo, FinalizationStates, Demanding, Activation
  <2>2. CASE PeerFinalizationNoKeys
    BY <1>1, <1>2, <1>3, <1>33, <2>2 DEF Conversation, Heard, Said, SaidJoined, PeerFinalizationNoKeys, Running, TransitionTo, FinalizationStates, Demanding, Activation
  <2> QED BY <2>1, <2>2
<1> QED BY <1>1, <1>3, <1>33, <1>4, <1>5, ServerMoves DEF Conversation

(* A server that has read its message and sends nothing but what leads on  *)
(* stays in step.                                                          *)
LEMMA ServerReads ==
    ASSUME NEW a \in Messages, NEW m \in Messages, NEW c \in Messages, NEW b \in Messages,
           NEW s \in Messages, NEW z \in Messages,
           Conversation(a, m, c, b, s), UNCHANGED <<opts, c2s, cstate, cflags, cdemand>>,
           run' # "unread", KeysExpected' = KeysExpected,
           Heard(m)', Said(z)', Linked(Messages, DownStep(opts), b, s2c', z)
    PROVE  InStep'
<1>1. Taken(m, m)'
  BY DEF Taken
<1> QED BY <1>1, ServerMoves DEF Conversation

(* A message that may follow the last one the server sent can be sent.     *)
LEMMA Sends ==
    ASSUME NEW b \in Messages, NEW s \in Messages, NEW x \in Messages, TypeInv,
           Linked(Messages, DownStep(opts), b, s2c, s), DownNext(opts, s, x), x.type # "Ultimatum"
    PROVE  Linked(Messages, DownStep(opts), b, Append(s2c, x), x)
<1>1. <<s, x, x>> \in DownStep(opts)
  BY DownStepIs
<1>2. s2c \in Seq(Messages)
  BY DEF TypeInv, StreamsOK
<1> QED BY <1>1, <1>2, LinkedAppend

(* In a state that reads, the current message has not been read, and may   *)
(* follow what the server has heard.                                       *)
LEMMA Unread ==
    ASSUME TypeInv, RunOK, run # "idle", NEW a \in Messages, NEW m \in Messages, Taken(a, m),
           sstate \notin {"AUTO_DETECT_REQUEST", "LICENSING", "MULTITRANSPORT_REQUEST",
                          "DEMAND_ACTIVE", "MONITOR_LAYOUT", "ACTIVE"}
    PROVE  /\ run = "unread" /\ ~sclosed /\ cur \in Messages
           /\ IF cur.type \in Noise THEN a.type \in Activating /\ m = a
              ELSE UpNext(opts, KeysExpected, a, cur) /\ m = cur
<1>1. run = "unread" /\ ~sclosed /\ cur \in Messages
  BY DEF RunOK, TypeInv, CurrentOK
<1> QED BY <1>1, UpStepIs DEF Taken

(* The table of the states that wait for one PDU, spelled out.             *)
LEMMA WaitsFields ==
    /\ Waits["NEGO"].pdu = "NegoRequest" /\ Waits["NEGO"].next = "MCS_CREATE_REQUEST"
    /\ Waits["NEGO"].out = <<Msg("NegoConfirm", 0)>>
    /\ Waits["MCS_CREATE_REQUEST"].pdu = "ConnectInitial"
    /\ Waits["MCS_CREATE_REQUEST"].next = "MCS_ERECT_DOMAIN"
    /\ Waits["MCS_CREATE_REQUEST"].out = <<Msg("ConnectResponse", 0)>>
    /\ Waits["MCS_ERECT_DOMAIN"].pdu = "ErectDomain"
    /\ Waits["MCS_ERECT_DOMAIN"].next = "MCS_ATTACH_USER"
    /\ Waits["MCS_ERECT_DOMAIN"].out = <<>>
    /\ Waits["MCS_ATTACH_USER"].pdu = "AttachUser"
    /\ Waits["MCS_ATTACH_USER"].next = IF opts.skipJoin THEN "RDP_SECURITY_COMMENCEMENT"
                                       ELSE "MCS_CHANNEL_JOIN_REQUEST"
    /\ Waits["MCS_ATTACH_USER"].out = <<Msg("AttachConfirm", 0)>>
BY DEF Waits, Wait

(* A state that waits for one PDU, and gets that PDU, goes on.             *)
LEMMA WaitsGive ==
    ASSUME TypeInv, PeerWaits, NEW st, sstate = st, NEW pdu, Waits[st].pdu = pdu, cur.type = pdu,
           NEW next, Waits[st].next = next, NEW out \in Seq(Messages), Waits[st].out = out
    PROVE  sstate' = next /\ s2c' = s2c \o out /\ run' = "idle" /\ ~sclosed'
<1>1. /\ TransitionTo(Waits[sstate].next) /\ s2c' = s2c \o Waits[sstate].out
      /\ Finish("SUCCESS", TRUE)
  BY DEF PeerWaits
<1>2. run' = "idle" /\ ~sclosed'
  BY <1>1, FinishIs
<1>3. sstate' = next
  BY <1>1 DEF TransitionTo
<1>4. s2c' = s2c \o out
  BY <1>1
<1> QED BY <1>2, <1>3, <1>4

(* The states that wait for one PDU get it from an honest client: none     *)
(* refuses it.                                                             *)
LEMMA WaitsMove ==
    ASSUME TypeInv, InStep, RunOK, EarlyOK, PeerWaits
    PROVE  InStep' /\ ~sclosed'
<1>1. PICK a \in Messages, m \in Messages, c \in Messages, b \in Messages, s \in Messages :
        Conversation(a, m, c, b, s)
  BY DEF InStep
<1>2. sstate \in {"NEGO", "MCS_CREATE_REQUEST", "MCS_ERECT_DOMAIN", "MCS_ATTACH_USER"} /\ run # "idle"
  BY WaitsIs DEF PeerWaits
<1>3. /\ run = "unread" /\ ~sclosed /\ cur \in Messages
      /\ IF cur.type \in Noise THEN a.type \in Activating /\ m = a
         ELSE UpNext(opts, KeysExpected, a, cur) /\ m = cur
  BY <1>1, <1>2, Unread DEF Conversation
<1>4. Heard(a) /\ Said(s) /\ Linked(Messages, DownStep(opts), b, s2c, s) /\ s2c \in Seq(Messages)
  BY <1>1 DEF Conversation, TypeInv, StreamsOK
<1>5. UNCHANGED <<opts, c2s, cstate, cflags, cdemand, joined, demanded, confirmed, listed>> /\ KeysExpected' = KeysExpected
  BY DEF PeerWaits, clientVars, answers, KeysExpected
<1>6. CASE sstate = "NEGO"
  <2>1. cur.type = "NegoRequest" /\ m = cur /\ s.type = "none"
    BY <1>3, <1>4, <1>6 DEF Heard, Said, UpNext, Noise, Activating
  <2> DEFINE x == Msg("NegoConfirm", 0)
  <2>2. x \in Messages /\ x.type = "NegoConfirm" /\ <<x>> \in Seq(Messages)
    BY MsgType DEF Types, Msg
  <2>3. sstate' = "MCS_CREATE_REQUEST" /\ s2c' = s2c \o <<x>> /\ run' = "idle" /\ ~sclosed'
    <3> HIDE DEF x
    <3>1. Waits["NEGO"].pdu = "NegoRequest" /\ Waits["NEGO"].next = "MCS_CREATE_REQUEST" /\ Waits["NEGO"].out = <<x>>
      BY WaitsFields DEF x
    <3> QED BY <1>6, <2>1, <2>2, <3>1, WaitsGive
  <2> HIDE DEF x
  <2>4. Linked(Messages, DownStep(opts), b, s2c', x)
    <3>1. s2c' = Append(s2c, x) /\ DownNext(opts, s, x)
      BY <1>4, <2>1, <2>2, <2>3 DEF DownNext
    <3> QED BY <1>4, <2>2, <3>1, Sends
  <2>5. Heard(m)' /\ Said(x)'
    BY <1>5, <2>1, <2>2, <2>3, <1>6 DEF Heard, Said, SaidJoined, FinalizationStates, Demanding, Activation
  <2> QED BY <1>1, <1>5, <2>2, <2>3, <2>4, <2>5, ServerReads
<1>7. CASE sstate = "MCS_CREATE_REQUEST"
  <2>1. cur.type = "ConnectInitial" /\ m = cur /\ s.type = "NegoConfirm"
    BY <1>3, <1>4, <1>7 DEF Heard, Said, UpNext, Noise, Activating
  <2> DEFINE x == Msg("ConnectResponse", 0)
  <2>2. x \in Messages /\ x.type = "ConnectResponse" /\ <<x>> \in Seq(Messages)
    BY MsgType DEF Types, Msg
  <2>3. sstate' = "MCS_ERECT_DOMAIN" /\ s2c' = s2c \o <<x>> /\ run' = "idle" /\ ~sclosed'
    <3> HIDE DEF x
    <3>1. Waits["MCS_CREATE_REQUEST"].pdu = "ConnectInitial" /\ Waits["MCS_CREATE_REQUEST"].next = "MCS_ERECT_DOMAIN" /\ Waits["MCS_CREATE_REQUEST"].out = <<x>>
      BY WaitsFields DEF x
    <3> QED BY <1>7, <2>1, <2>2, <3>1, WaitsGive
  <2> HIDE DEF x
  <2>4. Linked(Messages, DownStep(opts), b, s2c', x)
    <3>1. s2c' = Append(s2c, x) /\ DownNext(opts, s, x)
      BY <1>4, <2>1, <2>2, <2>3 DEF DownNext
    <3> QED BY <1>4, <2>2, <3>1, Sends
  <2>5. Heard(m)' /\ Said(x)'
    BY <1>5, <2>1, <2>2, <2>3, <1>7 DEF Heard, Said, SaidJoined, FinalizationStates, Demanding, Activation
  <2> QED BY <1>1, <1>5, <2>2, <2>3, <2>4, <2>5, ServerReads
<1>8. CASE sstate = "MCS_ERECT_DOMAIN"
  <2>1. cur.type = "ErectDomain" /\ m = cur /\ s.type = "ConnectResponse"
    BY <1>3, <1>4, <1>8 DEF Heard, Said, UpNext, Noise, Activating
  <2>2. <<>> \in Seq(Messages)
    OBVIOUS
  <2>3. sstate' = "MCS_ATTACH_USER" /\ s2c' = s2c \o <<>> /\ run' = "idle" /\ ~sclosed'
    BY <1>8, <2>1, <2>2, WaitsFields, WaitsGive
  <2>4. s2c' = s2c
    BY <1>4, <2>3
  <2>5. Heard(m)' /\ Said(s)'
    BY <1>4, <1>5, <2>1, <2>3, <1>8 DEF Heard, Said, FinalizationStates, Demanding, Activation
  <2> QED BY <1>1, <1>4, <1>5, <2>3, <2>4, <2>5, ServerReads
<1>9. CASE sstate = "MCS_ATTACH_USER"
  <2>1. cur.type = "AttachUser" /\ m = cur /\ s.type = "ConnectResponse"
    BY <1>3, <1>4, <1>9 DEF Heard, Said, UpNext, Noise, Activating
  <2> DEFINE x == Msg("AttachConfirm", 0)
  <2>2. x \in Messages /\ x.type = "AttachConfirm" /\ <<x>> \in Seq(Messages)
    BY MsgType DEF Types, Msg
  <2>3. sstate' = (IF opts.skipJoin THEN "RDP_SECURITY_COMMENCEMENT" ELSE "MCS_CHANNEL_JOIN_REQUEST") /\ s2c' = s2c \o <<x>> /\ run' = "idle" /\ ~sclosed'
    <3> HIDE DEF x
    <3>1. Waits["MCS_ATTACH_USER"].pdu = "AttachUser" /\ Waits["MCS_ATTACH_USER"].next = (IF opts.skipJoin THEN "RDP_SECURITY_COMMENCEMENT" ELSE "MCS_CHANNEL_JOIN_REQUEST") /\ Waits["MCS_ATTACH_USER"].out = <<x>>
      BY WaitsFields DEF x
    <3> QED BY <1>9, <2>1, <2>2, <3>1, WaitsGive
  <2> HIDE DEF x
  <2>4. Linked(Messages, DownStep(opts), b, s2c', x)
    <3>1. s2c' = Append(s2c, x) /\ DownNext(opts, s, x)
      BY <1>4, <2>1, <2>2, <2>3 DEF DownNext
    <3> QED BY <1>4, <2>2, <3>1, Sends
  <2>5. joined' = {}
    BY <1>5, <1>9, WaitsIs DEF EarlyOK
  <2>6. sstate' \in {"RDP_SECURITY_COMMENCEMENT", "MCS_CHANNEL_JOIN_REQUEST"}
        /\ (sstate' = "RDP_SECURITY_COMMENCEMENT" => opts'.skipJoin)
        /\ (sstate' = "MCS_CHANNEL_JOIN_REQUEST" => ~opts'.skipJoin)
    BY <1>5, <2>3
  <2>7. Heard(m)'
    BY <2>1, <2>5, <2>6 DEF Heard, FinalizationStates, Demanding
  <2>8. Said(x)'
    BY <2>2, <2>5, <2>6 DEF Said, SaidJoined, FinalizationStates, Activation
  <2> QED BY <1>1, <1>5, <2>2, <2>3, <2>4, <2>7, <2>8, ServerReads
<1> QED BY <1>2, <1>6, <1>7, <1>8, <1>9

(* The channels are asked for one by one, in order, and each request is    *)
(* accepted.                                                               *)
LEMMA JoinMoves ==
    ASSUME PeerAssumption, TypeInv, InStep, RunOK, PeerJoin
    PROVE  InStep' /\ ~sclosed' /\ joined' \subseteq 1 .. NChannels
<1>1. PICK a \in Messages, m \in Messages, c \in Messages, b \in Messages, s \in Messages :
        Conversation(a, m, c, b, s)
  BY DEF InStep
<1>2. sstate = "MCS_CHANNEL_JOIN_REQUEST" /\ run # "idle"
  BY DEF PeerJoin, Running
<1>3. /\ run = "unread" /\ ~sclosed /\ cur \in Messages
      /\ IF cur.type \in Noise THEN a.type \in Activating /\ m = a
         ELSE UpNext(opts, KeysExpected, a, cur) /\ m = cur
  BY <1>1, <1>2, Unread DEF Conversation
<1>4. Heard(a) /\ Said(s) /\ Linked(Messages, DownStep(opts), b, s2c, s) /\ s2c \in Seq(Messages)
  BY <1>1 DEF Conversation, TypeInv, StreamsOK
<1>5. UNCHANGED <<opts, c2s, cstate, cflags, cdemand, demanded, confirmed, listed>> /\ KeysExpected' = KeysExpected
  BY DEF PeerJoin, clientVars, answers, KeysExpected
<1>6. ~opts.skipJoin /\ (\/ a.type = "AttachUser" /\ joined = {}
                         \/ a.type = "JoinRequest" /\ a.n \in 1 .. NChannels - 1 /\ joined = 1 .. a.n)
  BY <1>2, <1>3, <1>4 DEF Heard
<1>7. \/ s.type = "AttachConfirm" /\ joined = {}
      \/ s.type = "JoinConfirm" /\ s.n \in 1 .. NChannels - 1 /\ joined = 1 .. s.n
  BY <1>2, <1>3, <1>4 DEF Said
<1>8. /\ cur.type = "JoinRequest" /\ m = cur /\ cur.n \in 1 .. NChannels
      /\ joined = 1 .. (cur.n - 1)
  <2>1. NChannels \in Nat \ {0} /\ a.n \in Nat /\ 1 .. (1 - 1) = {}
    BY PeerAssumption, MessageIs DEF PeerAssumption
  <2>2. cur.type = "JoinRequest" /\ m = cur
    BY <1>3, <1>6, <2>1 DEF UpNext, Noise, Activating, Secures
  <2>3. CASE a.type = "AttachUser" /\ joined = {}
    <3>1. cur.n = 1
      BY <1>3, <1>6, <2>2, <2>3 DEF UpNext, Noise, Secures
    <3> QED BY <2>1, <2>2, <2>3, <3>1
  <2>4. CASE a.type = "JoinRequest" /\ a.n \in 1 .. NChannels - 1 /\ joined = 1 .. a.n
    <3>1. cur.n = a.n + 1
      BY <1>3, <1>6, <2>1, <2>2, <2>4 DEF UpNext, Noise, Secures
    <3>2. (a.n + 1) - 1 = a.n /\ a.n + 1 \in 1 .. NChannels
      BY <2>1, <2>4
    <3> QED BY <2>2, <2>4, <3>1, <3>2
  <2> QED BY <1>6, <2>3, <2>4
<1>9. joined' = 1 .. cur.n /\ joined' \subseteq 1 .. NChannels
  BY <1>8, PeerAssumption DEF PeerJoin, PeerAssumption
<1>10. NChannels \in Nat \ {0} /\ cur.n \in Nat /\ s.n \in Nat /\ a.n \in Nat
  BY <1>3, PeerAssumption, MessageIs DEF PeerAssumption
<1>11. \/ s.type = "AttachConfirm" /\ cur.n = 1
       \/ s.type = "JoinConfirm" /\ s.n < NChannels /\ cur.n = s.n + 1
  <2>1. \A i, j \in Nat : 1 .. i = 1 .. j => i = j
    <3> SUFFICES ASSUME NEW i \in Nat, NEW j \in Nat, 1 .. i = 1 .. j, i < j PROVE FALSE
      OBVIOUS
    <3>1. j \in 1 .. j /\ j \notin 1 .. i
      OBVIOUS
    <3> QED BY <3>1
  <2>2. CASE s.type = "AttachConfirm" /\ joined = {}
    <3>1. cur.n - 1 = 0 \/ 1 \in joined
      BY <1>8, <1>10
    <3> QED BY <2>2, <3>1, <1>10
  <2>3. CASE s.type = "JoinConfirm" /\ s.n \in 1 .. NChannels - 1 /\ joined = 1 .. s.n
    <3>1. cur.n - 1 \in Nat
      BY <1>8, <1>10
    <3>2. s.n = cur.n - 1
      BY <2>1, <2>3, <3>1, <1>8, <1>10
    <3> QED BY <2>3, <3>2, <1>10
  <2> QED BY <2>2, <2>3, <1>7
<1>12. PICK x \in Messages : x = Msg("JoinConfirm", cur.n) /\ x.type = "JoinConfirm" /\ x.n = cur.n
  BY <1>10, MsgType DEF Types, Msg
<1>13. s2c' = Append(s2c, x) /\ Finish("SUCCESS", TRUE)
       /\ sstate' = IF joined' = 1 .. NChannels THEN "RDP_SECURITY_COMMENCEMENT"
                    ELSE "MCS_CHANNEL_JOIN_REQUEST"
  BY <1>8, <1>12 DEF PeerJoin, TransitionTo
<1>14. Linked(Messages, DownStep(opts), b, s2c', x)
  <2>1. DownNext(opts, s, x)
    BY <1>6, <1>11, <1>12 DEF DownNext
  <2> QED BY <1>4, <1>12, <1>13, <2>1, Sends
<1>15. run' = "idle" /\ ~sclosed'
  BY <1>13, FinishIs
<1>16. \/ sstate' = "RDP_SECURITY_COMMENCEMENT" /\ cur.n = NChannels
       \/ sstate' = "MCS_CHANNEL_JOIN_REQUEST" /\ cur.n \in 1 .. NChannels - 1
  BY <1>8, <1>9, <1>10, <1>13
<1>17. m.type = "JoinRequest" /\ m.n = cur.n /\ ~opts'.skipJoin /\ joined' = 1 .. m.n /\ joined' = 1 .. x.n
  BY <1>5, <1>6, <1>8, <1>9, <1>12
<1>18. Heard(m)' /\ Said(x)'
  <2>1. CASE sstate' = "RDP_SECURITY_COMMENCEMENT" /\ cur.n = NChannels
    BY <2>1, <1>12, <1>17 DEF Heard, Said, SaidJoined, FinalizationStates, Demanding, Activation
  <2>2. CASE sstate' = "MCS_CHANNEL_JOIN_REQUEST" /\ cur.n \in 1 .. NChannels - 1
    BY <2>2, <1>12, <1>17 DEF Heard, Said, SaidJoined, FinalizationStates, Demanding, Activation
  <2> QED BY <1>16, <2>1, <2>2
<1>19. InStep'
  BY <1>1, <1>5, <1>12, <1>14, <1>15, <1>18, ServerReads
<1> QED BY <1>9, <1>15, <1>19

(* The security exchange comes when it is due, and only then.              *)
LEMMA SecurityMoves ==
    ASSUME PeerAssumption, TypeInv, InStep, RunOK, PeerSecurity
    PROVE  InStep' /\ ~sclosed'
<1>1. PICK a \in Messages, m \in Messages, c \in Messages, b \in Messages, s \in Messages :
        Conversation(a, m, c, b, s)
  BY DEF InStep
<1>2. sstate = "RDP_SECURITY_COMMENCEMENT" /\ run # "idle" /\ sstate' = "SECURE_SETTINGS_EXCHANGE"
  BY DEF PeerSecurity, Running, TransitionTo
<1>3. /\ run = "unread" /\ ~sclosed /\ cur \in Messages
      /\ IF cur.type \in Noise THEN a.type \in Activating /\ m = a
         ELSE UpNext(opts, KeysExpected, a, cur) /\ m = cur
  BY <1>1, <1>2, Unread DEF Conversation
<1>4. Heard(a) /\ Said(s) /\ Linked(Messages, DownStep(opts), b, s2c, s)
  BY <1>1 DEF Conversation
<1>5. UNCHANGED <<opts, c2s, s2c, cstate, cflags, cdemand, joined, demanded, confirmed, listed>>
      /\ KeysExpected' = KeysExpected
  BY DEF PeerSecurity, clientVars, answers, KeysExpected
<1>6. \/ opts.skipJoin /\ a.type = "AttachUser"
      \/ a.type = "JoinRequest" /\ a.n = NChannels
  BY <1>2, <1>3, <1>4 DEF Heard
<1>7. Said(s)'
  BY <1>2, <1>3, <1>4, <1>5 DEF Said, SaidJoined, FinalizationStates, Activation
<1>8. CASE opts.rdpSecurity
  <2>1. cur.type = "SecurityExchange" /\ m = cur
    BY <1>3, <1>6, <1>8, PeerAssumption DEF UpNext, Noise, Activating, Secures, PeerAssumption
  <2>2. run' = "idle" /\ ~sclosed'
    BY <1>8, <2>1, FinishIs DEF PeerSecurity
  <2>3. Heard(m)'
    BY <1>2, <1>5, <1>8, <2>1 DEF Heard, FinalizationStates, Demanding
  <2> QED BY <1>1, <1>4, <1>5, <1>7, <2>2, <2>3, ServerReads
<1>9. CASE ~opts.rdpSecurity
  <2>1. run' = run /\ cur' = cur /\ ~sclosed'
    BY <1>9, FinishIs DEF PeerSecurity
  <2>2. Heard(a)'
    BY <1>2, <1>5, <1>6, <1>9 DEF Heard, FinalizationStates, Demanding
  <2>3. Taken(a, m)'
    BY <1>1, <1>5, <2>1, TakenStays DEF Conversation
  <2> QED BY <1>1, <1>4, <1>5, <1>7, <2>1, <2>2, <2>3, ServerMoves DEF Conversation
<1> QED BY <1>8, <1>9

(* The client info comes when the server awaits it.                        *)
LEMMA ClientInfoMoves ==
    ASSUME PeerAssumption, TypeInv, InStep, RunOK, EarlyOK, PeerClientInfo
    PROVE  InStep' /\ ~sclosed' /\ run' = "read" /\ sstate' = "AUTO_DETECT_REQUEST"
<1>1. PICK a \in Messages, m \in Messages, c \in Messages, b \in Messages, s \in Messages :
        Conversation(a, m, c, b, s)
  BY DEF InStep
<1>2. sstate = "SECURE_SETTINGS_EXCHANGE" /\ run # "idle"
  BY DEF PeerClientInfo, Running
<1>3. /\ run = "unread" /\ ~sclosed /\ cur \in Messages
      /\ IF cur.type \in Noise THEN a.type \in Activating /\ m = a
         ELSE UpNext(opts, KeysExpected, a, cur) /\ m = cur
  BY <1>1, <1>2, Unread DEF Conversation
<1>4. Heard(a) /\ Said(s) /\ Linked(Messages, DownStep(opts), b, s2c, s)
  BY <1>1 DEF Conversation
<1>5. UNCHANGED <<opts, c2s, s2c, cstate, cflags, cdemand, joined, demanded, confirmed, listed>>
      /\ KeysExpected' = KeysExpected
  BY DEF PeerClientInfo, clientVars, answers, KeysExpected
<1>6. IF opts.rdpSecurity THEN a.type = "SecurityExchange"
      ELSE \/ opts.skipJoin /\ a.type = "AttachUser"
           \/ a.type = "JoinRequest" /\ a.n = NChannels
  BY <1>2, <1>3, <1>4 DEF Heard
<1>7. cur.type = "ClientInfo" /\ cur.n = 0 /\ m = cur
  BY <1>3, <1>6, PeerAssumption DEF UpNext, Noise, Activating, Secures, PeerAssumption
<1>8. sstate' = "AUTO_DETECT_REQUEST" /\ Finish("CONTINUE", TRUE)
  BY <1>7 DEF PeerClientInfo, TransitionTo
<1>9. run' = "read" /\ ~sclosed'
  BY <1>8, FinishIs
<1>10. Said(s)'
  BY <1>2, <1>3, <1>4, <1>5, <1>8 DEF Said, SaidJoined, FinalizationStates, Activation
<1>11. demanded' = 0
  BY <1>2, <1>5 DEF EarlyOK, Activation, FinalizationStates
<1>12. Heard(m)'
  BY <1>5, <1>7, <1>8, <1>11 DEF Heard, FinalizationStates, Demanding
<1> QED BY <1>1, <1>4, <1>5, <1>8, <1>9, <1>10, <1>12, ServerReads

(* The licence is sent with the sides in step.                             *)
LEMMA LicensingMoves ==
    ASSUME PeerAssumption, TypeInv, InStep, RunOK, PeerLicensing
    PROVE  InStep' /\ ~sclosed'
<1>1. PICK a \in Messages, m \in Messages, c \in Messages, b \in Messages, s \in Messages :
        Conversation(a, m, c, b, s)
  BY DEF InStep
<1>2. sstate = "LICENSING" /\ run # "idle" /\ sstate' = "MULTITRANSPORT_REQUEST"
  BY DEF PeerLicensing, Running, TransitionTo
<1>3. ~sclosed
  BY <1>2, Zenon DEF RunOK
<1>4. Heard(a) /\ Said(s) /\ Taken(a, m) /\ Linked(Messages, DownStep(opts), b, s2c, s)
  BY <1>1 DEF Conversation
<1>5. UNCHANGED <<opts, c2s, cstate, cflags, cdemand, joined, demanded, confirmed, listed>>
      /\ KeysExpected' = KeysExpected
  BY DEF PeerLicensing, clientVars, answers, KeysExpected
<1>6. run' = run /\ cur' = cur /\ ~sclosed'
  BY FinishIs DEF PeerLicensing
<1> DEFINE x == Msg("License", 0)
<1>7. x \in Messages /\ x.type = "License" /\ s2c' = Append(s2c, x)
  BY MsgType DEF Types, Msg, PeerLicensing
<1> HIDE DEF x
<1>8. Linked(Messages, DownStep(opts), b, s2c', x)
  <2>1. DownNext(opts, s, x)
    BY <1>2, <1>3, <1>4, <1>7, PeerAssumption DEF DownNext, Said, SaidJoined, PeerAssumption
  <2> QED BY <1>4, <1>7, <2>1, Sends
<1>9. Said(x)'
  BY <1>2, <1>7 DEF Said, Activation, FinalizationStates
<1>10. Heard(a)'
  BY <1>2, <1>3, <1>4, <1>5 DEF Heard, FinalizationStates, Demanding
<1>11. Taken(a, m)'
  BY <1>4, <1>5, <1>6, TakenStays
<1> QED BY <1>1, <1>5, <1>6, <1>7, <1>8, <1>9, <1>10, <1>11, ServerMoves DEF Conversation

(* The first demand is sent with the sides in step.                        *)
LEMMA DemandActiveMoves ==
    ASSUME PeerAssumption, TypeInv, InStep, RunOK, PeerDemandActive
    PROVE  InStep' /\ ~sclosed'
<1>1. PICK a \in Messages, m \in Messages, c \in Messages, b \in Messages, s \in Messages :
        Conversation(a, m, c, b, s)
  BY DEF InStep
<1>2. sstate = "DEMAND_ACTIVE" /\ run # "idle" /\ sstate' = "MONITOR_LAYOUT"
  BY DEF PeerDemandActive, Running, TransitionTo
<1>3. ~sclosed
  BY <1>2, Zenon DEF RunOK
<1>4. Heard(a) /\ Said(s) /\ Taken(a, m) /\ Linked(Messages, DownStep(opts), b, s2c, s)
  BY <1>1 DEF Conversation
<1>5. UNCHANGED <<opts, c2s, cstate, cflags, cdemand, joined>>
      /\ KeysExpected' = KeysExpected
  BY DEF PeerDemandActive, clientVars, KeysExpected
<1>6. run' = run /\ cur' = cur /\ ~sclosed'
  BY FinishIs DEF PeerDemandActive
<1>7. PICK x \in Messages : x.type = "DemandActive" /\ s2c' = Append(s2c, x) /\ demanded' = demanded + 1
  <2>1. demanded' = demanded + 1 /\ demanded' \in Nat
    BY DEF PeerDemandActive, TypeInv, CountsOK
  <2>2. Msg("DemandActive", demanded') \in Messages /\ Msg("DemandActive", demanded').type = "DemandActive"
    BY <2>1, MsgType DEF Types, Msg
  <2> QED BY <2>1, <2>2 DEF PeerDemandActive
<1>8. Linked(Messages, DownStep(opts), b, s2c', x)
  <2>1. DownNext(opts, s, x)
    BY <1>2, <1>3, <1>4, <1>7 DEF DownNext, Said
  <2> QED BY <1>4, <1>7, <2>1, Sends
<1>9. Said(x)'
  BY <1>2, <1>7 DEF Said, Activation, FinalizationStates, Late
<1>10. Heard(a)'
  BY <1>2, <1>3, <1>4, <1>5, <1>7 DEF Heard, FinalizationStates, Demanding
<1>11. Taken(a, m)'
  BY <1>4, <1>5, <1>6, TakenStays
<1> QED BY <1>1, <1>5, <1>6, <1>7, <1>8, <1>9, <1>10, <1>11, ServerMoves DEF Conversation

(* The monitor layout follows the demand, if it was promised.              *)
LEMMA MonitorLayoutMoves ==
    ASSUME PeerAssumption, TypeInv, InStep, RunOK, PeerMonitorLayout
    PROVE  InStep' /\ ~sclosed'
<1>1. PICK a \in Messages, m \in Messages, c \in Messages, b \in Messages, s \in Messages :
        Conversation(a, m, c, b, s)
  BY DEF InStep
<1>2. sstate = "MONITOR_LAYOUT" /\ run # "idle" /\ sstate' = "CONFIRM_ACTIVE"
  BY DEF PeerMonitorLayout, Running, TransitionTo
<1>3. ~sclosed
  BY <1>2, Zenon DEF RunOK
<1>4. Heard(a) /\ Said(s) /\ Taken(a, m) /\ Linked(Messages, DownStep(opts), b, s2c, s)
  BY <1>1 DEF Conversation
<1>5. UNCHANGED <<opts, c2s, cstate, cflags, cdemand, joined, demanded, confirmed, listed>>
      /\ KeysExpected' = KeysExpected
  BY DEF PeerMonitorLayout, clientVars, answers, KeysExpected
<1>6. IF run = "unread" THEN run' = run /\ cur' = cur /\ ~sclosed'
      ELSE run' = "idle" /\ ~sclosed'
  BY FinishIs DEF PeerMonitorLayout, MonitorLayoutResult
<1>7. Heard(a)'
  BY <1>2, <1>3, <1>4, <1>5 DEF Heard, FinalizationStates, Demanding
<1>8. Taken(a, m)'
  BY <1>4, <1>5, <1>6 DEF Taken
<1>9. CASE ~opts.layout
  <2>1. s2c' = s2c
    BY <1>9 DEF PeerMonitorLayout
  <2>2. Said(s)'
    BY <1>2, <1>3, <1>4, <1>5, <1>9 DEF Said, Activation, FinalizationStates
  <2> QED BY <1>1, <1>4, <1>5, <1>6, <1>7, <1>8, <2>1, <2>2, ServerMoves DEF Conversation
<1>10. CASE opts.layout
  <2> DEFINE x == Msg("MonitorLayout", 0)
  <2>1. x \in Messages /\ x.type = "MonitorLayout" /\ s2c' = Append(s2c, x)
    BY <1>10, MsgType DEF Types, Msg, PeerMonitorLayout
  <2> HIDE DEF x
  <2>2. Linked(Messages, DownStep(opts), b, s2c', x)
    <3>1. DownNext(opts, s, x)
      BY <1>2, <1>3, <1>4, <1>10, <2>1 DEF DownNext, Said, Activation, Late
    <3> QED BY <1>4, <2>1, <3>1, Sends
  <2>3. Said(x)'
    BY <1>2, <1>5, <1>10, <2>1 DEF Said, Activation, FinalizationStates, Late
  <2> QED BY <1>1, <1>5, <1>6, <1>7, <1>8, <2>1, <2>2, <2>3, ServerMoves DEF Conversation
<1> QED BY <1>9, <1>10

(* A message that a handler has read is not lost when the pass ends.       *)
LEMMA FinishHears ==
    ASSUME NEW rc, Finish(rc, TRUE), EveryMessageRead, opts' = opts
    PROVE  EveryMessageRead'
<1>1. unheard' \in BOOLEAN
  BY DEF Finish
<1>2. unheard' = (unheard \/ (rc = "SUCCESS" /\ run = "unread" /\ ~TRUE))
  BY DEF Finish
<1> QED BY <1>1, <1>2 DEF EveryMessageRead

(* A handler that sends nothing, or an ultimatum, moves past the current   *)
(* message.                                                                *)
LEMMA Handled ==
    ASSUME NEW a \in Messages, NEW m \in Messages, NEW c \in Messages, NEW b \in Messages,
           NEW s \in Messages, TypeInv,
           Conversation(a, m, c, b, s), UNCHANGED <<opts, c2s, cstate, cflags, cdemand>>,
           run' # "unread", KeysExpected' = KeysExpected, Heard(m)', Said(s)',
           s2c' = s2c \/ s2c' = Append(s2c, Msg("Ultimatum", 0))
    PROVE  InStep'
<1>1. Linked(Messages, DownStep(opts), b, s2c, s) /\ s2c \in Seq(Messages)
  BY DEF Conversation, TypeInv, StreamsOK
<1>2. Msg("Ultimatum", 0) \in Messages /\ Msg("Ultimatum", 0).type = "Ultimatum"
  BY MsgType DEF Types, Msg
<1>3. <<s, Msg("Ultimatum", 0), s>> \in DownStep(opts)
  BY <1>2, DownStepIs
<1>4. Linked(Messages, DownStep(opts), b, Append(s2c, Msg("Ultimatum", 0)), s)
  BY <1>1, <1>2, <1>3, LinkedAppend
<1> QED BY <1>1, <1>4, ServerReads

(* A handler that sends one message moves past the current one and says    *)
(* that one.                                                               *)
LEMMA HandledSends ==
    ASSUME NEW a \in Messages, NEW m \in Messages, NEW c \in Messages, NEW b \in Messages,
           NEW s \in Messages, NEW x \in Messages, TypeInv,
           Conversation(a, m, c, b, s), UNCHANGED <<opts, c2s, cstate, cflags, cdemand>>,
           run' # "unread", KeysExpected' = KeysExpected, Heard(m)', Said(x)',
           s2c' = Append(s2c, x), DownNext(opts, s, x), x.type # "Ultimatum"
    PROVE  InStep'
<1>1. Linked(Messages, DownStep(opts), b, s2c', x)
  BY Sends DEF Conversation
<1> QED BY <1>1, ServerReads

(* The two states whose handler is peer_recv_pdu alone.                    *)
LEMMA RecvHandled ==
    ASSUME PeerConfirmActive \/ PeerActive
    PROVE  /\ UNCHANGED <<opts, c2s, cstate, cflags, cdemand, cclosed, joined, demanded>>
           /\ sstate' = PeerRecvPdu.state /\ sflags' = PeerRecvPdu.flags
           /\ activated' = PeerRecvPdu.activated /\ s2c' = s2c \o PeerRecvPdu.out
           /\ Finish(PeerRecvPdu.rc, TRUE) /\ Recorded(PeerRecvPdu)
BY DEF PeerConfirmActive, PeerActive, clientVars

(* The fields of a result that changes no state.                           *)
LEMMA KeptIs ==
    ASSUME NEW rc, NEW fl
    PROVE  /\ Kept(rc, fl).rc = rc /\ Kept(rc, fl).state = sstate /\ Kept(rc, fl).flags = fl
           /\ Kept(rc, fl).activated = activated /\ Kept(rc, fl).out = <<>>
BY DEF Kept, Outcome

\* What a message other than a Confirm Active and a Font List leaves.
LEMMA RecvKeeps ==
    ASSUME TypeInv, run = "unread",
           cur.type \in {"Sync", "Cooperate", "Request", "Keys", "Input"}
    PROVE  /\ PeerRecvPdu.rc \in {"SUCCESS", "FAILED"}
           /\ PeerRecvPdu.state = sstate /\ PeerRecvPdu.activated = activated
           /\ PeerRecvPdu.out = <<>>
           /\ Reactivation \in PeerRecvPdu.flags <=> Reactivation \in sflags
           /\ "CS_FONT_LIST" \in PeerRecvPdu.flags <=> "CS_FONT_LIST" \in sflags
           /\ cur.type \in {"Input", "Keys", "Sync"} => PeerRecvPdu.rc = "SUCCESS"
           /\ cur.type = "Input" => PeerRecvPdu.flags = sflags
           /\ cur.type = "Keys" => PeerRecvPdu.flags = sflags \cup {"CS_KEYS"}
           /\ cur.type = "Sync" => PeerRecvPdu.flags = sflags \cup {"CS_SYNC"}
           /\ cur.type = "Cooperate" /\ "CS_SYNC" \in sflags =>
                PeerRecvPdu.flags = sflags \cup {"CS_COOPERATE"} /\ PeerRecvPdu.rc = "SUCCESS"
           /\ cur.type = "Request" /\ "CS_COOPERATE" \in sflags =>
                PeerRecvPdu.flags = sflags \cup {"CS_REQUEST"} /\ PeerRecvPdu.rc = "SUCCESS"
<1>1. CASE cur.type = "Sync"
  BY <1>1, RecvPdu, KeptIs DEF Reactivation
<1>2. CASE cur.type = "Keys"
  BY <1>2, RecvPdu, KeptIs DEF Reactivation
<1>3. CASE cur.type = "Input"
  BY <1>3, RecvPdu, KeptIs DEF Reactivation
<1>4. CASE cur.type = "Cooperate"
  BY <1>4, RecvPdu, KeptIs DEF AcceptClientControl, Reactivation
<1>5. CASE cur.type = "Request"
  BY <1>5, RecvPdu, KeptIs DEF AcceptClientControl, Reactivation
<1> QED BY <1>1, <1>2, <1>3, <1>4, <1>5

(* A shutdown request ends the session with an ultimatum.                  *)
LEMMA RecvShutdown ==
    ASSUME run = "unread", cur.type = "Shutdown"
    PROVE  /\ PeerRecvPdu.rc = "QUIT_SESSION" /\ PeerRecvPdu.state = sstate
           /\ PeerRecvPdu.activated = activated /\ PeerRecvPdu.flags = sflags
           /\ PeerRecvPdu.out = <<Msg("Ultimatum", 0)>>
BY RecvPdu DEF Outcome

(* To send one message is to append it.                                    *)
LEMMA OneMore ==
    ASSUME TypeInv, NEW t \in Types, NEW k \in Nat
    PROVE  s2c \o <<Msg(t, k)>> = Append(s2c, Msg(t, k))
BY MsgType DEF TypeInv, StreamsOK

(* A font list is answered by a font map, and makes the peer active.       *)
LEMMA RecvFontList ==
    ASSUME run = "unread", cur.type = "FontList"
    PROVE  /\ PeerRecvPdu.rc = "CONTINUE" /\ PeerRecvPdu.state = "ACTIVE"
           /\ PeerRecvPdu.flags = sflags \cup {"CS_FONT_LIST"}
           /\ PeerRecvPdu.out = <<Msg("FontMap", 0)>>
           /\ PeerRecvPdu.activated = (activated /\ IsActivePeerState(sstate))
BY RecvPdu DEF AcceptFontList, Outcome

(* A confirm active PDU is accepted by a server that awaits one.           *)
LEMMA RecvConfirmActive ==
    ASSUME run = "unread", cur.type = "ConfirmActive"
    PROVE  IF sstate = "CONFIRM_ACTIVE"
           THEN /\ PeerRecvPdu.rc = "SUCCESS" /\ PeerRecvPdu.state = "FINALIZATION_SYNC"
                /\ PeerRecvPdu.flags = sflags \cap {Reactivation}
                /\ PeerRecvPdu.out = <<Msg("Sync", 0), Msg("Cooperate", 0)>>
                /\ PeerRecvPdu.activated = FALSE
           ELSE PeerRecvPdu = Kept("FAILED", sflags)
BY RecvPdu DEF AcceptConfirmActive, Outcome

(* The answer to the demand is read where it is awaited.                   *)
LEMMA ConfirmActiveMoves ==
    ASSUME TypeInv, InStep, RunOK, DemandsOK, ShutdownOK, HonestClientKept, EveryMessageRead,
           PeerConfirmActive
    PROVE  InStep' /\ FlagsOK' /\ RunOK' /\ HonestClientKept' /\ EveryMessageRead'
<1>1. PICK a \in Messages, m \in Messages, c \in Messages, b \in Messages, s \in Messages :
        Conversation(a, m, c, b, s)
  BY DEF InStep
<1>2. sstate = "CONFIRM_ACTIVE" /\ run # "idle"
  BY DEF PeerConfirmActive, Running
<1>3. /\ run = "unread" /\ ~sclosed /\ cur \in Messages
      /\ IF cur.type \in Noise THEN a.type \in Activating /\ m = a
         ELSE UpNext(opts, KeysExpected, a, cur) /\ m = cur
  BY <1>1, <1>2, Unread DEF Conversation
<1>4. Heard(a) /\ Said(s) /\ Linked(Messages, DownStep(opts), b, s2c, s) /\ s2c \in Seq(Messages)
  BY <1>1 DEF Conversation, TypeInv, StreamsOK
<1>5. /\ UNCHANGED <<opts, c2s, cstate, cflags, cdemand, cclosed, joined, demanded, shutdowns>>
      /\ sstate' = PeerRecvPdu.state /\ sflags' = PeerRecvPdu.flags
      /\ activated' = PeerRecvPdu.activated /\ s2c' = s2c \o PeerRecvPdu.out
      /\ Finish(PeerRecvPdu.rc, TRUE) /\ Recorded(PeerRecvPdu)
  BY RecvHandled DEF PeerConfirmActive, budget
<1>6. activated = FALSE
  BY <1>2 DEF RunOK, TypeInv, ServerOK
<1>7. EveryMessageRead'
  BY <1>5, FinishHears
<1>8. a.type \in {"ClientInfo", "FontList"} /\ a.n + 1 = demanded
  BY <1>2, <1>3, <1>4 DEF Heard, Demanding
<1>9. \/ cur.type = "ConfirmActive" /\ cur.n = demanded
      \/ cur.type \in {"Input", "Shutdown"}
  <2>1. a.n \in Nat /\ cur.n \in Nat /\ demanded \in Nat
    BY <1>3, MessageIs DEF TypeInv, CountsOK
  <2>2. cur.type = "ConfirmActive" => cur.n <= demanded
    BY DEF DemandsOK
  <2> QED BY <1>3, <1>8, <2>1, <2>2 DEF UpNext, Noise, Activating
<1>10. CASE cur.type = "ConfirmActive" /\ cur.n = demanded
  <2>1. /\ PeerRecvPdu.rc = "SUCCESS" /\ sstate' = "FINALIZATION_SYNC"
        /\ sflags' = sflags \cap {Reactivation} /\ activated' = FALSE
        /\ s2c' = s2c \o <<Msg("Sync", 0), Msg("Cooperate", 0)>>
    BY <1>2, <1>3, <1>5, <1>10, RecvConfirmActive
  <2>2. run' = "idle" /\ ~sclosed'
    BY <1>5, <2>1, FinishIs
  <2>3. m = cur /\ confirmed' = cur.n
    BY <1>3, <1>5, <1>10, <2>1 DEF Noise, Recorded
  <2>4. KeysExpected' = KeysExpected
    BY <1>5, <2>1 DEF KeysExpected
  <2>5. Heard(m)'
    BY <1>5, <1>10, <2>1, <2>3 DEF Heard, FinalizationStates, Demanding
  <2> DEFINE x == Msg("Sync", 0)
             y == Msg("Cooperate", 0)
  <2>6. x \in Messages /\ y \in Messages /\ x.type = "Sync" /\ y.type = "Cooperate"
    BY MsgType DEF Types, Msg
  <2>7. s2c' = s2c \o <<x, y>>
    BY <2>1
  <2> HIDE DEF x, y
  <2>8. s2c' = Append(Append(s2c, x), y) /\ Append(s2c, x) \in Seq(Messages)
    BY <1>4, <2>6, <2>7
  <2>9. Linked(Messages, DownStep(opts), b, Append(s2c, x), x)
    <3>1. DownNext(opts, s, x)
      BY <1>2, <1>3, <1>4, <2>6 DEF DownNext, Said, Activation, Late
    <3> QED BY <1>4, <2>6, <3>1, Sends
  <2>10. Linked(Messages, DownStep(opts), b, s2c', y)
    <3>1. <<x, y, y>> \in DownStep(opts)
      BY <2>6, DownStepIs DEF DownNext
    <3> QED BY <2>6, <2>8, <2>9, <3>1, LinkedAppend
  <2>11. Said(y)'
    BY <2>1, <2>6 DEF Said, Activation, FinalizationStates, Late
  <2>12. InStep'
    BY <1>1, <1>5, <2>2, <2>4, <2>5, <2>6, <2>10, <2>11, ServerReads
  <2>13. FlagsOK'
    BY <2>1 DEF FlagsOK
  <2>14. RunOK'
    BY <2>1, <2>2 DEF RunOK
  <2>15. HonestClientKept'
    BY <1>5, <2>2 DEF HonestClientKept
  <2> QED BY <1>7, <2>12, <2>13, <2>14, <2>15
<1>11. CASE cur.type = "Shutdown"
  <2>1. /\ PeerRecvPdu.rc = "QUIT_SESSION" /\ sstate' = sstate
        /\ sflags' = sflags /\ activated' = FALSE
        /\ s2c' = Append(s2c, Msg("Ultimatum", 0))
    <3>1. s2c \o <<Msg("Ultimatum", 0)>> = Append(s2c, Msg("Ultimatum", 0))
      BY OneMore DEF Types
    <3> QED BY <1>3, <1>5, <1>6, <1>11, <3>1, RecvShutdown
  <2>2. run' = "idle" /\ sclosed'
    BY <1>5, <2>1, FinishIs
  <2>3. m = a /\ UNCHANGED <<confirmed, listed>>
    BY <1>3, <1>5, <1>11 DEF Noise, Recorded
  <2>4. KeysExpected' = KeysExpected
    BY <1>5, <2>1 DEF KeysExpected
  <2>5. Heard(m)' /\ Said(s)'
    BY <1>2, <1>3, <1>4, <1>5, <2>1, <2>3 DEF Heard, Said, SaidJoined, Demanding, FinalizationStates, Activation
  <2>6. InStep'
    BY <1>1, <1>5, <2>1, <2>2, <2>4, <2>5, Handled
  <2>7. FlagsOK' /\ RunOK'
    BY <1>2, <2>1, <2>2 DEF FlagsOK, RunOK
  <2>8. HonestClientKept'
    <3>1. shutdowns # 0
      BY <1>11, Zenon DEF ShutdownOK
    <3> QED BY <1>5, <3>1, Zenon DEF HonestClientKept
  <2> QED BY <1>7, <2>6, <2>7, <2>8
<1>13. CASE cur.type = "Input"
  <2>1. /\ PeerRecvPdu.rc = "SUCCESS" /\ sstate' = sstate
        /\ (Reactivation \in sflags' <=> Reactivation \in sflags) /\ activated' = FALSE
        /\ s2c' = s2c
    BY <1>3, <1>4, <1>5, <1>6, <1>13, RecvKeeps
  <2>2. run' = "idle" /\ ~sclosed'
    BY <1>5, <2>1, FinishIs
  <2>3. UNCHANGED <<confirmed, listed>>
    BY <1>5, <1>13 DEF Recorded
  <2>4. KeysExpected' = KeysExpected
    BY <1>5, <2>1 DEF KeysExpected
  <2>5. Heard(m)' /\ Said(s)'
    <3>1. m = a
      BY <1>3, <1>13 DEF Noise
    <3> QED BY <1>2, <1>3, <1>4, <1>5, <2>1, <2>2, <2>3, <3>1 DEF Heard, Said, SaidJoined, Demanding, FinalizationStates, Activation
  <2>6. InStep'
    BY <1>1, <1>5, <2>1, <2>2, <2>4, <2>5, Handled
  <2>7. FlagsOK' /\ RunOK'
    BY <1>2, <2>1, <2>2 DEF FlagsOK, RunOK
  <2>8. HonestClientKept'
    BY <1>5, <1>13, <2>1, <2>2 DEF HonestClientKept
  <2> QED BY <1>7, <2>6, <2>7, <2>8
<1> QED BY <1>9, <1>10, <1>11, <1>13

(* In the finalization the current message has not been read, and it       *)
(* follows the one before it.                                              *)
LEMMA InFinalization ==
    ASSUME TypeInv, RunOK, sstate \in FinalizationStates, run # "idle",
           NEW a \in Messages, NEW m \in Messages, NEW c \in Messages, NEW b \in Messages,
           NEW s \in Messages, Conversation(a, m, c, b, s)
    PROVE  /\ run = "unread" /\ ~sclosed /\ cur \in Messages /\ activated = FALSE
           /\ IF cur.type \in Noise THEN a.type \in Activating /\ m = a
              ELSE UpNext(opts, KeysExpected, a, cur) /\ m = cur
           /\ Heard(a) /\ Said(s) /\ Linked(Messages, DownStep(opts), b, s2c, s)
           /\ s2c \in Seq(Messages)
<1>1. activated = FALSE
  BY DEF RunOK, TypeInv, ServerOK, FinalizationStates
<1>2. Heard(a) /\ Said(s) /\ Taken(a, m) /\ Linked(Messages, DownStep(opts), b, s2c, s)
        /\ s2c \in Seq(Messages)
  BY DEF Conversation, TypeInv, StreamsOK
<1>3. sstate \notin {"AUTO_DETECT_REQUEST", "LICENSING", "MULTITRANSPORT_REQUEST",
                     "DEMAND_ACTIVE", "MONITOR_LAYOUT", "ACTIVE"}
  BY DEF FinalizationStates
<1> QED BY <1>1, <1>2, <1>3, Unread

(* A state of the finalization: the handler, then the flag it waits for.   *)
LEMMA FinalizationHandles ==
    ASSUME NEW st, NEW flag, NEW next, NEW out, Finalization(st, flag, next, out)
    PROVE  /\ UNCHANGED <<opts, c2s, cstate, cflags, cdemand, cclosed, joined, demanded, shutdowns>>
           /\ sstate = st /\ run # "idle"
           /\ sflags' = PeerRecvPdu.flags /\ Recorded(PeerRecvPdu)
           /\ flag \in PeerRecvPdu.flags =>
                /\ sstate' = next /\ s2c' = (s2c \o PeerRecvPdu.out) \o out
                /\ Finish(PeerRecvPdu.rc, TRUE)
           /\ flag \notin PeerRecvPdu.flags =>
                /\ sstate' = PeerRecvPdu.state /\ s2c' = (s2c \o PeerRecvPdu.out) \o <<>>
                /\ Finish("SUCCESS", TRUE)
<1>1. /\ UNCHANGED <<opts, c2s, cstate, cflags, cdemand, cclosed, joined, demanded, shutdowns>>
      /\ sstate = st /\ run # "idle"
  BY DEF Finalization, clientVars, budget, Running
<1>2. sflags' = PeerRecvPdu.flags /\ Recorded(PeerRecvPdu)
  BY DEF Finalization
<1>3. ASSUME flag \in PeerRecvPdu.flags
      PROVE  /\ sstate' = next /\ s2c' = (s2c \o PeerRecvPdu.out) \o out
             /\ Finish(PeerRecvPdu.rc, TRUE)
  BY <1>3 DEF Finalization
<1>4. ASSUME flag \notin PeerRecvPdu.flags
      PROVE  /\ sstate' = PeerRecvPdu.state /\ s2c' = (s2c \o PeerRecvPdu.out) \o <<>>
             /\ Finish("SUCCESS", TRUE)
  BY <1>4 DEF Finalization
<1> QED BY <1>1, <1>2, <1>3, <1>4

(* The finalization does not activate the peer by itself.                  *)
LEMMA FinalizationActivates ==
    ASSUME NEW st, NEW flag, NEW next, NEW out, Finalization(st, flag, next, out),
           TypeInv, PeerRecvPdu.activated = FALSE
    PROVE  activated' = FALSE
<1>1. activated' = (PeerRecvPdu.activated /\ (flag \in PeerRecvPdu.flags => IsActivePeerState(PeerRecvPdu.state)))
  BY DEF Finalization
<1>2. activated' \in BOOLEAN
  BY <1>1
<1> QED BY <1>1, <1>2

(* A message the state does not wait for leaves it in step: input or a     *)
(* shutdown.                                                               *)
LEMMA FinalizationKeeps ==
    ASSUME TypeInv, RunOK, FlagsOK, HonestClientKept, EveryMessageRead,
           NEW a \in Messages, NEW m \in Messages, NEW c \in Messages, NEW b \in Messages,
           NEW s \in Messages, Conversation(a, m, c, b, s),
           NEW st \in FinalizationStates, NEW flag, NEW next, NEW out,
           Finalization(st, flag, next, out), flag \notin sflags,
           cur.type \in Noise
    PROVE  InStep' /\ FlagsOK' /\ RunOK' /\ HonestClientKept' /\ EveryMessageRead'
<1>1. /\ UNCHANGED <<opts, c2s, cstate, cflags, cdemand, cclosed, joined, demanded, shutdowns>>
      /\ sstate = st /\ run # "idle"
      /\ sflags' = PeerRecvPdu.flags /\ Recorded(PeerRecvPdu)
  BY FinalizationHandles
<1>2. /\ run = "unread" /\ ~sclosed /\ cur \in Messages /\ activated = FALSE
      /\ IF cur.type \in Noise THEN a.type \in Activating /\ m = a
         ELSE UpNext(opts, KeysExpected, a, cur) /\ m = cur
      /\ Heard(a) /\ Said(s) /\ s2c \in Seq(Messages)
  BY <1>1, InFinalization
<1>3. /\ PeerRecvPdu.state = sstate /\ PeerRecvPdu.flags = sflags /\ PeerRecvPdu.activated = FALSE
      /\ PeerRecvPdu.out = <<>> \/ PeerRecvPdu.out = <<Msg("Ultimatum", 0)>>
  <2>1. CASE cur.type = "Input"
    BY <2>1, <1>2, RecvKeeps
  <2>2. CASE cur.type = "Shutdown"
    BY <2>2, <1>2, RecvShutdown
  <2> QED BY <2>1, <2>2 DEF Noise
<1>4. /\ sstate' = sstate /\ sflags' = sflags /\ s2c' = (s2c \o PeerRecvPdu.out) \o <<>>
      /\ Finish("SUCCESS", TRUE)
  BY <1>1, <1>3, FinalizationHandles
<1>5. activated' = FALSE
  BY <1>3, FinalizationActivates
<1>6. run' = "idle" /\ ~sclosed'
  BY <1>4, FinishIs
<1>7. s2c' = s2c \/ s2c' = Append(s2c, Msg("Ultimatum", 0))
  <2>1. CASE PeerRecvPdu.out = <<>>
    BY <1>2, <1>4, <2>1
  <2>2. CASE PeerRecvPdu.out = <<Msg("Ultimatum", 0)>>
    <3>1. s2c \o PeerRecvPdu.out = Append(s2c, Msg("Ultimatum", 0))
      BY <2>2, OneMore DEF Types
    <3>2. Append(s2c, Msg("Ultimatum", 0)) \in Seq(Messages)
      BY <1>2, MsgType DEF Types
    <3> QED BY <1>4, <3>1, <3>2
  <2> QED BY <1>3, <2>1, <2>2
<1>8. KeysExpected' = KeysExpected
  BY <1>1, <1>4 DEF KeysExpected
<1>9. UNCHANGED <<confirmed, listed>>
  BY <1>1, <1>3 DEF Recorded, Noise
<1>10. Said(s)'
  BY <1>1, <1>2, <1>4, <1>6 DEF Said, SaidJoined
<1>11. Heard(m)'
  BY <1>1, <1>2, <1>4, <1>6, <1>9 DEF Heard
<1>12. InStep'
  BY <1>1, <1>6, <1>7, <1>8, <1>10, <1>11, Handled
<1>13. FlagsOK'
  BY <1>4 DEF FlagsOK
<1>14. RunOK'
  BY <1>1, <1>4, <1>5, <1>6 DEF RunOK, FinalizationStates
<1>15. HonestClientKept' /\ EveryMessageRead'
  BY <1>1, <1>4, <1>6, FinishHears DEF HonestClientKept
<1> QED BY <1>12, <1>13, <1>14, <1>15

(* The message the state waits for takes it to the next state, in step.    *)
LEMMA FinalizationGoesOn ==
    ASSUME TypeInv, RunOK, FlagsOK, HonestClientKept, EveryMessageRead,
           NEW a \in Messages, NEW m \in Messages, NEW c \in Messages, NEW b \in Messages,
           NEW s \in Messages, Conversation(a, m, c, b, s),
           NEW st \in FinalizationStates, NEW flag, NEW next \in FinalizationStates,
           NEW out \in Seq(Messages),
           Finalization(st, flag, next, out), flag \in PeerRecvPdu.flags, PeerRecvPdu.rc = "SUCCESS",
           cur.type \in {"Sync", "Cooperate", "Request", "Keys"}
    PROVE  /\ sstate' = next /\ s2c' = s2c \o out /\ sflags' = PeerRecvPdu.flags
           /\ activated' = FALSE /\ run' = "idle" /\ ~sclosed'
           /\ UNCHANGED <<opts, c2s, cstate, cflags, cdemand, demanded, confirmed, listed>>
           /\ KeysExpected' = KeysExpected
           /\ RunOK' /\ HonestClientKept' /\ EveryMessageRead'
<1>1. /\ UNCHANGED <<opts, c2s, cstate, cflags, cdemand, cclosed, joined, demanded, shutdowns>>
      /\ sstate = st /\ run # "idle"
      /\ sflags' = PeerRecvPdu.flags /\ Recorded(PeerRecvPdu)
      /\ sstate' = next /\ s2c' = (s2c \o PeerRecvPdu.out) \o out
      /\ Finish("SUCCESS", TRUE)
  BY FinalizationHandles
<1>2. run = "unread" /\ s2c \in Seq(Messages) /\ activated = FALSE
  BY <1>1, InFinalization
<1>3. PeerRecvPdu.out = <<>> /\ PeerRecvPdu.activated = FALSE
      /\ (Reactivation \in PeerRecvPdu.flags <=> Reactivation \in sflags)
  BY <1>2, RecvKeeps
<1>4. activated' = FALSE
  BY <1>3, FinalizationActivates
<1>5. run' = "idle" /\ ~sclosed'
  BY <1>1, FinishIs
<1>6. s2c' = s2c \o out
  BY <1>1, <1>2, <1>3
<1>7. UNCHANGED <<confirmed, listed>>
  BY <1>1 DEF Recorded
<1>8. KeysExpected' = KeysExpected
  BY <1>1, <1>3 DEF KeysExpected
<1>9. RunOK'
  BY <1>1, <1>4, <1>5 DEF RunOK, FinalizationStates
<1>10. HonestClientKept' /\ EveryMessageRead'
  BY <1>1, <1>5, FinishHears DEF HonestClientKept
<1> QED BY <1>1, <1>4, <1>5, <1>6, <1>7, <1>8, <1>9, <1>10

(* The finalization's first state, which waits for the client's            *)
(* synchronize PDU.                                                        *)
LEMMA SyncMoves ==
    ASSUME TypeInv, InStep, RunOK, FlagsOK, HonestClientKept, EveryMessageRead, PeerFinalizationSync
    PROVE  InStep' /\ FlagsOK' /\ RunOK' /\ HonestClientKept' /\ EveryMessageRead'
<1>1. PICK a \in Messages, m \in Messages, c \in Messages, b \in Messages, s \in Messages :
        Conversation(a, m, c, b, s)
  BY DEF InStep
<1> DEFINE st == "FINALIZATION_SYNC"
           next == "FINALIZATION_COOPERATE"
           flag == "CS_SYNC"
           out == <<>>
<1>2. Finalization(st, flag, next, out)
  BY DEF PeerFinalizationSync
<1>3. st \in FinalizationStates /\ next \in FinalizationStates /\ out \in Seq(Messages)
  BY MsgType DEF FinalizationStates, Types
<1>4. sstate = "FINALIZATION_SYNC" /\ run # "idle"
  BY <1>2, FinalizationHandles
<1>5. /\ run = "unread" /\ ~sclosed /\ cur \in Messages
      /\ IF cur.type \in Noise THEN a.type \in Activating /\ m = a
         ELSE UpNext(opts, KeysExpected, a, cur) /\ m = cur
      /\ Heard(a) /\ Said(s) /\ Linked(Messages, DownStep(opts), b, s2c, s) /\ s2c \in Seq(Messages)
  BY <1>1, <1>3, <1>4, InFinalization
<1>6. a.type = "ConfirmActive" /\ a.n = demanded /\ confirmed = demanded
  BY <1>4, <1>5 DEF Heard, FinalizationStates
<1>7. cur.type \in Noise \/ (cur.type = "Sync" /\ m = cur /\ cur.n = a.n)
  BY <1>5, <1>6 DEF UpNext, Noise
<1>8. flag \notin sflags
  BY <1>4 DEF FlagsOK, Reactivation
<1>9. CASE cur.type \in Noise
  BY <1>1, <1>2, <1>3, <1>4, <1>8, <1>9, FinalizationKeeps
<1>10. CASE cur.type = "Sync" /\ m = cur /\ cur.n = a.n
  <2>1. PeerRecvPdu.flags = sflags \cup {"CS_SYNC"} /\ PeerRecvPdu.rc = "SUCCESS"
    BY <1>4, <1>5, <1>10, RecvKeeps DEF FlagsOK
  <2>2. flag \in PeerRecvPdu.flags
    BY <2>1
  <2>3. /\ sstate' = "FINALIZATION_COOPERATE" /\ s2c' = s2c \o out /\ sflags' = sflags \cup {"CS_SYNC"}
        /\ activated' = FALSE /\ run' = "idle" /\ ~sclosed'
        /\ UNCHANGED <<opts, c2s, cstate, cflags, cdemand, demanded, confirmed, listed>>
        /\ KeysExpected' = KeysExpected
        /\ RunOK' /\ HonestClientKept' /\ EveryMessageRead'
    BY <1>1, <1>2, <1>3, <1>10, <2>1, <2>2, FinalizationGoesOn
  <2>4. m.type = "Sync" /\ m.n = demanded' /\ confirmed' = demanded'
    BY <1>6, <1>10, <2>3
  <2>5. Heard(m)'
    BY <2>3, <2>4 DEF Heard, FinalizationStates, Demanding
  <2>6. FlagsOK'
    BY <1>4, <1>8, <2>3 DEF FlagsOK, Reactivation
  <2>7. s2c' = s2c /\ Said(s)'
    BY <1>4, <1>5, <2>3 DEF Said, SaidJoined, FinalizationStates, Activation
  <2>8. InStep'
    BY <1>1, <2>3, <2>5, <2>7, Handled
  <2> QED BY <2>3, <2>6, <2>8
<1> QED BY <1>7, <1>9, <1>10

(* The state that waits for the control PDU with the action cooperate.     *)
LEMMA CooperateMoves ==
    ASSUME TypeInv, InStep, RunOK, FlagsOK, HonestClientKept, EveryMessageRead, PeerFinalizationCooperate
    PROVE  InStep' /\ FlagsOK' /\ RunOK' /\ HonestClientKept' /\ EveryMessageRead'
<1>1. PICK a \in Messages, m \in Messages, c \in Messages, b \in Messages, s \in Messages :
        Conversation(a, m, c, b, s)
  BY DEF InStep
<1> DEFINE st == "FINALIZATION_COOPERATE"
           next == "FINALIZATION_REQUEST_CONTROL"
           flag == "CS_COOPERATE"
           out == <<>>
<1>2. Finalization(st, flag, next, out)
  BY DEF PeerFinalizationCooperate
<1>3. st \in FinalizationStates /\ next \in FinalizationStates /\ out \in Seq(Messages)
  BY MsgType DEF FinalizationStates, Types
<1>4. sstate = "FINALIZATION_COOPERATE" /\ run # "idle"
  BY <1>2, FinalizationHandles
<1>5. /\ run = "unread" /\ ~sclosed /\ cur \in Messages
      /\ IF cur.type \in Noise THEN a.type \in Activating /\ m = a
         ELSE UpNext(opts, KeysExpected, a, cur) /\ m = cur
      /\ Heard(a) /\ Said(s) /\ Linked(Messages, DownStep(opts), b, s2c, s) /\ s2c \in Seq(Messages)
  BY <1>1, <1>3, <1>4, InFinalization
<1>6. a.type = "Sync" /\ a.n = demanded /\ confirmed = demanded
  BY <1>4, <1>5 DEF Heard, FinalizationStates
<1>7. cur.type \in Noise \/ (cur.type = "Cooperate" /\ m = cur /\ cur.n = a.n)
  BY <1>5, <1>6 DEF UpNext, Noise
<1>8. flag \notin sflags
  BY <1>4 DEF FlagsOK, Reactivation
<1>9. CASE cur.type \in Noise
  BY <1>1, <1>2, <1>3, <1>4, <1>8, <1>9, FinalizationKeeps
<1>10. CASE cur.type = "Cooperate" /\ m = cur /\ cur.n = a.n
  <2>1. PeerRecvPdu.flags = sflags \cup {"CS_COOPERATE"} /\ PeerRecvPdu.rc = "SUCCESS"
    BY <1>4, <1>5, <1>10, RecvKeeps DEF FlagsOK
  <2>2. flag \in PeerRecvPdu.flags
    BY <2>1
  <2>3. /\ sstate' = "FINALIZATION_REQUEST_CONTROL" /\ s2c' = s2c \o out /\ sflags' = sflags \cup {"CS_COOPERATE"}
        /\ activated' = FALSE /\ run' = "idle" /\ ~sclosed'
        /\ UNCHANGED <<opts, c2s, cstate, cflags, cdemand, demanded, confirmed, listed>>
        /\ KeysExpected' = KeysExpected
        /\ RunOK' /\ HonestClientKept' /\ EveryMessageRead'
    BY <1>1, <1>2, <1>3, <1>10, <2>1, <2>2, FinalizationGoesOn
  <2>4. m.type = "Cooperate" /\ m.n = demanded' /\ confirmed' = demanded'
    BY <1>6, <1>10, <2>3
  <2>5. Heard(m)'
    BY <2>3, <2>4 DEF Heard, FinalizationStates, Demanding
  <2>6. FlagsOK'
    BY <1>4, <1>8, <2>3 DEF FlagsOK, Reactivation
  <2>7. s2c' = s2c /\ Said(s)'
    BY <1>4, <1>5, <2>3 DEF Said, SaidJoined, FinalizationStates, Activation
  <2>8. InStep'
    BY <1>1, <2>3, <2>5, <2>7, Handled
  <2> QED BY <2>3, <2>6, <2>8
<1> QED BY <1>7, <1>9, <1>10

(* The state that waits for the persistent key list.                       *)
LEMMA KeysMove ==
    ASSUME TypeInv, InStep, RunOK, FlagsOK, HonestClientKept, EveryMessageRead, PeerFinalizationKeys
    PROVE  InStep' /\ FlagsOK' /\ RunOK' /\ HonestClientKept' /\ EveryMessageRead'
<1>0. KeysExpected
  BY DEF PeerFinalizationKeys
<1>1. PICK a \in Messages, m \in Messages, c \in Messages, b \in Messages, s \in Messages :
        Conversation(a, m, c, b, s)
  BY DEF InStep
<1> DEFINE st == "FINALIZATION_PERSISTENT_KEY_LIST"
           next == "FINALIZATION_FONT_LIST"
           flag == "CS_KEYS"
           out == <<>>
<1>2. Finalization(st, flag, next, out)
  BY DEF PeerFinalizationKeys
<1>3. st \in FinalizationStates /\ next \in FinalizationStates /\ out \in Seq(Messages)
  BY MsgType DEF FinalizationStates, Types
<1>4. sstate = "FINALIZATION_PERSISTENT_KEY_LIST" /\ run # "idle"
  BY <1>2, FinalizationHandles
<1>5. /\ run = "unread" /\ ~sclosed /\ cur \in Messages
      /\ IF cur.type \in Noise THEN a.type \in Activating /\ m = a
         ELSE UpNext(opts, KeysExpected, a, cur) /\ m = cur
      /\ Heard(a) /\ Said(s) /\ Linked(Messages, DownStep(opts), b, s2c, s) /\ s2c \in Seq(Messages)
  BY <1>1, <1>3, <1>4, InFinalization
<1>6. a.type = "Request" /\ a.n = demanded /\ confirmed = demanded
  BY <1>4, <1>5 DEF Heard, FinalizationStates
<1>7. cur.type \in Noise \/ (cur.type = "Keys" /\ m = cur /\ cur.n = a.n)
  BY <1>0, <1>5, <1>6 DEF UpNext, Noise
<1>8. flag \notin sflags /\ "CS_FONT_LIST" \notin sflags
  BY <1>4 DEF FlagsOK, Reactivation
<1>9. CASE cur.type \in Noise
  BY <1>1, <1>2, <1>3, <1>4, <1>8, <1>9, FinalizationKeeps
<1>10. CASE cur.type = "Keys" /\ m = cur /\ cur.n = a.n
  <2>1. PeerRecvPdu.flags = sflags \cup {"CS_KEYS"} /\ PeerRecvPdu.rc = "SUCCESS"
    BY <1>4, <1>5, <1>10, RecvKeeps DEF FlagsOK
  <2>2. flag \in PeerRecvPdu.flags
    BY <2>1
  <2>3. /\ sstate' = "FINALIZATION_FONT_LIST" /\ s2c' = s2c \o out /\ sflags' = sflags \cup {"CS_KEYS"}
        /\ activated' = FALSE /\ run' = "idle" /\ ~sclosed'
        /\ UNCHANGED <<opts, c2s, cstate, cflags, cdemand, demanded, confirmed, listed>>
        /\ KeysExpected' = KeysExpected
        /\ RunOK' /\ HonestClientKept' /\ EveryMessageRead'
    BY <1>1, <1>2, <1>3, <1>10, <2>1, <2>2, FinalizationGoesOn
  <2>4. m.type = "Keys" /\ m.n = demanded' /\ confirmed' = demanded'
    BY <1>6, <1>10, <2>3
  <2>5. Heard(m)'
    BY <2>3, <2>4 DEF Heard, FinalizationStates, Demanding
  <2>6. FlagsOK'
    BY <1>4, <1>8, <2>3 DEF FlagsOK, Reactivation
  <2>7. s2c' = s2c /\ Said(s)'
    BY <1>4, <1>5, <2>3 DEF Said, SaidJoined, FinalizationStates, Activation
  <2>8. InStep'
    BY <1>1, <2>3, <2>5, <2>7, Handled
  <2> QED BY <2>3, <2>6, <2>8
<1> QED BY <1>7, <1>9, <1>10

(* The state that waits for the control PDU with the action request.       *)
LEMMA RequestMoves ==
    ASSUME TypeInv, InStep, RunOK, FlagsOK, HonestClientKept, EveryMessageRead, PeerFinalizationRequestControl
    PROVE  InStep' /\ FlagsOK' /\ RunOK' /\ HonestClientKept' /\ EveryMessageRead'
<1>1. PICK a \in Messages, m \in Messages, c \in Messages, b \in Messages, s \in Messages :
        Conversation(a, m, c, b, s)
  BY DEF InStep
<1> DEFINE st == "FINALIZATION_REQUEST_CONTROL"
           next == "FINALIZATION_PERSISTENT_KEY_LIST"
           flag == "CS_REQUEST"
           out == <<Msg("Granted", 0)>>
<1>2. Finalization(st, flag, next, out)
  BY DEF PeerFinalizationRequestControl
<1>3. st \in FinalizationStates /\ next \in FinalizationStates /\ out \in Seq(Messages)
  BY MsgType DEF FinalizationStates, Types
<1>4. sstate = "FINALIZATION_REQUEST_CONTROL" /\ run # "idle"
  BY <1>2, FinalizationHandles
<1>5. /\ run = "unread" /\ ~sclosed /\ cur \in Messages
      /\ IF cur.type \in Noise THEN a.type \in Activating /\ m = a
         ELSE UpNext(opts, KeysExpected, a, cur) /\ m = cur
      /\ Heard(a) /\ Said(s) /\ Linked(Messages, DownStep(opts), b, s2c, s) /\ s2c \in Seq(Messages)
  BY <1>1, <1>3, <1>4, InFinalization
<1>6. a.type = "Cooperate" /\ a.n = demanded /\ confirmed = demanded
  BY <1>4, <1>5 DEF Heard, FinalizationStates
<1>7. cur.type \in Noise \/ (cur.type = "Request" /\ m = cur /\ cur.n = a.n)
  BY <1>5, <1>6 DEF UpNext, Noise
<1>8. flag \notin sflags
  BY <1>4 DEF FlagsOK, Reactivation
<1>9. CASE cur.type \in Noise
  BY <1>1, <1>2, <1>3, <1>4, <1>8, <1>9, FinalizationKeeps
<1>10. CASE cur.type = "Request" /\ m = cur /\ cur.n = a.n
  <2>1. PeerRecvPdu.flags = sflags \cup {"CS_REQUEST"} /\ PeerRecvPdu.rc = "SUCCESS"
    BY <1>4, <1>5, <1>10, RecvKeeps DEF FlagsOK
  <2>2. flag \in PeerRecvPdu.flags
    BY <2>1
  <2>3. /\ sstate' = "FINALIZATION_PERSISTENT_KEY_LIST" /\ s2c' = s2c \o out /\ sflags' = sflags \cup {"CS_REQUEST"}
        /\ activated' = FALSE /\ run' = "idle" /\ ~sclosed'
        /\ UNCHANGED <<opts, c2s, cstate, cflags, cdemand, demanded, confirmed, listed>>
        /\ KeysExpected' = KeysExpected
        /\ RunOK' /\ HonestClientKept' /\ EveryMessageRead'
    BY <1>1, <1>2, <1>3, <1>10, <2>1, <2>2, FinalizationGoesOn
  <2>4. m.type = "Request" /\ m.n = demanded' /\ confirmed' = demanded'
    BY <1>6, <1>10, <2>3
  <2>5. Heard(m)'
    BY <2>3, <2>4 DEF Heard, FinalizationStates, Demanding
  <2>6. FlagsOK'
    BY <1>4, <1>8, <2>3 DEF FlagsOK, Reactivation
  <2>7. PICK x \in Messages : x = Msg("Granted", 0) /\ x.type = "Granted"
    <3>1. Msg("Granted", 0) \in Messages
      BY MsgType DEF Types
    <3>2. Msg("Granted", 0).type = "Granted"
      BY DEF Msg
    <3> QED BY <3>1, <3>2
  <2>8. s2c' = Append(s2c, x) /\ DownNext(opts, s, x)
    <3>1. s2c' = s2c \o <<x>>
      BY <2>3, <2>7
    <3>2. s2c' = Append(s2c, x)
      BY <1>5, <3>1
    <3>3. s.type = "Cooperate"
      BY <1>4, <1>5 DEF Said, FinalizationStates, Activation
    <3> QED BY <3>2, <3>3, <2>7 DEF DownNext, Late
  <2>9. Said(x)'
    BY <2>3, <2>7 DEF Said, FinalizationStates, Activation, Late
  <2>10. InStep'
    BY <1>1, <2>3, <2>5, <2>7, <2>8, <2>9, HandledSends
  <2> QED BY <2>3, <2>6, <2>10
<1> QED BY <1>7, <1>9, <1>10

(* The last state of the finalization, which waits for the font list.      *)
LEMMA FontListMoves ==
    ASSUME TypeInv, InStep, RunOK, FlagsOK, ShutdownOK, HonestClientKept, EveryMessageRead,
           PeerFinalizationFontList
    PROVE  InStep' /\ FlagsOK' /\ RunOK' /\ HonestClientKept' /\ EveryMessageRead'
<1>1. PICK a \in Messages, m \in Messages, c \in Messages, b \in Messages, s \in Messages :
        Conversation(a, m, c, b, s)
  BY DEF InStep
<1>2. sstate = "FINALIZATION_FONT_LIST" /\ run # "idle" /\ sstate \in FinalizationStates
  BY DEF PeerFinalizationFontList, Running, FinalizationStates
<1>3. /\ run = "unread" /\ ~sclosed /\ cur \in Messages /\ activated = FALSE
      /\ IF cur.type \in Noise THEN a.type \in Activating /\ m = a
         ELSE UpNext(opts, KeysExpected, a, cur) /\ m = cur
      /\ Heard(a) /\ Said(s) /\ Linked(Messages, DownStep(opts), b, s2c, s)
      /\ s2c \in Seq(Messages)
  BY <1>1, <1>2, InFinalization
<1>4. /\ UNCHANGED <<opts, c2s, cstate, cflags, cdemand, cclosed, joined, demanded, shutdowns>>
      /\ sflags' = PeerRecvPdu.flags /\ s2c' = s2c \o PeerRecvPdu.out /\ Recorded(PeerRecvPdu)
  BY DEF PeerFinalizationFontList, clientVars, budget
<1>5. a.type \in {"Request", "Keys"} /\ a.n = demanded /\ confirmed = demanded
  BY <1>2, <1>3 DEF Heard, FinalizationStates
<1>6. cur.type \in Noise \/ (cur.type \in {"Keys", "FontList"} /\ m = cur /\ cur.n = a.n)
  BY <1>3, <1>5 DEF UpNext, Noise
<1>7. "CS_FONT_LIST" \notin sflags
  BY <1>2 DEF FlagsOK
<1>8. CASE cur.type = "Input" \/ (cur.type = "Keys" /\ m = cur /\ cur.n = a.n)
  <2>1. /\ PeerRecvPdu.rc = "SUCCESS" /\ PeerRecvPdu.state = sstate /\ PeerRecvPdu.activated = FALSE
        /\ PeerRecvPdu.out = <<>> /\ "CS_FONT_LIST" \notin PeerRecvPdu.flags
        /\ (Reactivation \in PeerRecvPdu.flags <=> Reactivation \in sflags)
    BY <1>3, <1>7, <1>8, RecvKeeps
  <2>2. sstate' = sstate /\ Finish("SUCCESS", TRUE)
    BY <2>1 DEF PeerFinalizationFontList
  <2>3. activated' = FALSE
    <3>1. activated' = (PeerRecvPdu.activated /\ ("CS_FONT_LIST" \in PeerRecvPdu.flags => IsActivePeerState(PeerRecvPdu.state)))
      BY <2>1 DEF PeerFinalizationFontList
    <3> QED BY <2>1, <3>1
  <2>4. run' = "idle" /\ ~sclosed'
    BY <2>2, FinishIs
  <2>5. UNCHANGED <<confirmed, listed>> /\ s2c' = s2c
    BY <1>3, <1>4, <1>8, <2>1 DEF Recorded
  <2>6. KeysExpected' = KeysExpected
    BY <1>4, <2>1 DEF KeysExpected
  <2>7. Said(s)'
    BY <1>3, <1>4, <2>2, <2>4 DEF Said, SaidJoined
  <2>8. Heard(m)'
    <3>1. m.type \in {"Request", "Keys"} /\ m.n = demanded
      BY <1>3, <1>5, <1>8 DEF Noise
    <3> QED BY <1>2, <1>4, <1>5, <2>2, <2>5, <3>1 DEF Heard, FinalizationStates, Demanding
  <2>9. InStep'
    BY <1>1, <1>4, <2>4, <2>5, <2>6, <2>7, <2>8, Handled
  <2>10. FlagsOK' /\ RunOK'
    BY <1>2, <1>4, <2>1, <2>2, <2>3, <2>4 DEF FlagsOK, RunOK
  <2>11. HonestClientKept' /\ EveryMessageRead'
    BY <1>4, <2>2, <2>4, FinishHears DEF HonestClientKept
  <2> QED BY <2>9, <2>10, <2>11
<1>9. CASE cur.type = "Shutdown"
  <2>1. /\ PeerRecvPdu.rc = "QUIT_SESSION" /\ PeerRecvPdu.state = sstate /\ PeerRecvPdu.activated = FALSE
        /\ PeerRecvPdu.out = <<Msg("Ultimatum", 0)>> /\ PeerRecvPdu.flags = sflags
    BY <1>3, <1>9, RecvShutdown
  <2>2. sstate' = sstate /\ Finish("QUIT_SESSION", TRUE)
    BY <2>1 DEF PeerFinalizationFontList
  <2>3. activated' = FALSE
    <3>1. activated' = (PeerRecvPdu.activated /\ (FALSE => IsActivePeerState(PeerRecvPdu.state)))
      BY <2>1 DEF PeerFinalizationFontList
    <3> QED BY <2>1, <3>1
  <2>4. run' = "idle" /\ sclosed'
    BY <2>2, FinishIs
  <2>5. UNCHANGED <<confirmed, listed>> /\ s2c' = Append(s2c, Msg("Ultimatum", 0)) /\ m = a
    <3>1. s2c \o <<Msg("Ultimatum", 0)>> = Append(s2c, Msg("Ultimatum", 0))
      BY OneMore DEF Types
    <3> QED BY <1>3, <1>4, <1>9, <2>1, <3>1 DEF Recorded, Noise
  <2>6. KeysExpected' = KeysExpected
    BY <1>4, <2>1 DEF KeysExpected
  <2>7. Said(s)' /\ Heard(m)'
    BY <1>3, <1>4, <2>2, <2>5 DEF Said, SaidJoined, Heard
  <2>9. InStep'
    BY <1>1, <1>4, <2>4, <2>5, <2>6, <2>7, Handled
  <2>10. FlagsOK' /\ RunOK'
    BY <1>2, <1>4, <1>7, <2>1, <2>2, <2>3, <2>4 DEF FlagsOK, RunOK
  <2>11. shutdowns # 0
    BY <1>9, Zenon DEF ShutdownOK
  <2>12. HonestClientKept' /\ EveryMessageRead'
    BY <1>4, <2>2, <2>11, FinishHears DEF HonestClientKept
  <2> QED BY <2>9, <2>10, <2>12
<1>10. CASE cur.type = "FontList" /\ m = cur /\ cur.n = a.n
  <2>1. /\ PeerRecvPdu.rc = "CONTINUE" /\ PeerRecvPdu.state = "ACTIVE"
        /\ PeerRecvPdu.flags = sflags \cup {"CS_FONT_LIST"} /\ PeerRecvPdu.out = <<Msg("FontMap", 0)>>
    BY <1>3, <1>10, RecvFontList
  <2>2. PeerRecvPdu.activated = FALSE
    BY <1>3, <1>10, RecvFontList
  <2>3. sstate' = "ACTIVE" /\ Finish("CONTINUE", TRUE)
    BY <2>1 DEF PeerFinalizationFontList
  <2>4. activated' = FALSE
    <3>1. activated' = (PeerRecvPdu.activated /\ (TRUE => IsActivePeerState(PeerRecvPdu.state)))
      BY <2>1 DEF PeerFinalizationFontList
    <3> QED BY <2>2, <3>1
  <2>5. run' = "read" /\ ~sclosed'
    BY <2>3, FinishIs
  <2>6. listed' = cur.n /\ confirmed' = confirmed
    BY <1>4, <1>10 DEF Recorded
  <2>7. KeysExpected' = KeysExpected
    BY <1>4, <2>1 DEF KeysExpected, Reactivation
  <2>8. Heard(m)'
    BY <1>4, <1>5, <1>10, <2>3, <2>6 DEF Heard, FinalizationStates, Demanding, Activating
  <2>9. PICK x \in Messages : x = Msg("FontMap", 0) /\ x.type = "FontMap"
    <3>1. Msg("FontMap", 0) \in Messages
      BY MsgType DEF Types
    <3>2. Msg("FontMap", 0).type = "FontMap"
      BY DEF Msg
    <3> QED BY <3>1, <3>2
  <2>10. s2c' = Append(s2c, x)
    <3>1. s2c' = s2c \o <<x>>
      BY <1>4, <2>1, <2>9
    <3> QED BY <1>3, <3>1
  <2>11. DownNext(opts, s, x)
    <3>1. s.type = "Granted"
      BY <1>2, <1>3 DEF Said, FinalizationStates, Activation
    <3> QED BY <3>1, <2>9 DEF DownNext, Late
  <2>12. Said(x)'
    BY <2>3, <2>9 DEF Said, Activation, FinalizationStates, Late
  <2>13. InStep'
    BY <1>1, <1>4, <2>5, <2>7, <2>8, <2>9, <2>10, <2>11, <2>12, HandledSends
  <2>14. FlagsOK' /\ RunOK'
    BY <2>3, <2>4, <2>5 DEF FlagsOK, RunOK
  <2>15. HonestClientKept' /\ EveryMessageRead'
    BY <1>4, <2>3, <2>5, FinishHears DEF HonestClientKept
  <2> QED BY <2>13, <2>14, <2>15
<1> QED BY <1>6, <1>8, <1>9, <1>10 DEF Noise

(* An active peer reads whatever an honest client may send.                *)
LEMMA ActiveMoves ==
    ASSUME TypeInv, InStep, RunOK, DemandsOK, ShutdownOK, HonestClientKept, EveryMessageRead, PeerActive
    PROVE  InStep' /\ FlagsOK' /\ RunOK' /\ HonestClientKept' /\ EveryMessageRead'
<1>1. PICK a \in Messages, m \in Messages, c \in Messages, b \in Messages, s \in Messages :
        Conversation(a, m, c, b, s)
  BY DEF InStep
<1>2. sstate = "ACTIVE" /\ run \in {"unread", "read"} /\ activated = TRUE
  BY DEF PeerActive, Running, TypeInv, CurrentOK, ServerOK
<1>3. ~sclosed /\ cur \in Messages
  <2>1. sclosed => run = "idle"
    BY DEF RunOK
  <2> QED BY <1>2, <2>1 DEF TypeInv, CurrentOK
<1>4. Heard(a) /\ Said(s) /\ Linked(Messages, DownStep(opts), b, s2c, s) /\ s2c \in Seq(Messages) /\ Taken(a, m)
  BY <1>1 DEF Conversation, TypeInv, StreamsOK
<1>5. /\ UNCHANGED <<opts, c2s, cstate, cflags, cdemand, cclosed, joined, demanded, shutdowns>>
      /\ sstate' = PeerRecvPdu.state /\ sflags' = PeerRecvPdu.flags
      /\ activated' = PeerRecvPdu.activated /\ s2c' = s2c \o PeerRecvPdu.out
      /\ Finish(PeerRecvPdu.rc, TRUE) /\ Recorded(PeerRecvPdu)
  BY RecvHandled DEF PeerActive, budget
<1>6. EveryMessageRead'
  BY <1>5, FinishHears
<1>7. a.type = "FontList" /\ a.n = demanded /\ confirmed = demanded /\ listed = demanded
  BY <1>2, <1>3, <1>4 DEF Heard
<1>8. run = "unread"
  <2>1. run # "read"
    BY <1>2 DEF RunOK
  <2> QED BY <1>2, <2>1
<1>9. IF cur.type \in Noise THEN a.type \in Activating /\ m = a
      ELSE UpNext(opts, KeysExpected, a, cur) /\ m = cur
  BY <1>3, <1>4, <1>8, UpStepIs DEF Taken
<1>10. cur.type \in {"Input", "Shutdown"} /\ m = a
  <2>1. a.n \in Nat /\ cur.n \in Nat /\ demanded \in Nat
    BY <1>3, MessageIs DEF TypeInv, CountsOK
  <2>2. cur.type = "ConfirmActive" => cur.n <= demanded
    BY DEF DemandsOK
  <2> QED BY <1>7, <1>9, <2>1, <2>2 DEF UpNext, Noise
<1>11. UNCHANGED <<confirmed, listed>>
  BY <1>5, <1>10 DEF Recorded
<1>12. CASE cur.type = "Shutdown"
  <2>1. /\ PeerRecvPdu.rc = "QUIT_SESSION" /\ sstate' = "ACTIVE" /\ sflags' = sflags /\ activated' = TRUE
        /\ PeerRecvPdu.out = <<Msg("Ultimatum", 0)>>
    BY <1>2, <1>5, <1>8, <1>12, RecvShutdown
  <2>2. s2c' = Append(s2c, Msg("Ultimatum", 0))
    <3>1. s2c \o <<Msg("Ultimatum", 0)>> = Append(s2c, Msg("Ultimatum", 0))
      BY OneMore DEF Types
    <3> QED BY <1>5, <2>1, <3>1
  <2>3. run' = "idle" /\ sclosed'
    BY <1>5, <2>1, FinishIs
  <2>4. Heard(m)' /\ Said(s)'
    BY <1>2, <1>3, <1>4, <1>5, <1>10, <1>11, <2>1 DEF Heard, Said, SaidJoined
  <2>5. KeysExpected' = KeysExpected
    BY <1>5, <2>1 DEF KeysExpected
  <2>6. InStep'
    BY <1>1, <1>5, <2>2, <2>3, <2>4, <2>5, Handled
  <2>7. FlagsOK' /\ RunOK'
    BY <2>1, <2>3 DEF FlagsOK, RunOK
  <2>8. shutdowns # 0
    BY <1>12, Zenon DEF ShutdownOK
  <2>9. HonestClientKept'
    BY <1>5, <2>8 DEF HonestClientKept
  <2> QED BY <1>6, <2>6, <2>7, <2>9
<1>13. CASE cur.type = "Input"
  <2>1. /\ PeerRecvPdu.rc = "SUCCESS" /\ sstate' = "ACTIVE"
        /\ (Reactivation \in sflags' <=> Reactivation \in sflags) /\ activated' = TRUE
        /\ s2c' = s2c
    <3>1. /\ PeerRecvPdu.rc = "SUCCESS" /\ PeerRecvPdu.state = "ACTIVE"
          /\ PeerRecvPdu.activated = TRUE /\ PeerRecvPdu.out = <<>>
          /\ (Reactivation \in PeerRecvPdu.flags <=> Reactivation \in sflags)
      BY <1>2, <1>8, <1>13, RecvKeeps
    <3> QED BY <1>4, <1>5, <3>1
  <2>2. run' = "idle" /\ ~sclosed'
    BY <1>5, <2>1, FinishIs
  <2>3. KeysExpected' = KeysExpected
    BY <1>5, <2>1 DEF KeysExpected
  <2>4. Heard(m)' /\ Said(s)'
    BY <1>2, <1>3, <1>4, <1>5, <1>10, <1>11, <2>1 DEF Heard, Said, SaidJoined
  <2>5. InStep'
    BY <1>1, <1>5, <2>1, <2>2, <2>3, <2>4, Handled
  <2>6. FlagsOK' /\ RunOK'
    BY <2>1, <2>2 DEF FlagsOK, RunOK
  <2>7. HonestClientKept'
    BY <1>5, <2>2 DEF HonestClientKept
  <2> QED BY <1>6, <2>5, <2>6, <2>7
<1> QED BY <1>10, <1>12, <1>13

(* A server that expects fewer key lists accepts no less.                  *)
LEMMA UpStepMore ==
    ASSUME opts' = opts, KeysExpected' => KeysExpected
    PROVE  UpStep(opts, KeysExpected) \subseteq UpStep(opts, KeysExpected')
<1> SUFFICES ASSUME NEW t \in Messages \X Messages \X Messages, t \in UpStep(opts, KeysExpected)
             PROVE  t \in UpStep(opts, KeysExpected')
  BY DEF UpStep
<1>1. UpNext(opts, KeysExpected, t[1], t[2]) => UpNext(opts, KeysExpected', t[1], t[2])
  BY DEF UpNext
<1> QED BY <1>1 DEF UpStep

(* A server that deactivates its client and demands anew is in step,       *)
(* wherever a host may do so.                                              *)
LEMMA Reactivates ==
    ASSUME NEW a \in Messages, NEW m \in Messages, NEW c \in Messages, NEW b \in Messages,
           NEW s \in Messages, TypeInv, Conversation(a, m, c, b, s), Reactivate,
           UNCHANGED <<opts, c2s, cstate, cflags, cdemand>>,
           s.type = "FontMap", Heard(a)',
           (run' = run /\ cur' = cur) \/ (run' = "idle" /\ run = "read")
    PROVE  InStep'
<1>1. PICK x \in Messages : x = Msg("DeactivateAll", 0) /\ x.type = "DeactivateAll"
  <2>1. Msg("DeactivateAll", 0) \in Messages
    BY MsgType DEF Types
  <2>2. Msg("DeactivateAll", 0).type = "DeactivateAll"
    BY DEF Msg
  <2> QED BY <2>1, <2>2
<1>2. demanded' \in Nat
  BY DEF Reactivate, TypeInv, CountsOK
<1>3. PICK y \in Messages : y = Msg("DemandActive", demanded') /\ y.type = "DemandActive"
  <2>1. Msg("DemandActive", demanded') \in Messages
    BY <1>2, MsgType DEF Types
  <2>2. Msg("DemandActive", demanded').type = "DemandActive"
    BY DEF Msg
  <2> QED BY <2>1, <2>2
<1>4. s2c' = s2c \o <<x, y>> /\ sstate' = "MONITOR_LAYOUT" /\ sflags' = sflags \cup {Reactivation}
  BY <1>1, <1>3 DEF Reactivate
<1>5. s2c \in Seq(Messages) /\ Linked(Messages, DownStep(opts), b, s2c, s)
  BY DEF Conversation, TypeInv, StreamsOK
<1>6. s2c' = Append(Append(s2c, x), y) /\ Append(s2c, x) \in Seq(Messages)
  BY <1>4, <1>5
<1>7. Linked(Messages, DownStep(opts), b, Append(s2c, x), x)
  <2>1. DownNext(opts, s, x)
    BY <1>1 DEF DownNext, Late
  <2> QED BY <1>1, <1>5, <2>1, Sends
<1>8. Linked(Messages, DownStep(opts), b, s2c', y)
  <2>1. <<x, y, y>> \in DownStep(opts)
    BY <1>1, <1>3, DownStepIs DEF DownNext
  <2> QED BY <1>6, <1>7, <2>1, LinkedAppend
<1>9. Said(y)'
  BY <1>3, <1>4 DEF Said, FinalizationStates, Activation, Late
<1>10. UpStep(opts, KeysExpected) \subseteq UpStep(opts, KeysExpected')
  <2>1. KeysExpected' => KeysExpected
    BY <1>4 DEF KeysExpected
  <2> QED BY <2>1, UpStepMore
<1>11. Linked(Messages, UpStep(opts, KeysExpected'), m, c2s', c)
  <2>1. Linked(Messages, UpStep(opts, KeysExpected), m, c2s, c)
    BY DEF Conversation
  <2> QED BY <1>10, <2>1, LinkedMore
<1>12. Taken(a, m)'
  <2>1. Taken(a, m)
    BY DEF Conversation
  <2>2. CASE run' = run /\ cur' = cur
    BY <1>10, <2>1, <2>2 DEF Taken
  <2>3. CASE run' = "idle" /\ run = "read"
    BY <2>1, <2>3 DEF Taken
  <2> QED BY <2>2, <2>3
<1>13. Sent(c) /\ Seen(b) /\ Joining(b, c)
  BY DEF Conversation
<1> QED BY <1>8, <1>9, <1>11, <1>12, <1>13, ServerMoves

(* What the three ways to activate a peer have in common.                  *)
LEMMA ActivatesFacts ==
    ASSUME TypeInv, RunOK, EveryMessageRead, PeerActivates
    PROVE  /\ run = "read" /\ ~sclosed /\ run' = "idle" /\ cur' = NoMsg /\ ~sclosed'
           /\ sstate = "ACTIVE" /\ EveryMessageRead'
           /\ UNCHANGED <<opts, c2s, cstate, cflags, cdemand, cclosed, joined, confirmed, listed, shutdowns>>
<1>1. run # "idle" /\ sstate = "ACTIVE" /\ ~activated
  BY DEF PeerActivates, Running
<1>2. sclosed => run = "idle"
  BY DEF RunOK
<1>3. run = "read" /\ ~sclosed
  BY <1>1, <1>2 DEF RunOK
<1>4. run' = "idle" /\ cur' = NoMsg /\ ~sclosed'
  BY FinishIs DEF PeerActivates
<1>5. unheard' \in BOOLEAN /\ unheard' = (unheard \/ ("SUCCESS" = "SUCCESS" /\ run = "unread" /\ ~FALSE))
  BY DEF PeerActivates, Finish
<1>6. EveryMessageRead'
  <2>1. opts' = opts
    BY DEF PeerActivates
  <2> QED BY <1>3, <1>5, <2>1 DEF EveryMessageRead
<1> QED BY <1>1, <1>3, <1>4, <1>6 DEF PeerActivates, clientVars

(* Activating the peer, where the host wants no resize.                    *)
LEMMA ActivateMoves ==
    ASSUME TypeInv, InStep, RunOK, HonestClientKept, EveryMessageRead, PeerActivate
    PROVE  InStep' /\ FlagsOK' /\ RunOK' /\ HonestClientKept' /\ EveryMessageRead'
<1>1. PICK a \in Messages, m \in Messages, c \in Messages, b \in Messages, s \in Messages :
        Conversation(a, m, c, b, s)
  BY DEF InStep
<1>2. /\ run = "read" /\ ~sclosed /\ run' = "idle" /\ cur' = NoMsg /\ ~sclosed'
      /\ sstate = "ACTIVE" /\ EveryMessageRead'
      /\ UNCHANGED <<opts, c2s, cstate, cflags, cdemand, cclosed, joined, confirmed, listed, shutdowns>>
  BY ActivatesFacts DEF PeerActivate
<1>3. UNCHANGED <<s2c, sstate, sflags, demanded>> /\ activated' = TRUE
  BY DEF PeerActivate
<1>4. m = a /\ Heard(a) /\ Said(s)
  BY <1>1, <1>2 DEF Conversation, Taken
<1>5. Heard(m)' /\ Said(s)'
  BY <1>2, <1>3, <1>4 DEF Heard, Said, SaidJoined
<1>6. KeysExpected' = KeysExpected
  BY <1>2, <1>3 DEF KeysExpected
<1>7. InStep'
  BY <1>1, <1>2, <1>3, <1>5, <1>6, Handled
<1>8. FlagsOK' /\ RunOK' /\ HonestClientKept'
  BY <1>2, <1>3 DEF FlagsOK, RunOK, HonestClientKept
<1> QED BY <1>2, <1>7, <1>8

(* Which hosts resize, and from where.                                     *)
LEMMA ResizesIs ==
    ASSUME TypeInv
    PROVE  /\ "Activate" \in ResizeIn => opts.host = "shadow"
           /\ "Idle" \in ResizeIn => opts.host = "shadow"
           /\ "PostConnect" \in ResizeIn => opts.host = "windows"
<1>1. opts.host \in {"shadow", "windows", "proxy"}
  BY PeerAssumption DEF TypeInv, Options, PeerAssumption
<1> QED BY <1>1 DEF ResizeIn

(* Activating the peer, where the host resizes from its callback.          *)
LEMMA ActivateResizesMoves ==
    ASSUME TypeInv, InStep, RunOK, HonestClientKept, EveryMessageRead,
           PeerActivateResizes \/ PeerPostConnectResizes
    PROVE  InStep' /\ FlagsOK' /\ RunOK' /\ HonestClientKept' /\ EveryMessageRead'
<1>1. PICK a \in Messages, m \in Messages, c \in Messages, b \in Messages, s \in Messages :
        Conversation(a, m, c, b, s)
  BY DEF InStep
<1>2. /\ run = "read" /\ ~sclosed /\ run' = "idle" /\ cur' = NoMsg /\ ~sclosed'
      /\ sstate = "ACTIVE" /\ EveryMessageRead'
      /\ UNCHANGED <<opts, c2s, cstate, cflags, cdemand, cclosed, joined, confirmed, listed, shutdowns>>
  BY ActivatesFacts DEF PeerActivateResizes, PeerPostConnectResizes
<1>3. Reactivate /\ (activated' = FALSE \/ (activated' = TRUE /\ opts.host = "windows"))
  BY ResizesIs DEF PeerActivateResizes, PeerPostConnectResizes
<1>5. m = a /\ Heard(a) /\ Said(s)
  BY <1>1, <1>2 DEF Conversation, Taken
<1>6. s.type = "FontMap" /\ a.type = "FontList" /\ a.n = demanded
  BY <1>2, <1>5 DEF Heard, Said
<1>7. sstate' = "MONITOR_LAYOUT" /\ demanded' = demanded + 1
  BY <1>3 DEF Reactivate
<1>8. Heard(a)'
  BY <1>2, <1>6, <1>7 DEF Heard, FinalizationStates, Demanding
<1>9. InStep'
  BY <1>1, <1>2, <1>3, <1>6, <1>8, Reactivates
<1>10. FlagsOK' /\ RunOK' /\ HonestClientKept'
  BY <1>2, <1>3, <1>7 DEF FlagsOK, RunOK, HonestClientKept
<1> QED BY <1>2, <1>9, <1>10

(* A resize from outside the callbacks, of an active peer.                 *)
LEMMA DesktopResizeMoves ==
    ASSUME TypeInv, InStep, RunOK, HonestClientKept, EveryMessageRead, DesktopResize
    PROVE  InStep' /\ FlagsOK' /\ RunOK' /\ HonestClientKept' /\ EveryMessageRead'
<1>1. PICK a \in Messages, m \in Messages, c \in Messages, b \in Messages, s \in Messages :
        Conversation(a, m, c, b, s)
  BY DEF InStep
<1>2. /\ ~sclosed /\ Reactivate /\ activated' = FALSE
      /\ UNCHANGED <<opts, c2s, run, cur, joined, connected, sclosed, cstate, cflags, cclosed, cdemand,
                     confirmed, listed, unheard, shutdowns>>
  BY DEF DesktopResize, clientVars, history
<1>3. sstate' = "MONITOR_LAYOUT" /\ demanded' = demanded + 1
  BY <1>2 DEF Reactivate
<1>4. Heard(a) /\ Said(s)
  BY <1>1 DEF Conversation
<1>5. sstate = "ACTIVE" /\ run = "idle"
  BY ResizesIs DEF DesktopResize, MayResize, RunOK
<1>6. s.type = "FontMap" /\ a.type = "FontList" /\ a.n = demanded
  BY <1>4, <1>5 DEF Heard, Said
<1>7. Heard(a)'
  BY <1>2, <1>3, <1>6 DEF Heard, FinalizationStates, Demanding
<1>8. InStep'
  <2>1. UNCHANGED <<opts, c2s, cstate, cflags, cdemand>> /\ ((run' = run /\ cur' = cur) \/ (run' = "idle" /\ run = "read"))
    BY <1>2
  <2>2. Reactivate
    BY <1>2
  <2> QED BY <1>1, <1>6, <1>7, <2>1, <2>2, Reactivates
<1>9. FlagsOK' /\ HonestClientKept' /\ EveryMessageRead'
  BY <1>2, <1>3 DEF FlagsOK, HonestClientKept, EveryMessageRead
<1>10. RunOK'
  <2>1. ~activated' /\ ~sclosed'
    BY <1>2
  <2> QED BY <1>3, <2>1 DEF RunOK
<1> QED BY <1>8, <1>9, <1>10

(* A transport that fails ends the server's side, which a client may have  *)
(* asked for.                                                              *)
LEMMA TransportFailsMoves ==
    ASSUME TypeInv, InStep, RunOK, FlagsOK, HonestClientKept, EveryMessageRead, PeerTransportFails
    PROVE  InStep' /\ FlagsOK' /\ RunOK' /\ HonestClientKept' /\ EveryMessageRead'
<1>1. PICK a \in Messages, m \in Messages, c \in Messages, b \in Messages, s \in Messages :
        Conversation(a, m, c, b, s)
  BY DEF InStep
<1>2. /\ cclosed /\ run = "idle" /\ ~sclosed /\ sclosed' = TRUE
      /\ UNCHANGED <<opts, c2s, s2c, sstate, sflags, run, cur, joined, connected, activated,
                     cstate, cflags, layoutPdu, cclosed, cdemand, demanded, confirmed, listed,
                     unheard, shutdowns>>
  BY DEF PeerTransportFails, clientVars, answers, history, budget
<1>3. m = a /\ Heard(a) /\ Said(s)
  BY <1>1, <1>2 DEF Conversation, Taken
<1>4. Heard(m)' /\ Said(s)'
  BY <1>2, <1>3 DEF Heard, Said, SaidJoined
<1>5. KeysExpected' = KeysExpected
  BY <1>2 DEF KeysExpected
<1>6. InStep'
  BY <1>1, <1>2, <1>4, <1>5, Handled
<1>7. FlagsOK' /\ HonestClientKept' /\ EveryMessageRead'
  BY <1>2 DEF FlagsOK, HonestClientKept, EveryMessageRead
<1>8. RunOK'
  BY <1>2 DEF RunOK
<1> QED BY <1>6, <1>7, <1>8

-----------------------------------------------------------------------------
(***************************************************************************)
(* The connection sequence: the client keeps in step, state by state.      *)
(***************************************************************************)

(* To show that the sides are in step after a step of the client, it is    *)
(* enough to give the places of the conversation after it.                 *)
LEMMA ClientMoves ==
    ASSUME NEW a \in Messages, NEW m \in Messages, NEW c \in Messages, NEW b \in Messages,
           NEW s \in Messages, NEW d \in Messages, NEW e \in Messages,
           Conversation(a, m, c, b, s),
           UNCHANGED <<opts, sstate, sflags, run, cur, joined, sclosed, demanded, confirmed, listed>>,
           Linked(Messages, UpStep(opts, KeysExpected), m, c2s', d),
           Linked(Messages, DownStep(opts), e, s2c', s), Sent(d)', Seen(e)', Joining(e, d)'
    PROVE  InStep'
<1>1. KeysExpected' = KeysExpected
  BY DEF KeysExpected
<1>2. Heard(a) /\ Taken(a, m) /\ Said(s)
  BY DEF Conversation
<1>3. Heard(a)' /\ Said(s)'
  BY <1>2, HeardStays, SaidStays
<1>4. Taken(a, m)'
  BY <1>1, <1>2, TakenStays
<1>5. Conversation(a, m, d, e, s)'
  BY <1>1, <1>3, <1>4 DEF Conversation
<1> QED BY <1>5 DEF InStep

(* A message that may follow the last one the client sent can be sent.     *)
LEMMA ClientSends ==
    ASSUME NEW m \in Messages, NEW q \in Seq(Messages), NEW c \in Messages, NEW x \in Messages,
           Linked(Messages, UpStep(opts, KeysExpected), m, q, c),
           UpNext(opts, KeysExpected, c, x), x.type \notin Noise
    PROVE  Linked(Messages, UpStep(opts, KeysExpected), m, Append(q, x), x)
<1>1. <<c, x, x>> \in UpStep(opts, KeysExpected)
  BY UpStepIs
<1> QED BY <1>1, LinkedAppend

(* A step of the client touches the two streams and its own state only.    *)
LEMMA ClientStepIs ==
    ASSUME NEW rest, NEW out, ClientStep(rest, out)
    PROVE  /\ ~cclosed /\ s2c' = rest /\ c2s' = c2s \o out
           /\ UNCHANGED <<opts, sstate, sflags, run, cur, joined, connected, activated, sclosed, demanded,
                          confirmed, listed, posted, unheard, shutdowns>>
BY DEF ClientStep, serverVars, answers, history, budget

(* The message the client takes may follow the one it has seen last.       *)
LEMMA ClientTakes ==
    ASSUME TypeInv, NEW b \in Messages, NEW s \in Messages,
           Linked(Messages, DownStep(opts), b, s2c, s), s2c # <<>>
    PROVE  /\ Head(s2c) \in Messages
           /\ Head(s2c).type # "Ultimatum" =>
                DownNext(opts, b, Head(s2c)) /\ Linked(Messages, DownStep(opts), Head(s2c), Tail(s2c), s)
           /\ Head(s2c).type = "Ultimatum" => Linked(Messages, DownStep(opts), b, Tail(s2c), s)
<1>1. s2c \in Seq(Messages) /\ Head(s2c) \in Messages
  BY DEF TypeInv, StreamsOK
<1>2. PICK e \in Messages : <<b, Head(s2c), e>> \in DownStep(opts) /\ Linked(Messages, DownStep(opts), e, Tail(s2c), s)
  BY <1>1, LinkedTake
<1> QED BY <1>1, <1>2, DownStepIs

(* For every type and number there is the message of that type and number. *)
LEMMA NewMessage ==
    ASSUME NEW t \in Types, NEW k \in Nat
    PROVE  \E x \in Messages : x = Msg(t, k) /\ x.type = t /\ x.n = k
<1>1. Msg(t, k) \in Messages
  BY MsgType
<1>2. Msg(t, k).type = t /\ Msg(t, k).n = k
  BY DEF Msg
<1> QED BY <1>1, <1>2

(* The negotiation's answer is read with the sides in step.                *)
LEMMA NegoMoves ==
    ASSUME TypeInv, InStep, ClientNego
    PROVE  InStep'
<1>1. PICK a \in Messages, m \in Messages, c \in Messages, b \in Messages, s \in Messages :
        Conversation(a, m, c, b, s)
  BY DEF InStep
<1>2. /\ Linked(Messages, UpStep(opts, KeysExpected), m, c2s, c) /\ Sent(c) /\ Seen(b)
      /\ Linked(Messages, DownStep(opts), b, s2c, s) /\ c2s \in Seq(Messages)
  BY <1>1 DEF Conversation, TypeInv, StreamsOK
<1>3. PICK x \in Messages : x = Msg("ConnectInitial", 0) /\ x.type = "ConnectInitial"
  BY NewMessage DEF Types
<1>4. cstate = "NEGO" /\ s2c # <<>> /\ Head(s2c).type = "NegoConfirm" /\ cstate' = "MCS_CREATE_RESPONSE"
  BY DEF ClientNego, Got
<1>5. /\ s2c' = Tail(s2c) /\ c2s' = c2s \o <<x>>
      /\ UNCHANGED <<opts, sstate, sflags, run, cur, joined, sclosed, demanded, confirmed, listed>>
  BY <1>3, ClientStepIs DEF ClientNego
<1>6. PICK e \in Messages : e = Head(s2c) /\ e.type = "NegoConfirm" /\ Linked(Messages, DownStep(opts), e, s2c', s)
  BY <1>2, <1>4, <1>5, ClientTakes
<1>7. Linked(Messages, UpStep(opts, KeysExpected), m, c2s', x)
  <2>1. UpNext(opts, KeysExpected, c, x) /\ x.type \notin Noise
    BY <1>2, <1>3, <1>4 DEF Sent, UpNext, Noise
  <2>2. c2s' = Append(c2s, x)
    BY <1>2, <1>5
  <2> QED BY <1>2, <2>1, <2>2, ClientSends
<1>8. Sent(x)'
  BY <1>3, <1>4 DEF Sent, FinalizationStates, ClientFinalizationStates
<1>9. Seen(e)' /\ Joining(e, x)'
  BY <1>4, <1>6 DEF Seen, Joining, FinalizationStates, ClientFinalizationStates, IsActiveClientState
<1> QED BY <1>1, <1>5, <1>6, <1>7, <1>8, <1>9, ClientMoves

(* The connect response is read with the sides in step.                    *)
LEMMA ConnectResponseMoves ==
    ASSUME TypeInv, InStep, ClientConnectResponse
    PROVE  InStep'
<1>1. PICK a \in Messages, m \in Messages, c \in Messages, b \in Messages, s \in Messages :
        Conversation(a, m, c, b, s)
  BY DEF InStep
<1>2. /\ Linked(Messages, UpStep(opts, KeysExpected), m, c2s, c) /\ Sent(c) /\ Seen(b)
      /\ Linked(Messages, DownStep(opts), b, s2c, s) /\ c2s \in Seq(Messages)
  BY <1>1 DEF Conversation, TypeInv, StreamsOK
<1>3. PICK x \in Messages : x = Msg("ErectDomain", 0) /\ x.type = "ErectDomain"
  BY NewMessage DEF Types
<1>33. PICK y \in Messages : y = Msg("AttachUser", 0) /\ y.type = "AttachUser"
  BY NewMessage DEF Types
<1>4. cstate = "MCS_CREATE_RESPONSE" /\ s2c # <<>> /\ Head(s2c).type = "ConnectResponse"
      /\ cstate' = "MCS_ATTACH_USER_CONFIRM"
  BY DEF ClientConnectResponse, Got
<1>5. /\ s2c' = Tail(s2c) /\ c2s' = c2s \o <<x, y>>
      /\ UNCHANGED <<opts, sstate, sflags, run, cur, joined, sclosed, demanded, confirmed, listed>>
  BY <1>3, <1>33, ClientStepIs DEF ClientConnectResponse
<1>6. PICK e \in Messages : e = Head(s2c) /\ e.type = "ConnectResponse" /\ Linked(Messages, DownStep(opts), e, s2c', s)
  BY <1>2, <1>4, <1>5, ClientTakes
<1>7. Linked(Messages, UpStep(opts, KeysExpected), m, c2s', y)
  <2>1. UpNext(opts, KeysExpected, c, x) /\ x.type \notin Noise
    BY <1>2, <1>3, <1>4 DEF Sent, UpNext, Noise
  <2>2. UpNext(opts, KeysExpected, x, y) /\ y.type \notin Noise
    BY <1>3, <1>33 DEF UpNext, Noise
  <2>3. c2s' = Append(Append(c2s, x), y) /\ Append(c2s, x) \in Seq(Messages)
    BY <1>2, <1>5
  <2>4. Linked(Messages, UpStep(opts, KeysExpected), m, Append(c2s, x), x)
    BY <1>2, <2>1, ClientSends
  <2> QED BY <2>2, <2>3, <2>4, ClientSends
<1>8. Sent(y)'
  BY <1>33, <1>4 DEF Sent, FinalizationStates, ClientFinalizationStates
<1>9. Seen(e)' /\ Joining(e, y)'
  BY <1>4, <1>6 DEF Seen, Joining, FinalizationStates, ClientFinalizationStates, IsActiveClientState
<1> QED BY <1>1, <1>5, <1>6, <1>7, <1>8, <1>9, ClientMoves

\* The client's first PDUs after the channels are joined.
LEMMA ClientInfoLinks ==
    ASSUME NEW m \in Messages, NEW q \in Seq(Messages), NEW c \in Messages,
           Linked(Messages, UpStep(opts, KeysExpected), m, q, c),
           \A x \in Messages : Secures(opts, x) => UpNext(opts, KeysExpected, c, x)
    PROVE  \E d \in Messages : /\ d.type = "ClientInfo" /\ d.n = 0
                               /\ Linked(Messages, UpStep(opts, KeysExpected), m, q \o ClientInfo, d)
<1>1. PICK d \in Messages : d = Msg("ClientInfo", 0) /\ d.type = "ClientInfo" /\ d.n = 0
  BY NewMessage DEF Types
<1>2. CASE opts.rdpSecurity
  <2>1. PICK x \in Messages : x = Msg("SecurityExchange", 0) /\ x.type = "SecurityExchange" /\ x.n = 0
    BY NewMessage DEF Types
  <2>2. ClientInfo = <<x>> \o <<d>>
    BY <1>1, <1>2, <2>1 DEF ClientInfo
  <2>3. q \o ClientInfo = Append(Append(q, x), d) /\ Append(q, x) \in Seq(Messages)
    BY <2>2
  <2>4. UpNext(opts, KeysExpected, c, x) /\ x.type \notin Noise
    BY <1>2, <2>1 DEF Secures, Noise
  <2>5. UpNext(opts, KeysExpected, x, d) /\ d.type \notin Noise
    BY <1>1, <2>1 DEF UpNext, Noise
  <2>6. Linked(Messages, UpStep(opts, KeysExpected), m, Append(q, x), x)
    BY <2>4, ClientSends
  <2> QED BY <1>1, <2>3, <2>5, <2>6, ClientSends
<1>3. CASE ~opts.rdpSecurity
  <2>1. ClientInfo = <<>> \o <<d>>
    BY <1>1, <1>3 DEF ClientInfo
  <2>2. q \o ClientInfo = Append(q, d)
    BY <2>1
  <2>3. UpNext(opts, KeysExpected, c, d) /\ d.type \notin Noise
    BY <1>1, <1>3 DEF Secures, Noise
  <2> QED BY <1>1, <2>2, <2>3, ClientSends
<1> QED BY <1>2, <1>3

(* rdp_recv_pdu of the client, case by case.                               *)
LEMMA ClientRecvIs ==
    ASSUME TypeInv, NEW x \in Messages
    PROVE  /\ ClientRecvPdu(x).state = IF x.type = "DeactivateAll" THEN "DEMAND_ACTIVE" ELSE cstate
           /\ x.type \notin DOMAIN FlagOf /\ ~(x.type = "DeactivateAll" /\ cstate = "ACTIVE") =>
                ClientRecvPdu(x).flags = cflags
           /\ x.type \in DOMAIN FlagOf => ClientRecvPdu(x).flags = cflags \cup {FlagOf[x.type]}
           /\ x.type = "DeactivateAll" /\ cstate = "ACTIVE" => ClientRecvPdu(x).flags = cflags \cup {Reactivation}
           /\ ClientRecvPdu(x).layout \in BOOLEAN /\ (ClientRecvPdu(x).layout <=> (layoutPdu \/ x.type = "MonitorLayout"))
           /\ ClientRecvPdu(x).ok \in BOOLEAN
           /\ (ClientRecvPdu(x).ok <=> (~(x.type = "MonitorLayout" /\ layoutPdu) /\ x.type # "Ultimatum"))
<1>1. ClientRecvPdu(x).state = IF x.type = "DeactivateAll" THEN "DEMAND_ACTIVE" ELSE cstate
  BY DEF ClientRecvPdu
<1>2. ClientRecvPdu(x).flags = (cflags \cup (IF x.type \in DOMAIN FlagOf THEN {FlagOf[x.type]} ELSE {}))
                    \cup (IF x.type = "DeactivateAll" /\ cstate = "ACTIVE" THEN {Reactivation} ELSE {})
  BY DEF ClientRecvPdu
<1>3. "DeactivateAll" \notin DOMAIN FlagOf
  BY DEF FlagOf
<1>4. x.type \notin DOMAIN FlagOf /\ ~(x.type = "DeactivateAll" /\ cstate = "ACTIVE") =>
                ClientRecvPdu(x).flags = cflags
  BY <1>2
<1>5. x.type \in DOMAIN FlagOf => ClientRecvPdu(x).flags = cflags \cup {FlagOf[x.type]}
  BY <1>2, <1>3
<1>6. x.type = "DeactivateAll" /\ cstate = "ACTIVE" => ClientRecvPdu(x).flags = cflags \cup {Reactivation}
  BY <1>2, <1>3
<1>7. layoutPdu \in BOOLEAN
  BY DEF TypeInv, ClientOK
<1>8. ClientRecvPdu(x).layout = (layoutPdu \/ x.type = "MonitorLayout")
  BY DEF ClientRecvPdu
<1>9. ClientRecvPdu(x).ok = (~(x.type = "MonitorLayout" /\ layoutPdu) /\ x.type # "Ultimatum")
  BY DEF ClientRecvPdu
<1>10. ClientRecvPdu(x).layout \in BOOLEAN /\ ClientRecvPdu(x).ok \in BOOLEAN
  BY <1>8, <1>9, Zenon
<1> QED BY <1>1, <1>4, <1>5, <1>6, <1>8, <1>9, <1>10

(* The attach user confirm is read with the sides in step.                 *)
LEMMA AttachConfirmMoves ==
    ASSUME TypeInv, InStep, ClientAttachConfirm
    PROVE  InStep'
<1>1. PICK a \in Messages, m \in Messages, c \in Messages, b \in Messages, s \in Messages :
        Conversation(a, m, c, b, s)
  BY DEF InStep
<1>2. /\ Linked(Messages, UpStep(opts, KeysExpected), m, c2s, c) /\ Sent(c) /\ Seen(b)
      /\ Linked(Messages, DownStep(opts), b, s2c, s) /\ c2s \in Seq(Messages)
  BY <1>1 DEF Conversation, TypeInv, StreamsOK
<1>3. cstate = "MCS_ATTACH_USER_CONFIRM" /\ s2c # <<>> /\ Head(s2c).type = "AttachConfirm"
      /\ cstate' = IF opts.skipJoin THEN "AUTO_DETECT_REQUEST" ELSE "MCS_CHANNEL_JOIN_RESPONSE"
  BY DEF ClientAttachConfirm, Got
<1>4. /\ s2c' = Tail(s2c) /\ c2s' = c2s \o (IF opts.skipJoin THEN ClientInfo ELSE <<Msg("JoinRequest", 1)>>)
      /\ UNCHANGED <<opts, sstate, sflags, run, cur, joined, sclosed, demanded, confirmed, listed>>
  BY DEF ClientAttachConfirm, ClientStep, serverVars, answers
<1>5. PICK e \in Messages : e = Head(s2c) /\ e.type = "AttachConfirm" /\ Linked(Messages, DownStep(opts), e, s2c', s)
  BY <1>2, <1>3, <1>4, ClientTakes
<1>6. c.type = "AttachUser"
  BY <1>2, <1>3 DEF Sent
<1>7. CASE opts.skipJoin
  <2>1. \A x \in Messages : Secures(opts, x) => UpNext(opts, KeysExpected, c, x)
    BY <1>6, <1>7 DEF UpNext
  <2>2. PICK d \in Messages : d.type = "ClientInfo" /\ d.n = 0 /\ Linked(Messages, UpStep(opts, KeysExpected), m, c2s', d)
    BY <1>2, <1>4, <1>7, <2>1, ClientInfoLinks
  <2>3. cstate' = "AUTO_DETECT_REQUEST"
    BY <1>3, <1>7
  <2>4. Sent(d)'
    BY <2>2, <2>3 DEF Sent, FinalizationStates, ClientFinalizationStates
  <2>5. Seen(e)' /\ Joining(e, d)'
    BY <1>4, <1>5, <1>7, <2>3 DEF Seen, SaidJoined, Joining, FinalizationStates, ClientFinalizationStates, IsActiveClientState
  <2> QED BY <1>1, <1>4, <1>5, <2>2, <2>4, <2>5, ClientMoves
<1>8. CASE ~opts.skipJoin
  <2>1. PICK d \in Messages : d = Msg("JoinRequest", 1) /\ d.type = "JoinRequest" /\ d.n = 1
    BY NewMessage DEF Types
  <2>2. c2s' = c2s \o <<d>>
    BY <1>4, <1>8, <2>1
  <2>3. c2s' = Append(c2s, d)
    BY <1>2, <2>2
  <2>4. UpNext(opts, KeysExpected, c, d) /\ d.type \notin Noise
    BY <1>6, <1>8, <2>1 DEF UpNext, Noise
  <2>5. Linked(Messages, UpStep(opts, KeysExpected), m, c2s', d)
    BY <1>2, <2>3, <2>4, ClientSends
  <2>6. cstate' = "MCS_CHANNEL_JOIN_RESPONSE"
    BY <1>3, <1>8
  <2>7. Sent(d)'
    BY <2>1, <2>6, PeerAssumption DEF Sent, FinalizationStates, ClientFinalizationStates, PeerAssumption
  <2>8. Seen(e)' /\ Joining(e, d)'
    BY <1>4, <1>5, <1>8, <2>1, <2>6 DEF Seen, SaidJoined, Joining, FinalizationStates, ClientFinalizationStates, IsActiveClientState
  <2> QED BY <1>1, <1>4, <1>5, <2>5, <2>7, <2>8, ClientMoves
<1> QED BY <1>7, <1>8

(* A join confirm is the one of the channel the client has asked for last. *)
LEMMA JoinConfirmMoves ==
    ASSUME TypeInv, InStep, ClientJoinConfirm
    PROVE  InStep'
<1>1. PICK a \in Messages, m \in Messages, c \in Messages, b \in Messages, s \in Messages :
        Conversation(a, m, c, b, s)
  BY DEF InStep
<1>2. /\ Linked(Messages, UpStep(opts, KeysExpected), m, c2s, c) /\ Sent(c) /\ Seen(b) /\ Joining(b, c)
      /\ Linked(Messages, DownStep(opts), b, s2c, s) /\ c2s \in Seq(Messages)
  BY <1>1 DEF Conversation, TypeInv, StreamsOK
<1>3. cstate = "MCS_CHANNEL_JOIN_RESPONSE" /\ s2c # <<>> /\ Head(s2c).type = "JoinConfirm"
      /\ cstate' = IF Head(s2c).n < NChannels THEN cstate ELSE "AUTO_DETECT_REQUEST"
  BY DEF ClientJoinConfirm, Got
<1>4. /\ s2c' = Tail(s2c)
      /\ c2s' = c2s \o (IF Head(s2c).n < NChannels THEN <<Msg("JoinRequest", Head(s2c).n + 1)>> ELSE ClientInfo)
      /\ UNCHANGED <<opts, sstate, sflags, run, cur, joined, sclosed, demanded, confirmed, listed>>
  BY DEF ClientJoinConfirm, ClientStep, serverVars, answers
<1>5. PICK e \in Messages : e = Head(s2c) /\ e.type = "JoinConfirm" /\ DownNext(opts, b, e)
                            /\ Linked(Messages, DownStep(opts), e, s2c', s)
  BY <1>2, <1>3, <1>4, ClientTakes
<1>6. c.type = "JoinRequest" /\ c.n \in 1 .. NChannels /\ b.type \in {"AttachConfirm", "JoinConfirm"} /\ ~opts.skipJoin
      /\ c.n = (IF b.type = "JoinConfirm" THEN b.n + 1 ELSE 1)
  BY <1>2, <1>3 DEF Sent, Seen, Joining
<1>7. NChannels \in Nat \ {0} /\ e.n \in Nat
  BY <1>5, PeerAssumption, MessageIs DEF PeerAssumption
<1>8. e.n = c.n
  BY <1>5, <1>6 DEF DownNext, Late
<1>9. CASE e.n < NChannels
  <2>1. PICK d \in Messages : d = Msg("JoinRequest", e.n + 1) /\ d.type = "JoinRequest" /\ d.n = e.n + 1
    BY <1>7, NewMessage DEF Types
  <2>2. c2s' = c2s \o <<d>>
    BY <1>4, <1>5, <1>9, <2>1
  <2>3. c2s' = Append(c2s, d)
    BY <1>2, <2>2
  <2>4. UpNext(opts, KeysExpected, c, d) /\ d.type \notin Noise
    BY <1>6, <1>8, <1>9, <2>1 DEF UpNext, Noise
  <2>5. Linked(Messages, UpStep(opts, KeysExpected), m, c2s', d)
    BY <1>2, <2>3, <2>4, ClientSends
  <2>6. cstate' = "MCS_CHANNEL_JOIN_RESPONSE"
    BY <1>3, <1>5, <1>9
  <2>7. d.n \in 1 .. NChannels
    BY <1>6, <1>7, <1>8, <1>9, <2>1
  <2>8. Sent(d)'
    BY <2>1, <2>6, <2>7 DEF Sent, FinalizationStates, ClientFinalizationStates
  <2>9. Seen(e)' /\ Joining(e, d)'
    BY <1>4, <1>5, <1>6, <2>1, <2>6 DEF Seen, SaidJoined, Joining, FinalizationStates, ClientFinalizationStates, IsActiveClientState
  <2> QED BY <1>1, <1>4, <1>5, <2>5, <2>8, <2>9, ClientMoves
<1>10. CASE ~(e.n < NChannels)
  <2>0. c.n >= NChannels /\ e.n = NChannels
    BY <1>6, <1>7, <1>8, <1>10
  <2>1. \A x \in Messages : Secures(opts, x) => UpNext(opts, KeysExpected, c, x)
    BY <1>6, <2>0 DEF UpNext
  <2>2. PICK d \in Messages : d.type = "ClientInfo" /\ d.n = 0 /\ Linked(Messages, UpStep(opts, KeysExpected), m, c2s', d)
    <3>1. c2s' = c2s \o ClientInfo
      BY <1>4, <1>5, <1>10
    <3> QED BY <1>2, <2>1, <3>1, ClientInfoLinks
  <2>3. cstate' = "AUTO_DETECT_REQUEST"
    BY <1>3, <1>5, <1>10
  <2>4. Sent(d)'
    BY <2>2, <2>3 DEF Sent, FinalizationStates, ClientFinalizationStates
  <2>5. Seen(e)' /\ Joining(e, d)'
    BY <1>5, <2>0, <2>3 DEF Seen, SaidJoined, Joining, FinalizationStates, ClientFinalizationStates, IsActiveClientState
  <2> QED BY <1>1, <1>4, <1>5, <2>2, <2>4, <2>5, ClientMoves
<1> QED BY <1>9, <1>10

(* The licence is read with the sides in step.                             *)
LEMMA LicenseMoves ==
    ASSUME TypeInv, InStep, ClientTryAgain \/ ClientLicense
    PROVE  InStep'
<1>1. PICK a \in Messages, m \in Messages, c \in Messages, b \in Messages, s \in Messages :
        Conversation(a, m, c, b, s)
  BY DEF InStep
<1>2. /\ Linked(Messages, UpStep(opts, KeysExpected), m, c2s, c) /\ Sent(c) /\ Seen(b) /\ Joining(b, c)
      /\ Linked(Messages, DownStep(opts), b, s2c, s) /\ c2s \in Seq(Messages)
  BY <1>1 DEF Conversation, TypeInv, StreamsOK
<1>3. /\ s2c' \in {s2c, Tail(s2c)} /\ c2s' = c2s \o <<>>
      /\ UNCHANGED <<opts, sstate, sflags, run, cur, joined, sclosed, demanded, confirmed, listed, cdemand>>
  BY ClientStepIs DEF ClientTryAgain, ClientLicense
<1>4. Linked(Messages, UpStep(opts, KeysExpected), m, c2s', c)
  BY <1>2, <1>3
<1>5. cdemand \in Nat /\ cdemand' = cdemand
  BY <1>3 DEF TypeInv, ClientOK
<1>6. CASE ClientTryAgain
  <2>1. s2c' = s2c
    BY <1>6, ClientStepIs DEF ClientTryAgain
  <2>2. \/ cstate = "AUTO_DETECT_REQUEST" /\ cstate' = "LICENSING"
        \/ cstate = "MULTITRANSPORT_REQUEST" /\ cstate' = "DEMAND_ACTIVE"
    BY <1>6 DEF ClientTryAgain
  <2>3. Sent(c)'
    BY <1>2, <1>5, <2>2 DEF Sent, FinalizationStates, ClientFinalizationStates
  <2>4. Seen(b)' /\ Joining(b, c)'
    BY <1>2, <1>3, <2>2 DEF Seen, SaidJoined, Joining, FinalizationStates, ClientFinalizationStates, IsActiveClientState
  <2> QED BY <1>1, <1>2, <1>3, <1>4, <2>1, <2>3, <2>4, ClientMoves
<1>7. CASE ClientLicense
  <2>1. cstate = "LICENSING" /\ s2c # <<>> /\ Head(s2c).type = "License"
        /\ cstate' \in {"MULTITRANSPORT_REQUEST", "DEMAND_ACTIVE"} /\ s2c' = Tail(s2c)
    BY <1>7, ClientStepIs DEF ClientLicense, Got
  <2>2. PICK e \in Messages : e = Head(s2c) /\ e.type = "License" /\ Linked(Messages, DownStep(opts), e, s2c', s)
    BY <1>2, <2>1, ClientTakes
  <2>3. Sent(c)'
    BY <1>2, <1>5, <2>1 DEF Sent, FinalizationStates, ClientFinalizationStates
  <2>4. Seen(e)' /\ Joining(e, c)'
    BY <2>1, <2>2 DEF Seen, SaidJoined, Joining, FinalizationStates, ClientFinalizationStates, IsActiveClientState
  <2> QED BY <1>1, <1>3, <1>4, <2>2, <2>3, <2>4, ClientMoves
<1> QED BY <1>6, <1>7

(* A demand is read where the client awaits one, with a newer number than  *)
(* any before it.                                                          *)
LEMMA ClientDemandActiveMoves ==
    ASSUME TypeInv, InStep, DemandsOK, ShutdownOK, HonestClientKept, ClientDemandActive
    PROVE  InStep' /\ HonestClientKept'
<1>1. PICK a \in Messages, m \in Messages, c \in Messages, b \in Messages, s \in Messages :
        Conversation(a, m, c, b, s)
  BY DEF InStep
<1>2. /\ Linked(Messages, UpStep(opts, KeysExpected), m, c2s, c) /\ Sent(c) /\ Seen(b)
      /\ Linked(Messages, DownStep(opts), b, s2c, s) /\ c2s \in Seq(Messages) /\ s2c \in Seq(Messages)
  BY <1>1 DEF Conversation, TypeInv, StreamsOK
<1>3. cstate = "DEMAND_ACTIVE" /\ s2c # <<>>
  BY DEF ClientDemandActive
<1>4. /\ ~cclosed /\ s2c' = Tail(s2c) /\ c2s' = c2s \o <<>>
      /\ UNCHANGED <<opts, sstate, sflags, run, cur, joined, sclosed, demanded, confirmed, listed, shutdowns>>
  BY ClientStepIs DEF ClientDemandActive
<1>5. Linked(Messages, UpStep(opts, KeysExpected), m, c2s', c)
  BY <1>2, <1>4
<1>6. PICK h \in Messages : h = Head(s2c)
  BY <1>2, <1>3, ClientTakes
<1>7. /\ h.type # "Ultimatum" => DownNext(opts, b, h) /\ Linked(Messages, DownStep(opts), h, s2c', s)
      /\ h.type = "Ultimatum" => Linked(Messages, DownStep(opts), b, s2c', s)
  BY <1>2, <1>3, <1>4, <1>6, ClientTakes
<1>8. /\ cstate' = IF h.type = "DemandActive" THEN "CONFIRM_ACTIVE" ELSE cstate
      /\ cdemand' = IF h.type = "DemandActive" THEN h.n ELSE cdemand
      /\ cclosed' = (~ClientRecvPdu(h).ok \/ h.type = "DeactivateAll")
  BY <1>6 DEF ClientDemandActive
<1>9. /\ b.type \in {"License", "DeactivateAll"}
      /\ c.type \in {"ClientInfo", "FontList"}
      /\ c.n <= cdemand /\ c.n \in Nat /\ cdemand \in Nat /\ h.n \in Nat
  BY <1>2, <1>3, MessageIs DEF Seen, Sent, TypeInv, ClientOK
<1>10. h.type = "Ultimatum" \/ h.type = "DemandActive"
  BY <1>7, <1>9 DEF DownNext
<1>11. CASE h.type = "Ultimatum"
  <2>1. cstate' = cstate /\ cdemand' = cdemand
    BY <1>8, <1>11
  <2>2. Sent(c)' /\ Seen(b)' /\ Joining(b, c)'
    BY <1>2, <1>3, <1>4, <2>1 DEF Sent, Seen, SaidJoined, Joining, FinalizationStates, ClientFinalizationStates, IsActiveClientState
  <2>3. InStep'
    BY <1>1, <1>4, <1>5, <1>7, <1>11, <2>2, ClientMoves
  <2>4. shutdowns # 0
    <3>1. 1 \in DOMAIN s2c /\ s2c[1] = h
      BY <1>2, <1>3, <1>6
    <3> QED BY <1>11, <3>1 DEF ShutdownOK
  <2> QED BY <1>4, <2>3, <2>4 DEF HonestClientKept
<1>12. CASE h.type = "DemandActive"
  <2>1. cstate' = "CONFIRM_ACTIVE" /\ cdemand' = h.n
    BY <1>8, <1>12
  <2>2. cdemand < h.n
    <3>1. 1 \in DOMAIN s2c /\ s2c[1] = h
      BY <1>2, <1>3, <1>6
    <3> QED BY <1>12, <3>1 DEF DemandsOK
  <2>3. c.n < cdemand'
    BY <1>9, <2>1, <2>2
  <2>4. Sent(c)'
    BY <1>4, <1>9, <2>1, <2>3 DEF Sent, FinalizationStates, ClientFinalizationStates
  <2>5. Seen(h)' /\ Joining(h, c)'
    BY <1>12, <2>1 DEF Seen, SaidJoined, Joining, FinalizationStates, ClientFinalizationStates, IsActiveClientState, Late
  <2>6. InStep'
    BY <1>1, <1>4, <1>5, <1>7, <1>12, <2>4, <2>5, ClientMoves
  <2>7. cclosed' = FALSE
    <3>1. ClientRecvPdu(h).ok
      BY <1>12, ClientRecvIs
    <3> QED BY <1>8, <1>12, <3>1
  <2> QED BY <1>4, <2>6, <2>7 DEF HonestClientKept
<1> QED BY <1>10, <1>11, <1>12

(* The client's answer bears the number of the last demand it has read.    *)
LEMMA ClientConfirmActiveMoves ==
    ASSUME TypeInv, InStep, HonestClientKept, ClientConfirmActive
    PROVE  InStep' /\ HonestClientKept'
<1>1. PICK a \in Messages, m \in Messages, c \in Messages, b \in Messages, s \in Messages :
        Conversation(a, m, c, b, s)
  BY DEF InStep
<1>2. /\ Linked(Messages, UpStep(opts, KeysExpected), m, c2s, c) /\ Sent(c) /\ Seen(b)
      /\ Linked(Messages, DownStep(opts), b, s2c, s) /\ c2s \in Seq(Messages)
  BY <1>1 DEF Conversation, TypeInv, StreamsOK
<1>3. cstate = "CONFIRM_ACTIVE" /\ cdemand' = cdemand /\ cclosed' = cclosed
      /\ cstate' = IF opts.layout THEN "MONITOR_LAYOUT" ELSE "FINALIZATION_SYNC"
  BY DEF ClientConfirmActive
<1>4. PICK d \in Messages : d = Msg("ConfirmActive", cdemand) /\ d.type = "ConfirmActive" /\ d.n = cdemand
  BY NewMessage DEF Types, TypeInv, ClientOK
<1>5. /\ s2c' = s2c /\ c2s' = c2s \o <<d>>
      /\ UNCHANGED <<opts, sstate, sflags, run, cur, joined, sclosed, demanded, confirmed, listed, shutdowns>>
  BY <1>4, ClientStepIs DEF ClientConfirmActive
<1>6. /\ c.type \in {"ClientInfo", "FontList"}
      /\ c.n < cdemand /\ b.type = "DemandActive" /\ b.type \in Late
  BY <1>2, <1>3 DEF Sent, Seen
<1>7. Linked(Messages, UpStep(opts, KeysExpected), m, c2s', d)
  <2>1. UpNext(opts, KeysExpected, c, d) /\ d.type \notin Noise
    BY <1>4, <1>6 DEF UpNext, Noise
  <2>2. c2s' = Append(c2s, d)
    BY <1>2, <1>5
  <2> QED BY <1>2, <2>1, <2>2, ClientSends
<1>8. cstate' \in {"MONITOR_LAYOUT", "FINALIZATION_SYNC"} /\ (cstate' = "FINALIZATION_SYNC" => ~opts'.layout)
  BY <1>3, <1>5
<1>9. Sent(d)'
  BY <1>3, <1>4, <1>8 DEF Sent, FinalizationStates, ClientFinalizationStates
<1>10. Seen(b)'
  BY <1>5, <1>6, <1>8 DEF Seen, SaidJoined, FinalizationStates, ClientFinalizationStates, IsActiveClientState
<1>11. Joining(b, d)'
  BY <1>8 DEF Joining
<1>12. InStep'
  BY <1>1, <1>2, <1>5, <1>7, <1>9, <1>10, <1>11, ClientMoves
<1> QED BY <1>3, <1>5, <1>12 DEF HonestClientKept

(* What the client sends in the finalization, state by state.              *)
LEMMA BatchIs ==
    /\ ClientBatch["FINALIZATION_SYNC"].pdu = "Sync"
    /\ ClientBatch["FINALIZATION_SYNC"].next = "FINALIZATION_COOPERATE"
    /\ ClientBatch["FINALIZATION_COOPERATE"].pdu = "Cooperate"
    /\ ClientBatch["FINALIZATION_COOPERATE"].next = "FINALIZATION_REQUEST_CONTROL"
    /\ ClientBatch["FINALIZATION_REQUEST_CONTROL"].pdu = "Request"
    /\ ClientBatch["FINALIZATION_REQUEST_CONTROL"].next =
         IF opts.keys /\ Reactivation \notin cflags THEN "FINALIZATION_PERSISTENT_KEY_LIST"
         ELSE "FINALIZATION_FONT_LIST"
    /\ ClientBatch["FINALIZATION_PERSISTENT_KEY_LIST"].pdu = "Keys"
    /\ ClientBatch["FINALIZATION_PERSISTENT_KEY_LIST"].next = "FINALIZATION_FONT_LIST"
    /\ ClientBatch["FINALIZATION_FONT_LIST"].pdu = "FontList"
    /\ ClientBatch["FINALIZATION_FONT_LIST"].next = "FINALIZATION_CLIENT_SYNC"
BY DEF ClientBatch, Batch

(* The client's finalization PDUs follow each other as the server expects  *)
(* them; it leaves out the keys only when the server does not expect them. *)
LEMMA ClientFinalizeMoves ==
    ASSUME TypeInv, InStep, ReactivationOK, HonestClientKept, ClientFinalize
    PROVE  InStep' /\ HonestClientKept'
<1>1. PICK a \in Messages, m \in Messages, c \in Messages, b \in Messages, s \in Messages :
        Conversation(a, m, c, b, s)
  BY DEF InStep
<1>2. /\ Linked(Messages, UpStep(opts, KeysExpected), m, c2s, c) /\ Sent(c) /\ Seen(b)
      /\ Linked(Messages, DownStep(opts), b, s2c, s) /\ c2s \in Seq(Messages)
  BY <1>1 DEF Conversation, TypeInv, StreamsOK
<1>3. cstate \in FinalizationStates /\ UNCHANGED <<cdemand, cclosed, cflags>>
      /\ cstate' = ClientBatch[cstate].next
  BY DEF ClientFinalize
<1>4. /\ s2c' = s2c /\ c2s' = c2s \o <<Msg(ClientBatch[cstate].pdu, cdemand)>>
      /\ UNCHANGED <<opts, sstate, sflags, run, cur, joined, sclosed, demanded, confirmed, listed, shutdowns>>
  BY ClientStepIs DEF ClientFinalize
<1>5. ASSUME NEW t \in Types, ClientBatch[cstate].pdu = t, t \notin Noise,
             \A d \in Messages : d.type = t /\ d.n = c.n => UpNext(opts, KeysExpected, c, d)
      PROVE  \E d \in Messages : d.type = t /\ d.n = cdemand /\ d.n = c.n
                                 /\ Linked(Messages, UpStep(opts, KeysExpected), m, c2s', d)
  <2>1. PICK d \in Messages : d = Msg(t, cdemand) /\ d.type = t /\ d.n = cdemand
    BY NewMessage DEF TypeInv, ClientOK
  <2>2. c2s' = c2s \o <<d>>
    BY <1>4, <1>5, <2>1
  <2>3. c2s' = Append(c2s, d)
    BY <1>2, <2>2
  <2>4. c.n = cdemand
    BY <1>2, <1>3 DEF Sent
  <2>5. UpNext(opts, KeysExpected, c, d) /\ d.type \notin Noise
    BY <1>5, <2>1, <2>4
  <2>6. Linked(Messages, UpStep(opts, KeysExpected), m, c2s', d)
    BY <1>2, <2>3, <2>5, ClientSends
  <2> QED BY <2>1, <2>4, <2>6
<1>6. ASSUME NEW d \in Messages, Linked(Messages, UpStep(opts, KeysExpected), m, c2s', d), Sent(d)',
             cstate' \in FinalizationStates \cup {"FINALIZATION_CLIENT_SYNC"}
      PROVE  InStep'
  <2>1. b.type \in Late /\ b.type = (IF opts.layout THEN "MonitorLayout" ELSE "DemandActive")
    BY <1>2, <1>3 DEF Seen, IsActiveClientState
  <2>2. Seen(b)' /\ Joining(b, d)'
    BY <1>4, <1>6, <2>1 DEF Seen, Joining, SaidJoined, FinalizationStates, ClientFinalizationStates, IsActiveClientState
  <2> QED BY <1>1, <1>2, <1>4, <1>6, <2>2, ClientMoves
<1>7. HonestClientKept'
  BY <1>3, <1>4 DEF HonestClientKept
<1>8. {"Sync", "Cooperate", "Request", "Keys", "FontList"} \subseteq Types
        /\ {"Sync", "Cooperate", "Request", "Keys", "FontList"} \cap Noise = {}
  BY DEF Types, Noise
<1>9. CASE cstate = "FINALIZATION_SYNC"
  <2>1. \A d \in Messages : d.type = "Sync" /\ d.n = c.n => UpNext(opts, KeysExpected, c, d)
    BY <1>2, <1>9 DEF Sent, UpNext
  <2>2. PICK d \in Messages : d.type = "Sync" /\ d.n = cdemand /\ Linked(Messages, UpStep(opts, KeysExpected), m, c2s', d)
    BY <1>5, <1>8, <1>9, <2>1, BatchIs
  <2>3. cstate' = "FINALIZATION_COOPERATE"
    BY <1>3, <1>9, BatchIs
  <2>4. Sent(d)'
    BY <1>3, <2>2, <2>3 DEF Sent, FinalizationStates, ClientFinalizationStates
  <2> QED BY <1>6, <1>7, <2>2, <2>3, <2>4 DEF FinalizationStates
<1>10. CASE cstate = "FINALIZATION_COOPERATE"
  <2>1. \A d \in Messages : d.type = "Cooperate" /\ d.n = c.n => UpNext(opts, KeysExpected, c, d)
    BY <1>2, <1>10 DEF Sent, UpNext
  <2>2. PICK d \in Messages : d.type = "Cooperate" /\ d.n = cdemand /\ Linked(Messages, UpStep(opts, KeysExpected), m, c2s', d)
    BY <1>5, <1>8, <1>10, <2>1, BatchIs
  <2>3. cstate' = "FINALIZATION_REQUEST_CONTROL"
    BY <1>3, <1>10, BatchIs
  <2>4. Sent(d)'
    BY <1>3, <2>2, <2>3 DEF Sent, FinalizationStates, ClientFinalizationStates
  <2> QED BY <1>6, <1>7, <2>2, <2>3, <2>4 DEF FinalizationStates
<1>11. CASE cstate = "FINALIZATION_REQUEST_CONTROL"
  <2>1. \A d \in Messages : d.type = "Request" /\ d.n = c.n => UpNext(opts, KeysExpected, c, d)
    BY <1>2, <1>11 DEF Sent, UpNext
  <2>2. PICK d \in Messages : d.type = "Request" /\ d.n = cdemand /\ Linked(Messages, UpStep(opts, KeysExpected), m, c2s', d)
    BY <1>5, <1>8, <1>11, <2>1, BatchIs
  <2>3. \/ cstate' = "FINALIZATION_PERSISTENT_KEY_LIST"
        \/ cstate' = "FINALIZATION_FONT_LIST" /\ (opts'.keys => Reactivation \in cflags')
    BY <1>3, <1>4, <1>11, BatchIs
  <2>4. Sent(d)'
    BY <1>3, <2>2, <2>3 DEF Sent, FinalizationStates, ClientFinalizationStates
  <2> QED BY <1>6, <1>7, <2>2, <2>3, <2>4 DEF FinalizationStates
<1>12. CASE cstate = "FINALIZATION_PERSISTENT_KEY_LIST"
  <2>1. \A d \in Messages : d.type = "Keys" /\ d.n = c.n => UpNext(opts, KeysExpected, c, d)
    BY <1>2, <1>12 DEF Sent, UpNext
  <2>2. PICK d \in Messages : d.type = "Keys" /\ d.n = cdemand /\ Linked(Messages, UpStep(opts, KeysExpected), m, c2s', d)
    BY <1>5, <1>8, <1>12, <2>1, BatchIs
  <2>3. cstate' = "FINALIZATION_FONT_LIST"
    BY <1>3, <1>12, BatchIs
  <2>4. Sent(d)'
    BY <1>3, <2>2, <2>3 DEF Sent, FinalizationStates, ClientFinalizationStates
  <2> QED BY <1>6, <1>7, <2>2, <2>3, <2>4 DEF FinalizationStates
<1>13. CASE cstate = "FINALIZATION_FONT_LIST"
  <2>0. c.type = "Keys" \/ (c.type = "Request" /\ ~KeysExpected)
    BY <1>2, <1>13 DEF Sent, ReactivationOK, KeysExpected
  <2>1. \A d \in Messages : d.type = "FontList" /\ d.n = c.n => UpNext(opts, KeysExpected, c, d)
    BY <2>0 DEF UpNext
  <2>2. PICK d \in Messages : d.type = "FontList" /\ d.n = cdemand /\ Linked(Messages, UpStep(opts, KeysExpected), m, c2s', d)
    BY <1>5, <1>8, <1>13, <2>1, BatchIs
  <2>3. cstate' = "FINALIZATION_CLIENT_SYNC"
    BY <1>3, <1>13, BatchIs
  <2>4. Sent(d)'
    BY <1>3, <2>2, <2>3 DEF Sent, FinalizationStates, ClientFinalizationStates
  <2> QED BY <1>6, <1>7, <2>2, <2>3, <2>4 DEF FinalizationStates
<1> QED BY <1>3, <1>9, <1>10, <1>11, <1>12, <1>13 DEF FinalizationStates

(* An ultimatum reaches a client only if it has asked for the end.         *)
LEMMA HeadEnds ==
    ASSUME TypeInv, ShutdownOK, s2c # <<>>, Head(s2c).type = "Ultimatum"
    PROVE  shutdowns # 0
<1>1. 1 \in DOMAIN s2c /\ s2c[1] = Head(s2c)
  BY DEF TypeInv, StreamsOK
<1> QED BY <1>1 DEF ShutdownOK

(* A client that awaits the monitor layout gets it, or nothing that is not *)
(* the server's to send.                                                   *)
LEMMA ClientMonitorLayoutMoves ==
    ASSUME TypeInv, InStep, ShutdownOK, LayoutOK, HonestClientKept, ClientMonitorLayout
    PROVE  InStep' /\ HonestClientKept'
<1>1. PICK a \in Messages, m \in Messages, c \in Messages, b \in Messages, s \in Messages :
        Conversation(a, m, c, b, s)
  BY DEF InStep
<1>2. /\ Linked(Messages, UpStep(opts, KeysExpected), m, c2s, c) /\ Sent(c) /\ Seen(b)
      /\ Linked(Messages, DownStep(opts), b, s2c, s) /\ c2s \in Seq(Messages) /\ s2c \in Seq(Messages)
  BY <1>1 DEF Conversation, TypeInv, StreamsOK
<1>3. cstate = "MONITOR_LAYOUT" /\ s2c # <<>> /\ cdemand' = cdemand /\ opts.layout /\ ~layoutPdu
  BY DEF ClientMonitorLayout, LayoutOK
<1>4. PICK h \in Messages : h = Head(s2c)
  BY <1>2, <1>3, ClientTakes
<1> DEFINE r == ClientRecvPdu(h)
           changed == r.flags # cflags \/ r.layout
           failed == ~r.ok \/ (changed /\ ~r.layout /\ "SC_SYNC" \notin r.flags)
<1>5. /\ cclosed' = failed
      /\ cstate' = IF changed /\ ~failed THEN "FINALIZATION_SYNC" ELSE r.state
      /\ ClientStep(IF changed /\ ~r.layout THEN s2c ELSE Tail(s2c), <<>>)
  BY <1>4 DEF ClientMonitorLayout
<1>6. /\ s2c' = IF changed /\ ~r.layout THEN s2c ELSE Tail(s2c)
      /\ c2s' = c2s \o <<>>
      /\ UNCHANGED <<opts, sstate, sflags, run, cur, joined, sclosed, demanded, confirmed, listed, shutdowns>>
  BY <1>5 DEF ClientStep, serverVars, answers, budget
<1>7. Linked(Messages, UpStep(opts, KeysExpected), m, c2s', c)
  BY <1>2, <1>6
<1>8. c.type = "ConfirmActive" /\ c.n = cdemand /\ b.type = "DemandActive" /\ b.type \in Late
  BY <1>2, <1>3 DEF Sent, Seen
<1>9. /\ h.type # "Ultimatum" => DownNext(opts, b, h) /\ Linked(Messages, DownStep(opts), h, Tail(s2c), s)
      /\ h.type = "Ultimatum" => Linked(Messages, DownStep(opts), b, Tail(s2c), s)
  BY <1>2, <1>3, <1>4, ClientTakes
<1>10. h.type = "Ultimatum" \/ h.type = "MonitorLayout"
  BY <1>3, <1>8, <1>9 DEF DownNext
<1>11. CASE h.type = "Ultimatum"
  <2>1. r.flags = cflags /\ ~r.layout /\ r.state = cstate
    BY <1>3, <1>11, ClientRecvIs DEF FlagOf
  <2>2. s2c' = Tail(s2c) /\ cstate' = cstate
    BY <1>5, <1>6, <2>1
  <2>3. Sent(c)' /\ Seen(b)' /\ Joining(b, c)'
    BY <1>3, <1>6, <1>8, <2>2 DEF Sent, Seen, SaidJoined, Joining, FinalizationStates, ClientFinalizationStates, IsActiveClientState
  <2>4. InStep'
    BY <1>1, <1>6, <1>7, <1>9, <1>11, <2>2, <2>3, ClientMoves
  <2>5. shutdowns # 0
    BY <1>3, <1>4, <1>11, HeadEnds
  <2> QED BY <1>6, <2>4, <2>5 DEF HonestClientKept
<1>12. CASE h.type = "MonitorLayout"
  <2>1. r.layout /\ r.ok
    BY <1>3, <1>12, ClientRecvIs
  <2>2. changed /\ ~failed
    BY <2>1
  <2>3. s2c' = Tail(s2c) /\ cstate' = "FINALIZATION_SYNC" /\ cclosed' = FALSE
    BY <1>5, <1>6, <2>1, <2>2
  <2>4. Sent(c)' /\ Seen(h)' /\ Joining(h, c)'
    BY <1>3, <1>6, <1>8, <1>12, <2>3 DEF Sent, Seen, SaidJoined, Joining, FinalizationStates, ClientFinalizationStates, IsActiveClientState, Late
  <2>5. InStep'
    BY <1>1, <1>6, <1>7, <1>9, <1>12, <2>3, <2>4, ClientMoves
  <2> QED BY <1>6, <2>3, <2>5 DEF HonestClientKept
<1> QED BY <1>10, <1>11, <1>12

(* What the client gets while it finalizes or is active keeps the sides in *)
(* step.                                                                   *)
LEMMA ClientReceiveMoves ==
    ASSUME TypeInv, InStep, ShutdownOK, HonestClientKept, ClientReceive
    PROVE  InStep' /\ HonestClientKept'
<1>1. PICK a \in Messages, m \in Messages, c \in Messages, b \in Messages, s \in Messages :
        Conversation(a, m, c, b, s)
  BY DEF InStep
<1>2. /\ Linked(Messages, UpStep(opts, KeysExpected), m, c2s, c) /\ Sent(c) /\ Seen(b)
      /\ Linked(Messages, DownStep(opts), b, s2c, s) /\ c2s \in Seq(Messages) /\ s2c \in Seq(Messages)
  BY <1>1 DEF Conversation, TypeInv, StreamsOK
<1>3. cstate \in ClientFinalizationStates \cup {"ACTIVE"} /\ s2c # <<>> /\ cdemand' = cdemand
  BY DEF ClientReceive, IsActiveClientState
<1>4. PICK h \in Messages : h = Head(s2c)
  BY <1>2, <1>3, ClientTakes
<1> DEFINE r == ClientRecvPdu(h)
<1>5. /\ cclosed' = ~r.ok
      /\ cstate' = IF r.ok /\ cstate \in DOMAIN Awaited /\ Awaited[cstate] \in r.flags
                   THEN Following[cstate] ELSE r.state
  BY <1>4 DEF ClientReceive
<1>6. /\ s2c' = Tail(s2c) /\ c2s' = c2s \o <<>>
      /\ UNCHANGED <<opts, sstate, sflags, run, cur, joined, sclosed, demanded, confirmed, listed, shutdowns>>
  BY ClientStepIs DEF ClientReceive
<1>7. Linked(Messages, UpStep(opts, KeysExpected), m, c2s', c)
  BY <1>2, <1>6
<1>8. c.type = "FontList" /\ c.n = cdemand /\ b.type \in Late /\ cdemand \in Nat
  BY <1>2, <1>3 DEF Sent, Seen, IsActiveClientState, TypeInv, ClientOK
<1>9. /\ h.type # "Ultimatum" => DownNext(opts, b, h) /\ Linked(Messages, DownStep(opts), h, s2c', s)
      /\ h.type = "Ultimatum" => Linked(Messages, DownStep(opts), b, s2c', s)
  BY <1>2, <1>3, <1>4, <1>6, ClientTakes
<1>10. cstate' \in ClientFinalizationStates \cup {"ACTIVE", "DEMAND_ACTIVE"}
  <2>1. cstate \in DOMAIN Awaited => Following[cstate] \in ClientFinalizationStates \cup {"ACTIVE"}
    BY DEF Awaited, Following, ClientFinalizationStates
  <2>2. r.state \in {cstate, "DEMAND_ACTIVE"}
    BY ClientRecvIs
  <2> QED BY <1>3, <1>5, <2>1, <2>2
<1>11. Sent(c)'
  BY <1>3, <1>6, <1>8, <1>10 DEF Sent, FinalizationStates, ClientFinalizationStates
<1>12. CASE h.type = "Ultimatum"
  <2>1. ~r.ok /\ r.state = cstate
    BY <1>12, ClientRecvIs
  <2>2. cstate' = cstate
    BY <1>5, <2>1
  <2>3. Seen(b)' /\ Joining(b, c)'
    BY <1>2, <1>3, <1>6, <2>2 DEF Seen, SaidJoined, Joining, FinalizationStates, ClientFinalizationStates, IsActiveClientState
  <2>4. InStep'
    BY <1>1, <1>6, <1>7, <1>9, <1>11, <1>12, <2>3, ClientMoves
  <2>5. shutdowns # 0
    BY <1>3, <1>4, <1>12, HeadEnds
  <2> QED BY <1>6, <2>4, <2>5 DEF HonestClientKept
<1>14. CASE h.type # "Ultimatum"
  <2>1. /\ cstate = "FINALIZATION_CLIENT_SYNC" => h.type = "Sync"
        /\ cstate = "FINALIZATION_CLIENT_COOPERATE" => h.type = "Cooperate"
        /\ cstate = "FINALIZATION_CLIENT_GRANTED_CONTROL" => h.type = "Granted"
        /\ cstate = "FINALIZATION_CLIENT_FONT_MAP" => h.type = "FontMap"
        /\ cstate = "ACTIVE" => h.type = "DeactivateAll"
    <3>1. /\ cstate = "FINALIZATION_CLIENT_SYNC" => b.type = (IF opts.layout THEN "MonitorLayout" ELSE "DemandActive")
          /\ cstate = "FINALIZATION_CLIENT_COOPERATE" => b.type = "Sync"
          /\ cstate = "FINALIZATION_CLIENT_GRANTED_CONTROL" => b.type = "Cooperate"
          /\ cstate = "FINALIZATION_CLIENT_FONT_MAP" => b.type = "Granted"
          /\ cstate = "ACTIVE" => b.type = "FontMap"
      BY <1>2, <1>14 DEF Seen
    <3>2. DownNext(opts, b, h)
      BY <1>9, <1>14
    <3> QED BY <3>1, <3>2 DEF DownNext
  <2>2. h.type # "MonitorLayout"
    BY <1>3, <2>1 DEF ClientFinalizationStates
  <2>3. r.ok
    BY <1>14, <2>2, ClientRecvIs
  <2>4. /\ cstate = "FINALIZATION_CLIENT_SYNC" => cstate' = "FINALIZATION_CLIENT_COOPERATE"
        /\ cstate = "FINALIZATION_CLIENT_COOPERATE" => cstate' = "FINALIZATION_CLIENT_GRANTED_CONTROL"
        /\ cstate = "FINALIZATION_CLIENT_GRANTED_CONTROL" => cstate' = "FINALIZATION_CLIENT_FONT_MAP"
        /\ cstate = "FINALIZATION_CLIENT_FONT_MAP" => cstate' = "ACTIVE"
        /\ cstate = "ACTIVE" => cstate' = "DEMAND_ACTIVE"
    <3>1. h.type \in DOMAIN FlagOf => FlagOf[h.type] \in r.flags
      BY ClientRecvIs
    <3>2. /\ h.type = "Sync" => "SC_SYNC" \in r.flags
          /\ h.type = "Cooperate" => "SC_COOPERATE" \in r.flags
          /\ h.type = "Granted" => "SC_GRANTED" \in r.flags
          /\ h.type = "FontMap" => "SC_FONT_MAP" \in r.flags
      BY <3>1 DEF FlagOf
    <3>3. h.type = "DeactivateAll" => r.state = "DEMAND_ACTIVE"
      BY ClientRecvIs
    <3> HIDE DEF r
    <3>4. "ACTIVE" \notin DOMAIN Awaited
      BY DEF Awaited
    <3>5. cstate = "ACTIVE" => cstate' = "DEMAND_ACTIVE"
      BY <1>5, <2>1, <3>3, <3>4
    <3> QED BY <1>5, <2>1, <2>3, <3>2, <3>5 DEF Awaited, Following
  <2>5. Seen(h)' /\ Joining(h, c)'
    <3>1. \/ cstate' = "FINALIZATION_CLIENT_COOPERATE" /\ h.type = "Sync"
          \/ cstate' = "FINALIZATION_CLIENT_GRANTED_CONTROL" /\ h.type = "Cooperate"
          \/ cstate' = "FINALIZATION_CLIENT_FONT_MAP" /\ h.type = "Granted"
          \/ cstate' = "ACTIVE" /\ h.type = "FontMap"
          \/ cstate' = "DEMAND_ACTIVE" /\ h.type = "DeactivateAll"
      BY <1>3, <2>1, <2>4 DEF ClientFinalizationStates
    <3> QED BY <3>1 DEF Seen, SaidJoined, Joining, FinalizationStates, ClientFinalizationStates, IsActiveClientState, Late
  <2>6. InStep'
    BY <1>1, <1>6, <1>7, <1>9, <1>11, <1>14, <2>5, ClientMoves
  <2>7. cclosed' = FALSE
    BY <1>5, <2>3
  <2> QED BY <1>6, <2>6, <2>7 DEF HonestClientKept
<1> QED BY <1>12, <1>14

(* A transport that fails ends the client's side.                          *)
LEMMA ClientEndsMoves ==
    ASSUME TypeInv, InStep, HonestClientKept, ClientTransportFails
    PROVE  InStep' /\ HonestClientKept'
<1>1. PICK a \in Messages, m \in Messages, c \in Messages, b \in Messages, s \in Messages :
        Conversation(a, m, c, b, s)
  BY DEF InStep
<1>2. /\ sclosed
      /\ UNCHANGED <<opts, c2s, s2c, sstate, sflags, run, cur, joined, sclosed, demanded, confirmed, listed, shutdowns,
                     cstate, cflags, cdemand>>
  BY DEF ClientTransportFails, serverVars, answers, budget
<1>3. /\ Linked(Messages, UpStep(opts, KeysExpected), m, c2s', c) /\ Sent(c) /\ Seen(b) /\ Joining(b, c)
      /\ Linked(Messages, DownStep(opts), b, s2c', s)
  BY <1>1, <1>2 DEF Conversation
<1>4. Sent(c)' /\ Seen(b)' /\ Joining(b, c)'
  BY <1>2, <1>3 DEF Sent, Seen, SaidJoined, Joining
<1>5. InStep'
  BY <1>1, <1>2, <1>3, <1>4, ClientMoves
<1> QED BY <1>2, <1>5 DEF HonestClientKept

(* Input and a shutdown request may come between any two PDUs of an        *)
(* activation.                                                             *)
LEMMA ClientNoiseMoves ==
    ASSUME TypeInv, InStep, HonestClientKept, ClientInput \/ ClientShutdown
    PROVE  InStep' /\ HonestClientKept'
<1>1. PICK a \in Messages, m \in Messages, c \in Messages, b \in Messages, s \in Messages :
        Conversation(a, m, c, b, s)
  BY DEF InStep
<1>2. /\ Linked(Messages, UpStep(opts, KeysExpected), m, c2s, c) /\ Sent(c) /\ Seen(b) /\ Joining(b, c)
      /\ Linked(Messages, DownStep(opts), b, s2c, s) /\ c2s \in Seq(Messages)
  BY <1>1 DEF Conversation, TypeInv, StreamsOK
<1>3. PICK x \in Messages : c2s' = Append(c2s, x) /\ x.type \in Noise
  <2>1. CASE ClientInput
    <3>1. PICK x \in Messages : x = Msg("Input", 0) /\ x.type = "Input"
      BY NewMessage DEF Types
    <3> QED BY <2>1, <3>1 DEF ClientInput, Noise
  <2>2. CASE ClientShutdown
    <3>1. PICK x \in Messages : x = Msg("Shutdown", 0) /\ x.type = "Shutdown"
      BY NewMessage DEF Types
    <3> QED BY <2>2, <3>1 DEF ClientShutdown, Noise
  <2> QED BY <2>1, <2>2
<1>4. /\ UNCHANGED <<opts, s2c, sstate, sflags, run, cur, joined, sclosed, demanded, confirmed, listed,
                     cstate, cflags, cdemand, cclosed>>
      /\ IsActiveClientState(cstate) /\ (shutdowns' = 0 => shutdowns = 0)
  BY DEF ClientInput, ClientShutdown, serverVars, clientVars, answers, TypeInv, CountsOK
<1>5. c.type \in Activating
  BY <1>2, <1>4 DEF Sent, IsActiveClientState, FinalizationStates, Activating
<1>6. Linked(Messages, UpStep(opts, KeysExpected), m, c2s', c)
  <2>1. <<c, x, c>> \in UpStep(opts, KeysExpected)
    BY <1>3, <1>5, UpStepIs
  <2> QED BY <1>2, <1>3, <2>1, LinkedAppend
<1>7. Sent(c)' /\ Seen(b)' /\ Joining(b, c)'
  BY <1>2, <1>4 DEF Sent, Seen, SaidJoined, Joining
<1>8. InStep'
  BY <1>1, <1>2, <1>4, <1>6, <1>7, ClientMoves
<1> QED BY <1>4, <1>8 DEF HonestClientKept

-----------------------------------------------------------------------------
(***************************************************************************)
(* The connection sequence: flags, results and the messages that were      *)
(* read.                                                                   *)
(***************************************************************************)

\* An iteration that asks for another one finishes with no message, and one
\* whose message was read before finishes with a read one.
LEMMA GoesOnHears ==
    ASSUME EveryMessageRead, opts' = opts,
           Finish("CONTINUE", FALSE) \/ (Finish("SUCCESS", FALSE) /\ run # "unread")
    PROVE  EveryMessageRead'
<1>1. unheard' \in BOOLEAN
  BY DEF Finish
<1>2. CASE Finish("CONTINUE", FALSE)
  BY <1>1, <1>2 DEF EveryMessageRead, Finish
<1>3. CASE Finish("SUCCESS", FALSE) /\ run # "unread"
  BY <1>1, <1>3 DEF EveryMessageRead, Finish
<1> QED BY <1>2, <1>3

\* Outside the active states a transition leaves the peer not activated.
LEMMA TransitionIs ==
    ASSUME NEW st, TransitionTo(st), ~IsActivePeerState(sstate)
    PROVE  sstate' = st /\ ~activated'
<1>1. sstate' = st /\ activated' \in BOOLEAN
  BY DEF TransitionTo
<1> QED BY <1>1 DEF TransitionTo

\* A peer that is not in an activation keeps the parts of the invariant that
\* speak of one.
LEMMA NotActivating ==
    ASSUME FlagsOK, RunOK, HonestClientKept, ~sclosed', ~activated',
           UNCHANGED <<opts, cclosed, shutdowns>>,
           sstate' \notin FinalizationStates \cup {"ACTIVE"},
           run' = "read" => sstate' \in {"AUTO_DETECT_REQUEST", "LICENSING", "MULTITRANSPORT_REQUEST",
                                         "DEMAND_ACTIVE", "MONITOR_LAYOUT"}
    PROVE  FlagsOK' /\ RunOK' /\ HonestClientKept'
<1>1. FlagsOK'
  BY DEF FlagsOK, FinalizationStates
<1>2. RunOK'
  BY DEF RunOK
<1>3. HonestClientKept'
  BY DEF HonestClientKept
<1> QED BY <1>1, <1>2, <1>3

(* Taking a message keeps flags and results.                               *)
LEMMA BeginRest ==
    ASSUME FlagsOK, RunOK, HonestClientKept, EveryMessageRead, PeerBegin
    PROVE  FlagsOK' /\ RunOK' /\ HonestClientKept' /\ EveryMessageRead'
<1>1. /\ run = "idle" /\ ~sclosed /\ run' = "unread"
      /\ UNCHANGED <<opts, sstate, sflags, activated, sclosed, cclosed, unheard, shutdowns>>
  BY DEF PeerBegin, clientVars, history, budget
<1>2. FlagsOK' /\ HonestClientKept' /\ EveryMessageRead'
  BY <1>1 DEF FlagsOK, HonestClientKept, EveryMessageRead
<1>3. RunOK'
  BY <1>1 DEF RunOK
<1> QED BY <1>2, <1>3

(* States that need no message keep flags and results.                     *)
LEMMA PassOnRest ==
    ASSUME FlagsOK, RunOK, HonestClientKept, EveryMessageRead, PeerPassOn
    PROVE  FlagsOK' /\ RunOK' /\ HonestClientKept' /\ EveryMessageRead'
<1>1. sstate \in {"INITIAL", "AUTO_DETECT_REQUEST", "MULTITRANSPORT_REQUEST"} /\ TransitionTo(PassOn[sstate])
      /\ Finish("CONTINUE", FALSE) /\ UNCHANGED <<opts, cclosed, shutdowns>>
  BY DEF PeerPassOn, PassOn, clientVars, budget
<1>2. ~IsActivePeerState(sstate)
  BY <1>1 DEF IsActivePeerState, ClientFinalizationStates
<1>3. sstate' = PassOn[sstate] /\ ~activated'
  BY <1>1, <1>2, TransitionIs
<1>4. /\ sstate = "INITIAL" => sstate' = "NEGO"
      /\ sstate = "AUTO_DETECT_REQUEST" => sstate' = "LICENSING"
      /\ sstate = "MULTITRANSPORT_REQUEST" => sstate' = "DEMAND_ACTIVE"
  BY <1>3 DEF PassOn
<1>5. run' = run /\ ~sclosed'
  BY <1>1, FinishIs
<1>6. run = "read" => sstate # "INITIAL"
  BY DEF RunOK
<1>7. FlagsOK' /\ RunOK' /\ HonestClientKept'
  BY <1>1, <1>3, <1>4, <1>5, <1>6, NotActivating DEF FinalizationStates
<1> QED BY <1>1, <1>7, GoesOnHears

(* The state that awaits no key list keeps flags and results.              *)
LEMMA NoKeysRest ==
    ASSUME FlagsOK, RunOK, HonestClientKept, EveryMessageRead, PeerFinalizationNoKeys
    PROVE  FlagsOK' /\ RunOK' /\ HonestClientKept' /\ EveryMessageRead'
<1>1. sstate = "FINALIZATION_PERSISTENT_KEY_LIST" /\ TransitionTo("FINALIZATION_FONT_LIST") /\ run # "idle"
      /\ Finish("CONTINUE", FALSE) /\ UNCHANGED <<opts, cclosed, shutdowns, sflags>>
  BY DEF PeerFinalizationNoKeys, Running, clientVars, budget
<1>2. ~IsActivePeerState(sstate)
  BY <1>1 DEF IsActivePeerState, ClientFinalizationStates
<1>3. sstate' = "FINALIZATION_FONT_LIST" /\ ~activated'
  BY <1>1, <1>2, TransitionIs
<1>4. run' = run /\ ~sclosed' /\ run # "read"
  BY <1>1, FinishIs DEF RunOK
<1>5. FlagsOK'
  <2>1. sflags \ {Reactivation} = {"CS_SYNC", "CS_COOPERATE", "CS_REQUEST"}
    BY <1>1 DEF FlagsOK
  <2>2. "CS_FONT_LIST" \notin sflags
    BY <2>1 DEF Reactivation
  <2> QED BY <1>1, <1>3, <2>2 DEF FlagsOK
<1>6. RunOK'
  BY <1>3, <1>4 DEF RunOK
<1>7. HonestClientKept'
  BY <1>1, <1>4 DEF HonestClientKept
<1> QED BY <1>1, <1>5, <1>6, <1>7, GoesOnHears

(* The states that wait for one PDU keep flags and results.                *)
LEMMA WaitsRest ==
    ASSUME FlagsOK, RunOK, HonestClientKept, EveryMessageRead, PeerWaits, ~sclosed'
    PROVE  FlagsOK' /\ RunOK' /\ HonestClientKept' /\ EveryMessageRead'
<1>1. sstate \in DOMAIN Waits /\ UNCHANGED <<opts, cclosed, shutdowns>>
  BY DEF PeerWaits, clientVars, budget
<1>2. cur.type = Waits[sstate].pdu
  <2>1. ASSUME cur.type # Waits[sstate].pdu PROVE FALSE
    <3>1. Finish("FAILED", TRUE)
      BY <2>1 DEF PeerWaits
    <3> QED BY <3>1, FinishIs
  <2> QED BY <2>1
<1>3. TransitionTo(Waits[sstate].next) /\ Finish("SUCCESS", TRUE)
  BY <1>2 DEF PeerWaits
<1>4. sstate \in {"NEGO", "MCS_CREATE_REQUEST", "MCS_ERECT_DOMAIN", "MCS_ATTACH_USER"}
  BY <1>1, WaitsIs
<1>5. ~IsActivePeerState(sstate)
  BY <1>4 DEF IsActivePeerState, ClientFinalizationStates
<1>6. sstate' = Waits[sstate].next /\ ~activated'
  BY <1>3, <1>5, TransitionIs
<1>7. sstate' \in {"MCS_CREATE_REQUEST", "MCS_ERECT_DOMAIN", "MCS_ATTACH_USER",
                   "RDP_SECURITY_COMMENCEMENT", "MCS_CHANNEL_JOIN_REQUEST"}
  BY <1>4, <1>6, WaitsFields
<1>8. run' = "idle"
  BY <1>3, FinishIs
<1>9. FlagsOK' /\ RunOK' /\ HonestClientKept'
  BY <1>1, <1>6, <1>7, <1>8, NotActivating DEF FinalizationStates
<1> QED BY <1>1, <1>3, <1>9, FinishHears

(* Joining a channel keeps flags and results.                              *)
LEMMA JoinRest ==
    ASSUME FlagsOK, RunOK, HonestClientKept, EveryMessageRead, PeerJoin, ~sclosed'
    PROVE  FlagsOK' /\ RunOK' /\ HonestClientKept' /\ EveryMessageRead'
<1>1. /\ sstate = "MCS_CHANNEL_JOIN_REQUEST" /\ UNCHANGED <<opts, cclosed, shutdowns>>
      /\ Finish("SUCCESS", TRUE) \/ Finish("FAILED", TRUE)
      /\ TransitionTo("RDP_SECURITY_COMMENCEMENT") \/ TransitionTo("MCS_CHANNEL_JOIN_REQUEST")
  BY DEF PeerJoin, Running, clientVars, budget
<1>2. ~IsActivePeerState(sstate)
  BY <1>1 DEF IsActivePeerState, ClientFinalizationStates
<1>3. sstate' \in {"RDP_SECURITY_COMMENCEMENT", "MCS_CHANNEL_JOIN_REQUEST"} /\ ~activated'
  BY <1>1, <1>2, TransitionIs
<1>4. run' = "idle"
  BY <1>1, FinishIs
<1>5. FlagsOK' /\ RunOK' /\ HonestClientKept'
  BY <1>1, <1>3, <1>4, NotActivating DEF FinalizationStates
<1> QED BY <1>1, <1>5, FinishHears

(* The security exchange keeps flags and results.                          *)
LEMMA SecurityRest ==
    ASSUME FlagsOK, RunOK, HonestClientKept, EveryMessageRead, PeerSecurity, ~sclosed'
    PROVE  FlagsOK' /\ RunOK' /\ HonestClientKept' /\ EveryMessageRead'
<1>1. /\ sstate = "RDP_SECURITY_COMMENCEMENT" /\ UNCHANGED <<opts, cclosed, shutdowns>>
      /\ Finish("SUCCESS", TRUE) \/ Finish("FAILED", TRUE) \/ Finish("CONTINUE", FALSE)
      /\ TransitionTo("SECURE_SETTINGS_EXCHANGE")
  BY DEF PeerSecurity, Running, clientVars, budget
<1>2. ~IsActivePeerState(sstate)
  BY <1>1 DEF IsActivePeerState, ClientFinalizationStates
<1>3. sstate' = "SECURE_SETTINGS_EXCHANGE" /\ ~activated'
  BY <1>1, <1>2, TransitionIs
<1>4. run' # "read"
  <2>1. run # "read"
    BY <1>1 DEF RunOK
  <2> QED BY <1>1, <2>1, FinishIs
<1>5. FlagsOK' /\ RunOK' /\ HonestClientKept'
  BY <1>1, <1>3, <1>4, NotActivating DEF FinalizationStates
<1> QED BY <1>1, <1>5, FinishHears, GoesOnHears

(* The client info keeps flags and results.                                *)
LEMMA ClientInfoRest ==
    ASSUME FlagsOK, RunOK, HonestClientKept, EveryMessageRead, PeerClientInfo, ~sclosed',
           sstate' = "AUTO_DETECT_REQUEST"
    PROVE  FlagsOK' /\ RunOK' /\ HonestClientKept' /\ EveryMessageRead'
<1>1. /\ sstate = "SECURE_SETTINGS_EXCHANGE" /\ UNCHANGED <<opts, cclosed, shutdowns>>
      /\ Finish("CONTINUE", TRUE) \/ Finish("FAILED", TRUE)
      /\ TransitionTo("AUTO_DETECT_REQUEST") \/ sstate' = sstate
  BY DEF PeerClientInfo, Running, clientVars, budget
<1>2. ~IsActivePeerState(sstate)
  BY <1>1 DEF IsActivePeerState, ClientFinalizationStates
<1>3. ~activated'
  BY <1>1, <1>2, TransitionIs
<1>4. FlagsOK' /\ RunOK' /\ HonestClientKept'
  BY <1>1, <1>3, NotActivating DEF FinalizationStates
<1> QED BY <1>1, <1>4, FinishHears

(* The licence and the first demand keep flags and results.                *)
LEMMA LicensingRest ==
    ASSUME FlagsOK, RunOK, HonestClientKept, EveryMessageRead, PeerLicensing \/ PeerDemandActive
    PROVE  FlagsOK' /\ RunOK' /\ HonestClientKept' /\ EveryMessageRead'
<1>1. /\ sstate \in {"LICENSING", "DEMAND_ACTIVE"} /\ UNCHANGED <<opts, cclosed, shutdowns>>
      /\ Finish("CONTINUE", FALSE)
      /\ TransitionTo("MULTITRANSPORT_REQUEST") \/ TransitionTo("MONITOR_LAYOUT")
  BY DEF PeerLicensing, PeerDemandActive, Running, clientVars, budget
<1>2. ~IsActivePeerState(sstate)
  BY <1>1 DEF IsActivePeerState, ClientFinalizationStates
<1>3. sstate' \in {"MULTITRANSPORT_REQUEST", "MONITOR_LAYOUT"} /\ ~activated' /\ ~sclosed'
  BY <1>1, <1>2, TransitionIs, FinishIs
<1>4. FlagsOK' /\ RunOK' /\ HonestClientKept'
  BY <1>1, <1>3, NotActivating DEF FinalizationStates
<1> QED BY <1>1, <1>4, GoesOnHears

(* The monitor layout keeps flags and results.                             *)
LEMMA MonitorLayoutRest ==
    ASSUME TypeInv, FlagsOK, RunOK, HonestClientKept, EveryMessageRead, PeerMonitorLayout
    PROVE  FlagsOK' /\ RunOK' /\ HonestClientKept' /\ EveryMessageRead'
<1>1. /\ sstate = "MONITOR_LAYOUT" /\ UNCHANGED <<opts, cclosed, shutdowns>>
      /\ (run = "unread" /\ Finish("CONTINUE", FALSE)) \/ (run # "unread" /\ Finish("SUCCESS", FALSE))
      /\ TransitionTo("CONFIRM_ACTIVE")
  BY DEF PeerMonitorLayout, Running, clientVars, budget, MonitorLayoutResult
<1>2. ~IsActivePeerState(sstate)
  BY <1>1 DEF IsActivePeerState, ClientFinalizationStates
<1>3. sstate' = "CONFIRM_ACTIVE" /\ ~activated' /\ ~sclosed' /\ run' # "read"
  BY <1>1, <1>2, TransitionIs, FinishIs
<1>4. FlagsOK' /\ RunOK' /\ HonestClientKept'
  BY <1>1, <1>3, NotActivating DEF FinalizationStates
<1> QED BY <1>1, <1>4, GoesOnHears

\* Steps of the client leave what the server's parts speak of alone.
LEMMA ClientRest ==
    ASSUME FlagsOK, RunOK, EveryMessageRead,
           UNCHANGED <<opts, sstate, sflags, run, activated, sclosed, unheard>>
    PROVE  FlagsOK' /\ RunOK' /\ EveryMessageRead'
<1>1. FlagsOK' /\ EveryMessageRead'
  BY DEF FlagsOK, EveryMessageRead
<1>2. RunOK'
  BY DEF RunOK
<1> QED BY <1>1, <1>2

-----------------------------------------------------------------------------
(***************************************************************************)
(* The connection sequence: the numbers of the demands, and what else is   *)
(* counted along the streams.                                              *)
(***************************************************************************)

\* What a place of a concatenation holds.
LEMMA ConcatAt ==
    ASSUME NEW q \in Seq(Messages), NEW r \in Seq(Messages), NEW i \in DOMAIN (q \o r)
    PROVE  \/ i \in DOMAIN q /\ (q \o r)[i] = q[i]
           \/ i \in Nat /\ i > Len(q) /\ i - Len(q) \in DOMAIN r /\ (q \o r)[i] = r[i - Len(q)]
<1>1. i \in 1 .. Len(q) + Len(r) /\ DOMAIN q = 1 .. Len(q) /\ DOMAIN r = 1 .. Len(r) /\ Len(q) \in Nat /\ Len(r) \in Nat
  OBVIOUS
<1>2. (q \o r)[i] = IF i <= Len(q) THEN q[i] ELSE r[i - Len(q)]
  BY <1>1
<1>3. CASE i <= Len(q)
  BY <1>1, <1>2, <1>3
<1>4. CASE i > Len(q)
  <2>1. i - Len(q) \in DOMAIN r
    BY <1>1, <1>4
  <2> QED BY <1>1, <1>2, <1>4, <2>1
<1> QED BY <1>1, <1>3, <1>4

\* What a place of a tail holds.
LEMMA TailAt ==
    ASSUME NEW q \in Seq(Messages), q # <<>>, NEW i \in DOMAIN Tail(q)
    PROVE  i \in Nat \ {0} /\ i + 1 \in DOMAIN q /\ Tail(q)[i] = q[i + 1]
<1>1. Tail(q) \in Seq(Messages) /\ Len(Tail(q)) = Len(q) - 1 /\ DOMAIN q = 1 .. Len(q) /\ Len(q) \in Nat
  OBVIOUS
<1>2. i \in 1 .. Len(q) - 1
  BY <1>1
<1> QED BY <1>1, <1>2

(* The head of a stream is its first element.                              *)
LEMMA HeadAt ==
    ASSUME NEW q \in Seq(Messages), q # <<>>
    PROVE  1 \in DOMAIN q /\ Head(q) = q[1]
OBVIOUS

(* An element of a stream is a message.                                    *)
LEMMA ElementIs ==
    ASSUME NEW q \in Seq(Messages), NEW i \in DOMAIN q
    PROVE  q[i] \in Messages /\ q[i].n \in Nat
<1>1. q[i] \in Messages
  OBVIOUS
<1> QED BY <1>1, MessageIs

\* What the server sends keeps the numbers of the demands in their order.
LEMMA SentRest ==
    ASSUME TypeInv, TypeInv', DemandsOK, ReactivationOK, ShutdownOK,
           UNCHANGED <<cflags, cdemand, c2s, shutdowns>>, cur' = cur \/ cur' = NoMsg,
           demanded <= demanded', Reactivation \in sflags => Reactivation \in sflags',
           NEW out \in Seq(Messages), s2c' = s2c \o out,
           \A i \in DOMAIN out :
             /\ out[i].type = "DemandActive" => out[i].n = demanded' /\ demanded < demanded'
             /\ out[i].type = "DeactivateAll" => Reactivation \in sflags'
             /\ out[i].type = "Ultimatum" => shutdowns # 0,
           \A i, j \in DOMAIN out :
             i < j => out[i].type # "DemandActive" \/ out[j].type # "DemandActive"
    PROVE  DemandsOK' /\ ReactivationOK' /\ ShutdownOK'
<1>1. /\ s2c \in Seq(Messages) /\ s2c' \in Seq(Messages) /\ c2s \in Seq(Messages)
      /\ cdemand \in Nat /\ demanded \in Nat /\ demanded' \in Nat
  BY DEF TypeInv, StreamsOK, ClientOK, CountsOK
<1>2. \A i \in DOMAIN s2c' :
        \/ i \in DOMAIN s2c /\ s2c'[i] = s2c[i]
        \/ i \in Nat /\ i > Len(s2c) /\ i - Len(s2c) \in DOMAIN out /\ s2c'[i] = out[i - Len(s2c)]
  BY <1>1, ConcatAt
<1>3. NoMsg.type = "none"
  BY DEF NoMsg, Msg
<1>4. cdemand' <= demanded'
  BY <1>1 DEF DemandsOK
<1>5. ASSUME NEW i \in DOMAIN s2c', s2c'[i].type = "DemandActive"
      PROVE  cdemand' < s2c'[i].n /\ s2c'[i].n <= demanded'
  <2>1. CASE i \in DOMAIN s2c /\ s2c'[i] = s2c[i]
    <3>1. s2c[i] \in Messages /\ s2c[i].n \in Nat
      BY <1>1, <2>1, ElementIs
    <3>2. cdemand < s2c[i].n /\ s2c[i].n <= demanded
      BY <1>5, <2>1 DEF DemandsOK
    <3> QED BY <1>1, <2>1, <3>1, <3>2
  <2>2. CASE i \in Nat /\ i > Len(s2c) /\ i - Len(s2c) \in DOMAIN out /\ s2c'[i] = out[i - Len(s2c)]
    <3>1. s2c'[i].n = demanded' /\ demanded < demanded'
      BY <1>5, <2>2
    <3> QED BY <1>1, <3>1 DEF DemandsOK
  <2> QED BY <1>2, <2>1, <2>2
<1>6. ASSUME NEW i \in DOMAIN s2c', NEW j \in DOMAIN s2c', i < j, s2c'[i].type = "DemandActive",
             s2c'[j].type = "DemandActive"
      PROVE  s2c'[i].n < s2c'[j].n
  <2>0. i \in Nat /\ j \in Nat /\ DOMAIN s2c = 1 .. Len(s2c) /\ Len(s2c) \in Nat
    BY <1>1
  <2>1. CASE j \in DOMAIN s2c /\ s2c'[j] = s2c[j]
    <3>1. i \in DOMAIN s2c
      BY <1>6, <2>0, <2>1, <1>2
    <3>2. s2c'[i] = s2c[i]
      BY <1>2, <2>0, <3>1
    <3> QED BY <1>6, <2>1, <3>1, <3>2 DEF DemandsOK
  <2>2. CASE j \in Nat /\ j > Len(s2c) /\ j - Len(s2c) \in DOMAIN out /\ s2c'[j] = out[j - Len(s2c)]
    <3>1. s2c'[j].n = demanded' /\ demanded < demanded'
      BY <1>6, <2>2
    <3>2. CASE i \in DOMAIN s2c /\ s2c'[i] = s2c[i]
      <4>1. s2c[i] \in Messages /\ s2c[i].n \in Nat
        BY <1>1, <3>2, ElementIs
      <4>2. s2c[i].n <= demanded
        BY <1>6, <3>2 DEF DemandsOK
      <4> QED BY <1>1, <3>1, <3>2, <4>1, <4>2
    <3>3. CASE i \in Nat /\ i > Len(s2c) /\ i - Len(s2c) \in DOMAIN out /\ s2c'[i] = out[i - Len(s2c)]
      <4>1. i - Len(s2c) < j - Len(s2c)
        BY <1>6, <2>0
      <4> QED BY <1>6, <2>2, <3>3, <4>1
    <3> QED BY <1>2, <3>2, <3>3
  <2> QED BY <1>2, <2>1, <2>2
<1>7. ASSUME NEW i \in DOMAIN c2s', c2s'[i].type = "ConfirmActive"
      PROVE  c2s'[i].n <= demanded'
  <2>1. c2s[i] \in Messages /\ c2s[i].n \in Nat
    BY <1>1, <1>7, ElementIs
  <2>2. c2s[i].n <= demanded
    BY <1>7 DEF DemandsOK
  <2> QED BY <1>1, <2>1, <2>2
<1>8. cur'.type = "ConfirmActive" => cur'.n <= demanded'
  <2>1. SUFFICES ASSUME cur' = cur, cur.type = "ConfirmActive" PROVE cur.n <= demanded'
    BY <1>3
  <2>2. cur.n <= demanded /\ cur.n \in Nat
    BY <2>1 DEF DemandsOK, TypeInv, CurrentOK, Messages
  <2> QED BY <1>1, <2>2
<1>9. DemandsOK'
  BY <1>4, <1>5, <1>6, <1>7, <1>8 DEF DemandsOK
<1>10. ReactivationOK'
  BY <1>2 DEF ReactivationOK
<1>11. ShutdownOK'
  BY <1>2, <1>3 DEF ShutdownOK
<1> QED BY <1>9, <1>10, <1>11

\* What the client takes and sends keeps them as well.
LEMMA TakenRest ==
    ASSUME TypeInv, TypeInv', DemandsOK, ReactivationOK, ShutdownOK,
           UNCHANGED <<sflags, demanded, cur>>, shutdowns' = 0 => shutdowns = 0,
           s2c' = s2c \/ (s2c # <<>> /\ s2c' = Tail(s2c)),
           \/ cdemand' = cdemand
           \/ s2c # <<>> /\ s2c' = Tail(s2c) /\ Head(s2c).type = "DemandActive" /\ cdemand' = Head(s2c).n,
           Reactivation \in cflags' =>
             Reactivation \in cflags \/ (s2c # <<>> /\ Head(s2c).type = "DeactivateAll"),
           NEW out \in Seq(Messages), c2s' = c2s \o out,
           \A i \in DOMAIN out :
             /\ out[i].type = "ConfirmActive" => out[i].n <= demanded
             /\ out[i].type = "Shutdown" => shutdowns' # 0
    PROVE  DemandsOK' /\ ReactivationOK' /\ ShutdownOK'
<1>1. /\ s2c \in Seq(Messages) /\ s2c' \in Seq(Messages) /\ c2s \in Seq(Messages)
      /\ cdemand \in Nat /\ cdemand' \in Nat /\ demanded \in Nat
  BY DEF TypeInv, StreamsOK, ClientOK, CountsOK
<1>2. \A i \in DOMAIN c2s' :
        \/ i \in DOMAIN c2s /\ c2s'[i] = c2s[i]
        \/ i - Len(c2s) \in DOMAIN out /\ c2s'[i] = out[i - Len(c2s)]
  BY <1>1, ConcatAt
<1>3. /\ \A i \in DOMAIN s2c' : \E k \in DOMAIN s2c : s2c'[i] = s2c[k]
      /\ \A i, j \in DOMAIN s2c' : i < j =>
           \E k, l \in DOMAIN s2c : k < l /\ s2c'[i] = s2c[k] /\ s2c'[j] = s2c[l]
  <2>1. CASE s2c' = s2c
    BY <2>1
  <2>2. CASE s2c # <<>> /\ s2c' = Tail(s2c)
    <3>1. \A i \in DOMAIN s2c' : i \in Nat \ {0} /\ i + 1 \in DOMAIN s2c /\ s2c'[i] = s2c[i + 1]
      BY <1>1, <2>2, TailAt
    <3>2. ASSUME NEW i \in DOMAIN s2c', NEW j \in DOMAIN s2c', i < j
          PROVE  \E k, l \in DOMAIN s2c : k < l /\ s2c'[i] = s2c[k] /\ s2c'[j] = s2c[l]
      <4>1. i + 1 < j + 1
        BY <3>1, <3>2
      <4> QED BY <3>1, <4>1
    <3> QED BY <3>1, <3>2
  <2> QED BY <2>1, <2>2
<1>4. cdemand' <= demanded' /\
      \A i \in DOMAIN s2c' : s2c'[i].type = "DemandActive" => cdemand' < s2c'[i].n /\ s2c'[i].n <= demanded'
  <2>1. CASE cdemand' = cdemand
    <3>1. cdemand' <= demanded'
      BY <2>1 DEF DemandsOK
    <3>2. ASSUME NEW i \in DOMAIN s2c', s2c'[i].type = "DemandActive"
          PROVE  cdemand' < s2c'[i].n /\ s2c'[i].n <= demanded'
      <4>1. PICK k \in DOMAIN s2c : s2c'[i] = s2c[k]
        BY <1>3
      <4> QED BY <2>1, <3>2, <4>1 DEF DemandsOK
    <3> QED BY <3>1, <3>2
  <2>2. CASE s2c # <<>> /\ s2c' = Tail(s2c) /\ Head(s2c).type = "DemandActive" /\ cdemand' = Head(s2c).n
    <3>1. 1 \in DOMAIN s2c /\ s2c[1].type = "DemandActive" /\ cdemand' = s2c[1].n
      BY <1>1, <2>2, HeadAt
    <3>2. cdemand' <= demanded'
      BY <3>1 DEF DemandsOK
    <3>3. ASSUME NEW i \in DOMAIN s2c', s2c'[i].type = "DemandActive"
          PROVE  cdemand' < s2c'[i].n /\ s2c'[i].n <= demanded'
      <4>1. i \in Nat \ {0} /\ i + 1 \in DOMAIN s2c /\ s2c'[i] = s2c[i + 1]
        BY <1>1, <2>2, TailAt
      <4>2. 1 < i + 1
        BY <4>1
      <4> QED BY <3>1, <3>3, <4>1, <4>2 DEF DemandsOK
    <3> QED BY <3>2, <3>3
  <2> QED BY <2>1, <2>2
<1>5. ASSUME NEW i \in DOMAIN s2c', NEW j \in DOMAIN s2c', i < j, s2c'[i].type = "DemandActive",
             s2c'[j].type = "DemandActive"
      PROVE  s2c'[i].n < s2c'[j].n
  <2>1. PICK k \in DOMAIN s2c, l \in DOMAIN s2c : k < l /\ s2c'[i] = s2c[k] /\ s2c'[j] = s2c[l]
    BY <1>3, <1>5
  <2> QED BY <1>5, <2>1 DEF DemandsOK
<1>6. ASSUME NEW i \in DOMAIN c2s', c2s'[i].type = "ConfirmActive"
      PROVE  c2s'[i].n <= demanded'
  BY <1>2, <1>6 DEF DemandsOK
<1>7. cur'.type = "ConfirmActive" => cur'.n <= demanded'
  BY DEF DemandsOK
<1>8. DemandsOK'
  BY <1>4, <1>5, <1>6, <1>7 DEF DemandsOK
<1>9. ReactivationOK'
  <2>1. Reactivation \in cflags' => Reactivation \in sflags'
    BY <1>1, HeadAt DEF ReactivationOK
  <2>2. \A i \in DOMAIN s2c' : s2c'[i].type = "DeactivateAll" => Reactivation \in sflags'
    BY <1>3 DEF ReactivationOK
  <2> QED BY <2>1, <2>2 DEF ReactivationOK
<1>10. ShutdownOK'
  <2> SUFFICES ASSUME shutdowns' = 0
               PROVE  /\ \A i \in DOMAIN c2s' : c2s'[i].type # "Shutdown"
                      /\ \A i \in DOMAIN s2c' : s2c'[i].type # "Ultimatum"
                      /\ cur'.type # "Shutdown"
    BY DEF ShutdownOK
  <2>1. \A i \in DOMAIN s2c' : s2c'[i].type # "Ultimatum"
    BY <1>3 DEF ShutdownOK
  <2>2. \A i \in DOMAIN c2s' : c2s'[i].type # "Shutdown"
    BY <1>2 DEF ShutdownOK
  <2>3. cur'.type # "Shutdown"
    BY DEF ShutdownOK
  <2> QED BY <2>1, <2>2, <2>3
<1> QED BY <1>8, <1>9, <1>10

\* So does handing the next message to the peer.
LEMMA BeginNumbers ==
    ASSUME TypeInv, DemandsOK, ReactivationOK, ShutdownOK, PeerBegin
    PROVE  DemandsOK' /\ ReactivationOK' /\ ShutdownOK'
<1>1. /\ c2s \in Seq(Messages) /\ c2s # <<>> /\ cur' = Head(c2s) /\ c2s' = Tail(c2s)
      /\ UNCHANGED <<s2c, sflags, cflags, cdemand, demanded, shutdowns>>
  BY DEF PeerBegin, TypeInv, StreamsOK, clientVars, answers, budget
<1>2. 1 \in DOMAIN c2s /\ cur' = c2s[1]
  BY <1>1, HeadAt
<1>3. \A i \in DOMAIN c2s' : i + 1 \in DOMAIN c2s /\ c2s'[i] = c2s[i + 1]
  BY <1>1, TailAt
<1>4. ReactivationOK'
  BY <1>1 DEF ReactivationOK
<1>5. ShutdownOK'
  BY <1>1, <1>2, <1>3 DEF ShutdownOK
<1>6. \A i \in DOMAIN c2s' : c2s'[i].type = "ConfirmActive" => c2s'[i].n <= demanded'
  BY <1>1, <1>3 DEF DemandsOK
<1>7. cur'.type = "ConfirmActive" => cur'.n <= demanded'
  BY <1>1, <1>2 DEF DemandsOK
<1>8. DemandsOK'
  BY <1>1, <1>6, <1>7 DEF DemandsOK
<1> QED BY <1>4, <1>5, <1>8

(* Before the first demand no step changes what only a demand may change.  *)
LEMMA EarlyRest ==
    ASSUME EarlyOK, PostedOK, ConnectedOK, LayoutOK, sstate \notin Activation, sstate' \notin Activation,
           UNCHANGED <<opts, posted, connected, demanded, cstate, layoutPdu>>,
           sstate' \in {"INITIAL", "NEGO", "MCS_CREATE_REQUEST", "MCS_ERECT_DOMAIN", "MCS_ATTACH_USER"}
             => joined' = {}
    PROVE  EarlyOK' /\ PostedOK' /\ ConnectedOK' /\ LayoutOK'
<1>1. (DOMAIN Waits = {"NEGO", "MCS_CREATE_REQUEST", "MCS_ERECT_DOMAIN", "MCS_ATTACH_USER"})'
  BY WaitsIs, PTL
<1>2. EarlyOK'
  BY <1>1 DEF EarlyOK
<1>3. PostedOK' /\ ConnectedOK' /\ LayoutOK'
  BY DEF PostedOK, ConnectedOK, LayoutOK
<1> QED BY <1>2, <1>3

(* After the first demand nothing is required of the channels any more,    *)
(* and PostConnect is called once.                                         *)
LEMMA LateRest ==
    ASSUME PostedOK, ConnectedOK, LayoutOK, sstate' \in Activation, UNCHANGED <<opts, cstate, layoutPdu>>,
           \/ UNCHANGED <<posted, connected>>
           \/ connected' = TRUE /\ posted' = posted + (IF connected THEN 0 ELSE 1)
    PROVE  EarlyOK' /\ PostedOK' /\ ConnectedOK' /\ LayoutOK'
<1>1. (DOMAIN Waits = {"NEGO", "MCS_CREATE_REQUEST", "MCS_ERECT_DOMAIN", "MCS_ATTACH_USER"})'
  BY WaitsIs, PTL
<1>2. EarlyOK'
  BY <1>1 DEF EarlyOK, Activation, FinalizationStates
<1>3. PostedOK' /\ ConnectedOK'
  BY DEF PostedOK, ConnectedOK
<1>4. LayoutOK'
  BY DEF LayoutOK
<1> QED BY <1>2, <1>3, <1>4

\* Messages that neither demand nor deactivate, and that end nothing unless
\* the client asked for it.
Undemanding(out) ==
    /\ out \in Seq(Messages)
    /\ \A i \in DOMAIN out :
         /\ out[i].type \notin {"DemandActive", "DeactivateAll"}
         /\ out[i].type = "Ultimatum" => shutdowns # 0

(* Sending nothing is undemanding.                                         *)
LEMMA UndemandingEmpty == Undemanding(<<>>)
<1>1. <<>> \in Seq(Messages) /\ DOMAIN <<>> = {}
  OBVIOUS
<1> QED BY <1>1 DEF Undemanding

(* So is one message that is neither a demand nor a deactivation, nor an   *)
(* ultimatum nobody asked for.                                             *)
LEMMA UndemandingOne ==
    ASSUME NEW x \in Messages, x.type \notin {"DemandActive", "DeactivateAll"},
           x.type = "Ultimatum" => shutdowns # 0
    PROVE  Undemanding(<<x>>)
<1>1. <<x>> \in Seq(Messages) /\ DOMAIN <<x>> = {1} /\ <<x>>[1] = x
  OBVIOUS
<1> QED BY <1>1 DEF Undemanding

(* And so are two undemanding streams, one after the other.                *)
LEMMA UndemandingConcat ==
    ASSUME NEW q, NEW r, Undemanding(q), Undemanding(r)
    PROVE  Undemanding(q \o r)
<1>1. q \in Seq(Messages) /\ r \in Seq(Messages)
  BY DEF Undemanding
<1>2. q \o r \in Seq(Messages)
  BY <1>1
<1>3. ASSUME NEW i \in DOMAIN (q \o r)
      PROVE  /\ (q \o r)[i].type \notin {"DemandActive", "DeactivateAll"}
             /\ (q \o r)[i].type = "Ultimatum" => shutdowns # 0
  BY <1>1, ConcatAt DEF Undemanding
<1> QED BY <1>2, <1>3 DEF Undemanding

\* Undemanding messages of the server keep the numbers.
LEMMA UndemandingRest ==
    ASSUME TypeInv, TypeInv', DemandsOK, ReactivationOK, ShutdownOK,
           UNCHANGED <<cflags, cdemand, c2s, shutdowns, demanded>>, cur' = cur \/ cur' = NoMsg,
           Reactivation \in sflags => Reactivation \in sflags',
           NEW out, Undemanding(out), s2c' = s2c \o out
    PROVE  DemandsOK' /\ ReactivationOK' /\ ShutdownOK'
<1>1. out \in Seq(Messages)
  BY DEF Undemanding
<1>2. demanded <= demanded'
  BY DEF TypeInv, CountsOK
<1>3. \A i \in DOMAIN out : out[i].type \notin {"DemandActive", "DeactivateAll"} /\ (out[i].type = "Ultimatum" => shutdowns # 0)
  BY DEF Undemanding
<1> QED BY <1>1, <1>2, <1>3, SentRest

(* A step of the server that sends nothing keeps the numbers.              *)
LEMMA SilentRest ==
    ASSUME TypeInv, TypeInv', DemandsOK, ReactivationOK, ShutdownOK,
           UNCHANGED <<cflags, cdemand, c2s, shutdowns, demanded, sflags, s2c>>, cur' = cur \/ cur' = NoMsg
    PROVE  DemandsOK' /\ ReactivationOK' /\ ShutdownOK'
<1>1. s2c' = s2c \o <<>>
  BY DEF TypeInv, StreamsOK
<1> QED BY <1>1, UndemandingEmpty, UndemandingRest

(* The end of a pass keeps the current message or drops it.                *)
LEMMA FinishCur ==
    ASSUME NEW rc, NEW rd, Finish(rc, rd)
    PROVE  cur' = cur \/ cur' = NoMsg
BY DEF Finish

\* What handling a message sends is quiet, and a reactivation is not forgotten.
LEMMA RecvUndemanding ==
    ASSUME TypeInv, ShutdownOK
    PROVE  Undemanding(PeerRecvPdu.out) /\ (Reactivation \in sflags => Reactivation \in PeerRecvPdu.flags)
<1>1. Msg("Sync", 0) \in Messages /\ Msg("Cooperate", 0) \in Messages /\ Msg("FontMap", 0) \in Messages
      /\ Msg("Ultimatum", 0) \in Messages
  BY MsgType DEF Types
<1>2. Msg("Sync", 0).type = "Sync" /\ Msg("Cooperate", 0).type = "Cooperate"
      /\ Msg("FontMap", 0).type = "FontMap" /\ Msg("Ultimatum", 0).type = "Ultimatum"
  BY DEF Msg
<1>3. CASE run # "unread"
  <2>1. run = "read" \/ cur.type = "none"
    BY <1>3 DEF TypeInv, CurrentOK, NoMsg, Msg
  <2>2. PeerRecvPdu = Kept("FAILED", sflags)
    BY <2>1 DEF PeerRecvPdu
  <2> QED BY <2>2, KeptIs, UndemandingEmpty
<1>4. CASE run = "unread"
  <2>1. CASE cur.type \in {"Sync", "Cooperate", "Request", "Keys", "Input"}
    BY <1>4, <2>1, RecvKeeps, UndemandingEmpty
  <2>2. CASE cur.type = "FontList"
    <3>1. Undemanding(<<Msg("FontMap", 0)>>)
      BY <1>1, <1>2, UndemandingOne
    <3> QED BY <1>4, <2>2, <3>1, RecvFontList
  <2>3. CASE cur.type = "ConfirmActive"
    <3>1. Undemanding(<<Msg("Sync", 0)>>) /\ Undemanding(<<Msg("Cooperate", 0)>>)
      BY <1>1, <1>2, UndemandingOne
    <3>2. <<Msg("Sync", 0), Msg("Cooperate", 0)>> = <<Msg("Sync", 0)>> \o <<Msg("Cooperate", 0)>>
      BY <1>1
    <3>3. Undemanding(<<Msg("Sync", 0), Msg("Cooperate", 0)>>)
      BY <3>1, <3>2, UndemandingConcat
    <3>4. Kept("FAILED", sflags).out = <<>> /\ Kept("FAILED", sflags).flags = sflags
      BY KeptIs
    <3> QED BY <1>4, <2>3, <3>3, <3>4, RecvConfirmActive, UndemandingEmpty
  <2>4. CASE cur.type = "Shutdown"
    <3>1. shutdowns # 0
      BY <2>4 DEF ShutdownOK
    <3>2. Undemanding(<<Msg("Ultimatum", 0)>>)
      BY <1>1, <1>2, <3>1, UndemandingOne
    <3> QED BY <1>4, <2>4, <3>2, RecvShutdown
  <2>5. CASE cur.type \notin {"Sync", "Cooperate", "Request", "Keys", "FontList", "ConfirmActive", "Input", "Shutdown"}
    BY <1>4, <2>5, RecvPdu, KeptIs, UndemandingEmpty
  <2> QED BY <2>1, <2>2, <2>3, <2>4, <2>5
<1> QED BY <1>3, <1>4

\* The parts of the invariant that say how the two sides count, and what is
\* not there yet.
Counted ==
    DemandsOK /\ ReactivationOK /\ ShutdownOK /\ EarlyOK /\ PostedOK /\ ConnectedOK /\ LayoutOK

(* Taking a message keeps the numbers.                                     *)
LEMMA BeginCounts ==
    ASSUME TypeInv, Counted, PeerBegin
    PROVE  Counted'
<1>1. DemandsOK' /\ ReactivationOK' /\ ShutdownOK'
  BY BeginNumbers DEF Counted
<1>2. UNCHANGED <<opts, sstate, joined, posted, connected, demanded, cstate, layoutPdu>>
  BY DEF PeerBegin, clientVars, answers, history
<1>3. (DOMAIN Waits = {"NEGO", "MCS_CREATE_REQUEST", "MCS_ERECT_DOMAIN", "MCS_ATTACH_USER"})'
  BY WaitsIs, PTL
<1>4. EarlyOK' /\ PostedOK' /\ ConnectedOK' /\ LayoutOK'
  BY <1>2, <1>3, WaitsIs DEF EarlyOK, PostedOK, ConnectedOK, LayoutOK, Counted
<1> QED BY <1>1, <1>4 DEF Counted

(* States that send nothing keep the numbers.                              *)
LEMMA PassOnCounts ==
    ASSUME TypeInv, TypeInv', Counted, PeerPassOn \/ PeerSecurity \/ PeerClientInfo
    PROVE  Counted'
<1>1. UNCHANGED <<opts, c2s, s2c, sflags, joined, posted, connected, demanded, cstate, cflags, cdemand,
                  layoutPdu, shutdowns>>
  BY DEF PeerPassOn, PeerSecurity, PeerClientInfo, clientVars, answers, budget
<1>2. cur' = cur \/ cur' = NoMsg
  BY FinishCur DEF PeerPassOn, PeerSecurity, PeerClientInfo
<1>3. /\ sstate \in {"INITIAL", "AUTO_DETECT_REQUEST", "MULTITRANSPORT_REQUEST", "RDP_SECURITY_COMMENCEMENT",
                     "SECURE_SETTINGS_EXCHANGE"}
      /\ sstate' \in {"NEGO", "LICENSING", "DEMAND_ACTIVE", "SECURE_SETTINGS_EXCHANGE", "AUTO_DETECT_REQUEST"}
      /\ sstate' = "NEGO" => sstate = "INITIAL"
  <2>1. CASE PeerPassOn
    BY <2>1 DEF PeerPassOn, PassOn, TransitionTo
  <2>2. CASE PeerSecurity
    BY <2>2 DEF PeerSecurity, Running, TransitionTo
  <2>3. CASE PeerClientInfo
    BY <2>3 DEF PeerClientInfo, Running, TransitionTo
  <2> QED BY <2>1, <2>2, <2>3
<1>4. sstate' = "NEGO" => joined' = {}
  BY <1>1, <1>3 DEF EarlyOK, Counted
<1>5. EarlyOK' /\ PostedOK' /\ ConnectedOK' /\ LayoutOK'
  BY <1>1, <1>3, <1>4, EarlyRest DEF Activation, FinalizationStates, Counted
<1>6. DemandsOK' /\ ReactivationOK' /\ ShutdownOK'
  BY <1>1, <1>2, SilentRest DEF Counted
<1> QED BY <1>5, <1>6 DEF Counted

(* The states that wait for one PDU keep the numbers.                      *)
LEMMA WaitsCounts ==
    ASSUME TypeInv, TypeInv', Counted, PeerWaits
    PROVE  Counted'
<1>1. UNCHANGED <<opts, c2s, sflags, joined, posted, connected, demanded, cstate, cflags, cdemand,
                  layoutPdu, shutdowns>>
  BY DEF PeerWaits, clientVars, answers, budget
<1>2. cur' = cur \/ cur' = NoMsg
  BY FinishCur DEF PeerWaits
<1>3. sstate \in {"NEGO", "MCS_CREATE_REQUEST", "MCS_ERECT_DOMAIN", "MCS_ATTACH_USER"} /\ joined = {}
  BY WaitsIs DEF PeerWaits, EarlyOK, Counted
<1>4. sstate' = sstate \/ sstate' = Waits[sstate].next
  BY DEF PeerWaits, TransitionTo
<1>5. sstate' \in {"NEGO", "MCS_CREATE_REQUEST", "MCS_ERECT_DOMAIN", "MCS_ATTACH_USER",
                   "RDP_SECURITY_COMMENCEMENT", "MCS_CHANNEL_JOIN_REQUEST"}
  BY <1>3, <1>4, WaitsFields
<1>6. EarlyOK' /\ PostedOK' /\ ConnectedOK' /\ LayoutOK'
  BY <1>1, <1>3, <1>5, EarlyRest DEF Activation, FinalizationStates, Counted
<1>7. s2c' = s2c \/ s2c' = s2c \o Waits[sstate].out
  BY DEF PeerWaits
<1>8. Undemanding(Waits[sstate].out)
  <2>1. Msg("NegoConfirm", 0) \in Messages /\ Msg("ConnectResponse", 0) \in Messages /\ Msg("AttachConfirm", 0) \in Messages
    BY MsgType DEF Types
  <2>2. Msg("NegoConfirm", 0).type = "NegoConfirm" /\ Msg("ConnectResponse", 0).type = "ConnectResponse"
        /\ Msg("AttachConfirm", 0).type = "AttachConfirm"
    BY DEF Msg
  <2>3. Undemanding(<<Msg("NegoConfirm", 0)>>) /\ Undemanding(<<Msg("ConnectResponse", 0)>>) /\ Undemanding(<<Msg("AttachConfirm", 0)>>)
    BY <2>1, <2>2, UndemandingOne
  <2> QED BY <1>3, <2>3, UndemandingEmpty, WaitsFields
<1>9. DemandsOK' /\ ReactivationOK' /\ ShutdownOK'
  <2>1. CASE s2c' = s2c
    BY <1>1, <1>2, <2>1, SilentRest DEF Counted
  <2>2. CASE s2c' = s2c \o Waits[sstate].out
    BY <1>1, <1>2, <1>8, <2>2, UndemandingRest DEF Counted
  <2> QED BY <1>7, <2>1, <2>2
<1> QED BY <1>6, <1>9 DEF Counted

(* Joining a channel keeps the numbers.                                    *)
LEMMA JoinCounts ==
    ASSUME TypeInv, TypeInv', Counted, PeerJoin
    PROVE  Counted'
<1>1. UNCHANGED <<opts, c2s, sflags, posted, connected, demanded, cstate, cflags, cdemand,
                  layoutPdu, shutdowns>>
  BY DEF PeerJoin, clientVars, answers, budget
<1>2. cur' = cur \/ cur' = NoMsg
  BY FinishCur DEF PeerJoin
<1>3. sstate = "MCS_CHANNEL_JOIN_REQUEST" /\ sstate' \in {"RDP_SECURITY_COMMENCEMENT", "MCS_CHANNEL_JOIN_REQUEST"}
  BY DEF PeerJoin, Running, TransitionTo
<1>4. EarlyOK' /\ PostedOK' /\ ConnectedOK' /\ LayoutOK'
  BY <1>1, <1>3, EarlyRest DEF Activation, FinalizationStates, Counted
<1>5. PICK x \in Messages : x = Msg("JoinConfirm", cur.n) /\ x.type = "JoinConfirm" /\ x.n = cur.n
  <2>1. cur.n \in Nat
    BY MessageIs DEF TypeInv, CurrentOK
  <2> QED BY <2>1, NewMessage DEF Types
<1>6. s2c' = s2c \o <<x>>
  <2>1. s2c' = Append(s2c, Msg("JoinConfirm", cur.n))
    BY DEF PeerJoin
  <2>2. s2c \in Seq(Messages)
    BY DEF TypeInv, StreamsOK
  <2>3. s2c' = Append(s2c, x)
    BY <2>1, <1>5
  <2> QED BY <2>2, <2>3
<1>7. Undemanding(<<x>>)
  BY <1>5, UndemandingOne
<1>8. DemandsOK' /\ ReactivationOK' /\ ShutdownOK'
  BY <1>1, <1>2, <1>6, <1>7, UndemandingRest DEF Counted
<1> QED BY <1>4, <1>8 DEF Counted

(* The licence keeps the numbers.                                          *)
LEMMA LicensingCounts ==
    ASSUME TypeInv, TypeInv', Counted, PeerLicensing
    PROVE  Counted'
<1>1. UNCHANGED <<opts, c2s, sflags, joined, posted, connected, demanded, cstate, cflags, cdemand,
                  layoutPdu, shutdowns>>
  BY DEF PeerLicensing, clientVars, answers, budget
<1>2. cur' = cur \/ cur' = NoMsg
  BY FinishCur DEF PeerLicensing
<1>3. sstate = "LICENSING" /\ sstate' = "MULTITRANSPORT_REQUEST"
  BY DEF PeerLicensing, Running, TransitionTo
<1>4. EarlyOK' /\ PostedOK' /\ ConnectedOK' /\ LayoutOK'
  BY <1>1, <1>3, EarlyRest DEF Activation, FinalizationStates, Counted
<1>5. PICK x \in Messages : x = Msg("License", 0) /\ x.type = "License" /\ x.n = 0
  BY NewMessage DEF Types
<1>6. s2c' = s2c \o <<x>>
  <2>1. s2c' = Append(s2c, Msg("License", 0))
    BY DEF PeerLicensing
  <2>2. s2c \in Seq(Messages)
    BY DEF TypeInv, StreamsOK
  <2>3. s2c' = Append(s2c, x)
    BY <2>1, <1>5
  <2> QED BY <2>2, <2>3
<1>7. Undemanding(<<x>>)
  BY <1>5, UndemandingOne
<1>8. DemandsOK' /\ ReactivationOK' /\ ShutdownOK'
  BY <1>1, <1>2, <1>6, <1>7, UndemandingRest DEF Counted
<1> QED BY <1>4, <1>8 DEF Counted

(* The first demand bears the number one.                                  *)
LEMMA DemandActiveCounts ==
    ASSUME TypeInv, TypeInv', Counted, PeerDemandActive
    PROVE  Counted'
<1>1. UNCHANGED <<opts, c2s, sflags, joined, posted, connected, cstate, cflags, cdemand, layoutPdu, shutdowns>>
  BY DEF PeerDemandActive, clientVars, budget
<1>2. cur' = cur \/ cur' = NoMsg
  BY FinishCur DEF PeerDemandActive
<1>3. sstate' = "MONITOR_LAYOUT" /\ demanded' = demanded + 1 /\ demanded \in Nat
  BY DEF PeerDemandActive, TransitionTo, TypeInv, CountsOK
<1>4. EarlyOK' /\ PostedOK' /\ ConnectedOK' /\ LayoutOK'
  BY <1>1, <1>3, LateRest DEF Activation, Counted
<1>5. PICK x \in Messages : x = Msg("DemandActive", demanded') /\ x.type = "DemandActive" /\ x.n = demanded'
  BY <1>3, NewMessage DEF Types
<1>6. s2c' = s2c \o <<x>>
  <2>1. s2c' = Append(s2c, Msg("DemandActive", demanded'))
    BY DEF PeerDemandActive
  <2>2. s2c \in Seq(Messages)
    BY DEF TypeInv, StreamsOK
  <2>3. s2c' = Append(s2c, x)
    BY <2>1, <1>5
  <2> QED BY <2>2, <2>3
<1>7. <<x>> \in Seq(Messages) /\ DOMAIN <<x>> = {1} /\ <<x>>[1] = x
  OBVIOUS
<1>8. DemandsOK' /\ ReactivationOK' /\ ShutdownOK'
  <2>1. demanded <= demanded' /\ demanded < demanded'
    BY <1>3
  <2>2. \A i \in DOMAIN <<x>> :
             /\ <<x>>[i].type = "DemandActive" => <<x>>[i].n = demanded' /\ demanded < demanded'
             /\ <<x>>[i].type = "DeactivateAll" => Reactivation \in sflags'
             /\ <<x>>[i].type = "Ultimatum" => shutdowns # 0
    BY <1>5, <1>7, <2>1
  <2>3. \A i, j \in DOMAIN <<x>> : i < j => <<x>>[i].type # "DemandActive" \/ <<x>>[j].type # "DemandActive"
    BY <1>7
  <2> QED BY <1>1, <1>2, <1>6, <1>7, <2>1, <2>2, <2>3, SentRest DEF Counted
<1> QED BY <1>4, <1>8 DEF Counted

(* The monitor layout keeps the numbers.                                   *)
LEMMA MonitorLayoutCounts ==
    ASSUME TypeInv, TypeInv', Counted, PeerMonitorLayout
    PROVE  Counted'
<1>1. UNCHANGED <<opts, c2s, sflags, joined, posted, connected, demanded, cstate, cflags, cdemand,
                  layoutPdu, shutdowns>>
  BY DEF PeerMonitorLayout, clientVars, answers, budget
<1>2. cur' = cur \/ cur' = NoMsg
  BY FinishCur DEF PeerMonitorLayout
<1>3. sstate' = "CONFIRM_ACTIVE"
  BY DEF PeerMonitorLayout, TransitionTo
<1>4. EarlyOK' /\ PostedOK' /\ ConnectedOK' /\ LayoutOK'
  BY <1>1, <1>3, LateRest DEF Activation, Counted
<1>5. PICK x \in Messages : x = Msg("MonitorLayout", 0) /\ x.type = "MonitorLayout" /\ x.n = 0
  BY NewMessage DEF Types
<1>6. s2c' = s2c \/ s2c' = s2c \o <<x>>
  <2>1. s2c' = s2c \/ s2c' = Append(s2c, Msg("MonitorLayout", 0))
    BY DEF PeerMonitorLayout
  <2>2. s2c \in Seq(Messages)
    BY DEF TypeInv, StreamsOK
  <2>3. s2c' = s2c \/ s2c' = Append(s2c, x)
    BY <2>1, <1>5
  <2> QED BY <2>2, <2>3
<1>7. Undemanding(<<x>>)
  BY <1>5, UndemandingOne
<1>8. DemandsOK' /\ ReactivationOK' /\ ShutdownOK'
  <2>1. CASE s2c' = s2c
    BY <1>1, <1>2, <2>1, SilentRest DEF Counted
  <2>2. CASE s2c' = s2c \o <<x>>
    BY <1>1, <1>2, <1>7, <2>2, UndemandingRest DEF Counted
  <2> QED BY <1>6, <2>1, <2>2
<1> QED BY <1>4, <1>8 DEF Counted

(* Three streams, one after the other, in either grouping.                 *)
LEMMA ConcatIsAssociative ==
    ASSUME NEW q \in Seq(Messages), NEW r \in Seq(Messages), NEW o \in Seq(Messages)
    PROVE  (q \o r) \o o = q \o (r \o o)
BY ConcatAssociative

(* peer_recv_pdu keeps the numbers, in the two states it is the handler    *)
(* of.                                                                     *)
LEMMA RecvCounts ==
    ASSUME TypeInv, TypeInv', Counted, PeerConfirmActive \/ PeerActive
    PROVE  Counted'
<1>1. UNCHANGED <<opts, c2s, cstate, cflags, cdemand, layoutPdu, demanded, posted, connected, shutdowns>>
  BY DEF PeerConfirmActive, PeerActive, clientVars, budget
<1>2. sstate' = PeerRecvPdu.state /\ sflags' = PeerRecvPdu.flags /\ s2c' = s2c \o PeerRecvPdu.out
      /\ Finish(PeerRecvPdu.rc, TRUE)
  BY RecvHandled
<1>3. cur' = cur \/ cur' = NoMsg
  BY <1>2, FinishCur
<1>4. sstate \in {"CONFIRM_ACTIVE", "ACTIVE"}
  BY DEF PeerConfirmActive, PeerActive, Running
<1>5. sstate' \in Activation
  BY <1>2, <1>4, RecvPduType DEF Activation, FinalizationStates
<1>6. EarlyOK' /\ PostedOK' /\ ConnectedOK' /\ LayoutOK'
  BY <1>1, <1>5, LateRest DEF Counted
<1>7. Undemanding(PeerRecvPdu.out) /\ (Reactivation \in sflags => Reactivation \in sflags')
  BY <1>2, RecvUndemanding DEF Counted
<1>8. DemandsOK' /\ ReactivationOK' /\ ShutdownOK'
  BY <1>1, <1>2, <1>3, <1>7, UndemandingRest DEF Counted
<1> QED BY <1>6, <1>8 DEF Counted

(* A state of the finalization keeps the numbers.                          *)
LEMMA FinalizationCounts ==
    ASSUME TypeInv, TypeInv', Counted, NEW st \in FinalizationStates, NEW flag,
           NEW next \in FinalizationStates, NEW out, Undemanding(out), Finalization(st, flag, next, out)
    PROVE  Counted'
<1>1. UNCHANGED <<opts, c2s, cstate, cflags, cdemand, layoutPdu, demanded, posted, connected, shutdowns>>
  BY DEF Finalization, clientVars, budget
<1>2. /\ sstate = st /\ sflags' = PeerRecvPdu.flags
      /\ flag \in PeerRecvPdu.flags =>
           sstate' = next /\ s2c' = (s2c \o PeerRecvPdu.out) \o out /\ Finish(PeerRecvPdu.rc, TRUE)
      /\ flag \notin PeerRecvPdu.flags =>
           sstate' = PeerRecvPdu.state /\ s2c' = (s2c \o PeerRecvPdu.out) \o <<>> /\ Finish("SUCCESS", TRUE)
  BY FinalizationHandles
<1>3. cur' = cur \/ cur' = NoMsg
  BY <1>2, FinishCur
<1>4. sstate' \in Activation
  BY <1>2, RecvPduType DEF Activation, FinalizationStates
<1>5. EarlyOK' /\ PostedOK' /\ ConnectedOK' /\ LayoutOK'
  BY <1>1, <1>4, LateRest DEF Counted
<1>6. Undemanding(PeerRecvPdu.out) /\ (Reactivation \in sflags => Reactivation \in sflags')
  BY <1>2, RecvUndemanding DEF Counted
<1>7. PICK o : Undemanding(o) /\ s2c' = (s2c \o PeerRecvPdu.out) \o o
  BY <1>2, UndemandingEmpty
<1>8. s2c' = s2c \o (PeerRecvPdu.out \o o)
  <2>1. s2c \in Seq(Messages) /\ PeerRecvPdu.out \in Seq(Messages) /\ o \in Seq(Messages)
    BY <1>6, <1>7 DEF Undemanding, TypeInv, StreamsOK
  <2>2. (s2c \o PeerRecvPdu.out) \o o = s2c \o (PeerRecvPdu.out \o o)
    BY <2>1, ConcatIsAssociative
  <2> QED BY <1>7, <2>2, Zenon
<1>9. Undemanding(PeerRecvPdu.out \o o)
  BY <1>6, <1>7, UndemandingConcat
<1>10. DemandsOK' /\ ReactivationOK' /\ ShutdownOK'
  BY <1>1, <1>3, <1>6, <1>8, <1>9, UndemandingRest DEF Counted
<1> QED BY <1>5, <1>10 DEF Counted

(* So does each of the four states that differ in their flag only.         *)
LEMMA FinalizationsCount ==
    ASSUME TypeInv, TypeInv', Counted,
           PeerFinalizationSync \/ PeerFinalizationCooperate \/ PeerFinalizationRequestControl
             \/ PeerFinalizationKeys
    PROVE  Counted'
<1>1. Undemanding(<<Msg("Granted", 0)>>)
  <2>1. PICK x \in Messages : x = Msg("Granted", 0) /\ x.type = "Granted" /\ x.n = 0
    BY NewMessage DEF Types
  <2>2. Undemanding(<<x>>)
    BY <2>1, UndemandingOne
  <2> QED BY <2>1, <2>2
<1>2. {"FINALIZATION_SYNC", "FINALIZATION_COOPERATE", "FINALIZATION_REQUEST_CONTROL",
       "FINALIZATION_PERSISTENT_KEY_LIST", "FINALIZATION_FONT_LIST"} \subseteq FinalizationStates
  BY DEF FinalizationStates
<1>3. CASE PeerFinalizationSync
  BY <1>2, <1>3, UndemandingEmpty, FinalizationCounts DEF PeerFinalizationSync
<1>4. CASE PeerFinalizationCooperate
  BY <1>2, <1>4, UndemandingEmpty, FinalizationCounts DEF PeerFinalizationCooperate
<1>5. CASE PeerFinalizationRequestControl
  BY <1>1, <1>2, <1>5, FinalizationCounts DEF PeerFinalizationRequestControl
<1>6. CASE PeerFinalizationKeys
  BY <1>2, <1>6, UndemandingEmpty, FinalizationCounts DEF PeerFinalizationKeys
<1> QED BY <1>3, <1>4, <1>5, <1>6

(* So does the state that awaits no key list.                              *)
LEMMA NoKeysCounts ==
    ASSUME TypeInv, TypeInv', Counted, PeerFinalizationNoKeys
    PROVE  Counted'
<1>1. UNCHANGED <<opts, c2s, s2c, sflags, cstate, cflags, cdemand, layoutPdu, demanded, posted, connected, shutdowns>>
  BY DEF PeerFinalizationNoKeys, clientVars, answers, budget
<1>2. cur' = cur \/ cur' = NoMsg
  BY FinishCur DEF PeerFinalizationNoKeys
<1>3. sstate' = "FINALIZATION_FONT_LIST"
  BY DEF PeerFinalizationNoKeys, TransitionTo
<1>4. EarlyOK' /\ PostedOK' /\ ConnectedOK' /\ LayoutOK'
  BY <1>1, <1>3, LateRest DEF Activation, FinalizationStates, Counted
<1>5. DemandsOK' /\ ReactivationOK' /\ ShutdownOK'
  BY <1>1, <1>2, SilentRest DEF Counted
<1> QED BY <1>4, <1>5 DEF Counted

(* So does the state that awaits the font list.                            *)
LEMMA FontListCounts ==
    ASSUME TypeInv, TypeInv', Counted, PeerFinalizationFontList
    PROVE  Counted'
<1>1. UNCHANGED <<opts, c2s, cstate, cflags, cdemand, layoutPdu, demanded, posted, connected, shutdowns>>
  BY DEF PeerFinalizationFontList, clientVars, budget
<1>2. sstate = "FINALIZATION_FONT_LIST" /\ sflags' = PeerRecvPdu.flags /\ s2c' = s2c \o PeerRecvPdu.out
      /\ (sstate' = "ACTIVE" \/ sstate' = PeerRecvPdu.state)
  BY DEF PeerFinalizationFontList, Running
<1>3. cur' = cur \/ cur' = NoMsg
  BY DEF PeerFinalizationFontList, Finish
<1>4. sstate' \in Activation
  BY <1>2, RecvPduType DEF Activation, FinalizationStates
<1>5. EarlyOK' /\ PostedOK' /\ ConnectedOK' /\ LayoutOK'
  BY <1>1, <1>4, LateRest DEF Counted
<1>6. Undemanding(PeerRecvPdu.out) /\ (Reactivation \in sflags => Reactivation \in sflags')
  BY <1>2, RecvUndemanding DEF Counted
<1>7. DemandsOK' /\ ReactivationOK' /\ ShutdownOK'
  BY <1>1, <1>2, <1>3, <1>6, UndemandingRest DEF Counted
<1> QED BY <1>5, <1>7 DEF Counted

(* A new demand bears a new number, and the server knows that it has       *)
(* deactivated its client.                                                 *)
LEMMA ReactivateCounts ==
    ASSUME TypeInv, TypeInv', Counted, Reactivate,
           UNCHANGED <<opts, c2s, cstate, cflags, cdemand, layoutPdu, shutdowns>>,
           cur' = cur \/ cur' = NoMsg,
           \/ UNCHANGED <<posted, connected>>
           \/ connected' = TRUE /\ posted' = posted + (IF connected THEN 0 ELSE 1)
    PROVE  Counted'
<1>1. sstate' = "MONITOR_LAYOUT" /\ demanded' = demanded + 1 /\ demanded \in Nat
      /\ sflags' = sflags \cup {Reactivation}
  BY DEF Reactivate, TypeInv, CountsOK
<1>2. EarlyOK' /\ PostedOK' /\ ConnectedOK' /\ LayoutOK'
  BY <1>1, LateRest DEF Activation, Counted
<1>3. PICK x \in Messages : x = Msg("DeactivateAll", 0) /\ x.type = "DeactivateAll" /\ x.n = 0
  BY NewMessage DEF Types
<1>4. PICK y \in Messages : y = Msg("DemandActive", demanded') /\ y.type = "DemandActive" /\ y.n = demanded'
  BY <1>1, NewMessage DEF Types
<1>5. s2c' = s2c \o <<x, y>>
  BY <1>3, <1>4 DEF Reactivate
<1>6. <<x, y>> \in Seq(Messages) /\ DOMAIN <<x, y>> = {1, 2} /\ <<x, y>>[1] = x /\ <<x, y>>[2] = y
  OBVIOUS
<1>7. demanded <= demanded' /\ demanded < demanded'
  BY <1>1
<1>8. \A i \in DOMAIN <<x, y>> :
        /\ <<x, y>>[i].type = "DemandActive" => <<x, y>>[i].n = demanded' /\ demanded < demanded'
        /\ <<x, y>>[i].type = "DeactivateAll" => Reactivation \in sflags'
        /\ <<x, y>>[i].type = "Ultimatum" => shutdowns # 0
  BY <1>1, <1>3, <1>4, <1>6, <1>7
<1>9. \A i, j \in DOMAIN <<x, y>> : i < j => <<x, y>>[i].type # "DemandActive" \/ <<x, y>>[j].type # "DemandActive"
  BY <1>3, <1>6
<1>10. DemandsOK' /\ ReactivationOK' /\ ShutdownOK'
  BY <1>1, <1>5, <1>6, <1>7, <1>8, <1>9, SentRest DEF Counted
<1> QED BY <1>2, <1>10 DEF Counted

(* Activating the peer keeps the numbers, and calls PostConnect once.      *)
LEMMA ActivateCounts ==
    ASSUME TypeInv, TypeInv', Counted, PeerActivate \/ PeerActivateResizes \/ PeerPostConnectResizes
    PROVE  Counted'
<1>1. PeerActivates
  BY DEF PeerActivate, PeerActivateResizes, PeerPostConnectResizes
<1>2. /\ UNCHANGED <<opts, c2s, cstate, cflags, cdemand, layoutPdu, shutdowns>>
      /\ connected' = TRUE /\ posted' = posted + (IF connected THEN 0 ELSE 1)
      /\ sstate = "ACTIVE"
  BY <1>1 DEF PeerActivates, Running, clientVars
<1>3. cur' = cur \/ cur' = NoMsg
  BY <1>1, FinishCur DEF PeerActivates
<1>4. CASE PeerActivate
  <2>1. UNCHANGED <<s2c, sstate, sflags, demanded>>
    BY <1>4 DEF PeerActivate
  <2>2. EarlyOK' /\ PostedOK' /\ ConnectedOK' /\ LayoutOK'
    BY <1>2, <2>1, LateRest DEF Activation, Counted
  <2>3. DemandsOK' /\ ReactivationOK' /\ ShutdownOK'
    BY <1>2, <1>3, <2>1, SilentRest DEF Counted
  <2> QED BY <2>2, <2>3 DEF Counted
<1>5. CASE PeerActivateResizes \/ PeerPostConnectResizes
  <2>1. Reactivate
    BY <1>5 DEF PeerActivateResizes, PeerPostConnectResizes
  <2> QED BY <1>2, <1>3, <2>1, ReactivateCounts
<1> QED BY <1>4, <1>5

(* A resize from outside keeps the numbers.                                *)
LEMMA DesktopResizeCounts ==
    ASSUME TypeInv, TypeInv', Counted, DesktopResize
    PROVE  Counted'
<1>1. /\ Reactivate /\ cur' = cur
      /\ UNCHANGED <<opts, c2s, cstate, cflags, cdemand, layoutPdu, shutdowns, posted, connected>>
  BY DEF DesktopResize, clientVars, history
<1> QED BY <1>1, ReactivateCounts

(* A transport that fails keeps the numbers.                               *)
LEMMA TransportFailsCounts ==
    ASSUME TypeInv, TypeInv', Counted, PeerTransportFails
    PROVE  Counted'
<1>1. UNCHANGED <<opts, c2s, s2c, cur, sstate, sflags, joined, cstate, cflags, cdemand, layoutPdu, demanded,
                  posted, connected, shutdowns>>
  BY DEF PeerTransportFails, clientVars, answers, history, budget
<1>2. (DOMAIN Waits = {"NEGO", "MCS_CREATE_REQUEST", "MCS_ERECT_DOMAIN", "MCS_ATTACH_USER"})'
  BY WaitsIs, PTL
<1>3. EarlyOK' /\ PostedOK' /\ ConnectedOK' /\ LayoutOK'
  BY <1>1, <1>2, WaitsIs DEF EarlyOK, PostedOK, ConnectedOK, LayoutOK, Counted
<1>4. DemandsOK' /\ ReactivationOK' /\ ShutdownOK'
  BY <1>1, SilentRest DEF Counted
<1> QED BY <1>3, <1>4 DEF Counted

\* Messages of the client that neither confirm a demand nor ask for the end.
Plain(out) ==
    /\ out \in Seq(Messages)
    /\ \A i \in DOMAIN out : out[i].type \notin {"ConfirmActive", "Shutdown"}

(* Sending nothing is plain.                                               *)
LEMMA PlainEmpty == Plain(<<>>)
<1>1. <<>> \in Seq(Messages) /\ DOMAIN <<>> = {}
  OBVIOUS
<1> QED BY <1>1 DEF Plain

(* So is one message that neither answers a demand nor asks for the end.   *)
LEMMA PlainOne ==
    ASSUME NEW t \in Types, NEW k \in Nat, t \notin {"ConfirmActive", "Shutdown"}
    PROVE  Plain(<<Msg(t, k)>>)
<1>1. PICK x \in Messages : x = Msg(t, k) /\ x.type = t /\ x.n = k
  BY NewMessage
<1>2. <<x>> \in Seq(Messages) /\ DOMAIN <<x>> = {1} /\ <<x>>[1] = x
  OBVIOUS
<1> QED BY <1>1, <1>2 DEF Plain

(* And so are two plain streams, one after the other.                      *)
LEMMA PlainConcat ==
    ASSUME NEW q, NEW r, Plain(q), Plain(r)
    PROVE  Plain(q \o r)
<1>1. q \in Seq(Messages) /\ r \in Seq(Messages)
  BY DEF Plain
<1>2. q \o r \in Seq(Messages)
  BY <1>1
<1>3. ASSUME NEW i \in DOMAIN (q \o r)
      PROVE  (q \o r)[i].type \notin {"ConfirmActive", "Shutdown"}
  BY <1>1, ConcatAt DEF Plain
<1> QED BY <1>2, <1>3 DEF Plain

(* What the client sends after the channels are joined is plain.           *)
LEMMA PlainClientInfo == Plain(ClientInfo)
<1>1. Plain(<<Msg("SecurityExchange", 0)>>) /\ Plain(<<Msg("ClientInfo", 0)>>)
  BY PlainOne DEF Types
<1>2. CASE opts.rdpSecurity
  BY <1>1, <1>2, PlainConcat DEF ClientInfo
<1>3. CASE ~opts.rdpSecurity
  BY <1>1, <1>3, PlainEmpty, PlainConcat DEF ClientInfo
<1> QED BY <1>2, <1>3

\* The server's side of the counts does not change in a step of the client.
LEMMA ServerSideStays ==
    ASSUME EarlyOK, PostedOK, ConnectedOK, UNCHANGED <<opts, sstate, joined, demanded, posted, connected>>
    PROVE  EarlyOK' /\ PostedOK' /\ ConnectedOK'
<1>1. (DOMAIN Waits = {"NEGO", "MCS_CREATE_REQUEST", "MCS_ERECT_DOMAIN", "MCS_ATTACH_USER"})'
  BY WaitsIs, PTL
<1> QED BY <1>1, WaitsIs DEF EarlyOK, PostedOK, ConnectedOK

\* A step of the client that sends plain messages and answers no new demand.
LEMMA PlainCounts ==
    ASSUME TypeInv, TypeInv', Counted, NEW rest, NEW out, Plain(out), ClientStep(rest, out),
           rest = s2c \/ (s2c # <<>> /\ rest = Tail(s2c)), cdemand' = cdemand,
           Reactivation \in cflags' =>
             Reactivation \in cflags \/ (s2c # <<>> /\ Head(s2c).type = "DeactivateAll"),
           LayoutOK'
    PROVE  Counted'
<1>1. /\ s2c' = rest /\ c2s' = c2s \o out
      /\ UNCHANGED <<opts, sstate, sflags, cur, joined, connected, demanded, posted, shutdowns>>
  BY ClientStepIs
<1>2. out \in Seq(Messages) /\ \A i \in DOMAIN out : out[i].type \notin {"ConfirmActive", "Shutdown"}
  BY DEF Plain
<1>3. DemandsOK' /\ ReactivationOK' /\ ShutdownOK'
  BY <1>1, <1>2, TakenRest DEF Counted
<1>4. EarlyOK' /\ PostedOK' /\ ConnectedOK'
  BY <1>1, ServerSideStays DEF Counted
<1> QED BY <1>3, <1>4 DEF Counted

(* The client's steps up to the licence keep the numbers.                  *)
LEMMA ConnectingCounts ==
    ASSUME TypeInv, TypeInv', Counted,
           ClientNego \/ ClientConnectResponse \/ ClientAttachConfirm \/ ClientJoinConfirm
             \/ ClientTryAgain \/ ClientLicense
    PROVE  Counted'
<1>1. UNCHANGED <<cflags, cdemand>>
  BY DEF ClientNego, ClientConnectResponse, ClientAttachConfirm, ClientJoinConfirm, ClientTryAgain, ClientLicense
<1>2. LayoutOK'
  <2>1. cstate' # "MONITOR_LAYOUT"
    <3>1. CASE ClientNego \/ ClientConnectResponse \/ ClientTryAgain \/ ClientLicense
      BY <3>1 DEF ClientNego, ClientConnectResponse, ClientTryAgain, ClientLicense
    <3>2. CASE ClientAttachConfirm \/ ClientJoinConfirm
      BY <3>2 DEF ClientAttachConfirm, ClientJoinConfirm, Got
    <3> QED BY <3>1, <3>2
  <2> QED BY <2>1 DEF LayoutOK
<1>3. CASE ClientNego
  <2>1. Plain(<<Msg("ConnectInitial", 0)>>) /\ ClientStep(Tail(s2c), <<Msg("ConnectInitial", 0)>>) /\ s2c # <<>>
    BY <1>3, PlainOne DEF ClientNego, Got, Types
  <2> QED BY <1>1, <1>2, <2>1, PlainCounts
<1>4. CASE ClientConnectResponse
  <2>1. Plain(<<Msg("ErectDomain", 0)>>) /\ Plain(<<Msg("AttachUser", 0)>>)
    BY PlainOne DEF Types
  <2>2. <<Msg("ErectDomain", 0), Msg("AttachUser", 0)>> = <<Msg("ErectDomain", 0)>> \o <<Msg("AttachUser", 0)>>
    BY MsgType DEF Types
  <2>3. Plain(<<Msg("ErectDomain", 0), Msg("AttachUser", 0)>>)
    BY <2>1, <2>2, PlainConcat
  <2>4. ClientStep(Tail(s2c), <<Msg("ErectDomain", 0), Msg("AttachUser", 0)>>) /\ s2c # <<>>
    BY <1>4 DEF ClientConnectResponse, Got
  <2> QED BY <1>1, <1>2, <2>3, <2>4, PlainCounts
<1>5. CASE ClientAttachConfirm
  <2>1. Plain(<<Msg("JoinRequest", 1)>>)
    BY PlainOne DEF Types
  <2>2. PICK out : Plain(out) /\ ClientStep(Tail(s2c), out) /\ s2c # <<>>
    <3>1. CASE opts.skipJoin
      BY <1>5, <3>1, PlainClientInfo DEF ClientAttachConfirm, Got
    <3>2. CASE ~opts.skipJoin
      BY <1>5, <2>1, <3>2 DEF ClientAttachConfirm, Got
    <3> QED BY <3>1, <3>2
  <2> QED BY <1>1, <1>2, <2>2, PlainCounts
<1>6. CASE ClientJoinConfirm
  <2>1. Head(s2c).n \in Nat /\ s2c # <<>>
    <3>1. s2c # <<>> /\ Head(s2c) \in Messages
      BY <1>6 DEF ClientJoinConfirm, Got, TypeInv, StreamsOK
    <3> QED BY <3>1, MessageIs
  <2>2. Plain(<<Msg("JoinRequest", Head(s2c).n + 1)>>)
    BY <2>1, PlainOne DEF Types
  <2>3. PICK out : Plain(out) /\ ClientStep(Tail(s2c), out)
    <3>1. CASE Head(s2c).n < NChannels
      BY <1>6, <2>2, <3>1 DEF ClientJoinConfirm
    <3>2. CASE ~(Head(s2c).n < NChannels)
      BY <1>6, <3>2, PlainClientInfo DEF ClientJoinConfirm
    <3> QED BY <3>1, <3>2
  <2> QED BY <1>1, <1>2, <2>1, <2>3, PlainCounts
<1>7. CASE ClientTryAgain
  <2>1. ClientStep(s2c, <<>>)
    BY <1>7 DEF ClientTryAgain
  <2> QED BY <1>1, <1>2, <2>1, PlainEmpty, PlainCounts
<1>8. CASE ClientLicense
  <2>1. ClientStep(Tail(s2c), <<>>) /\ s2c # <<>>
    BY <1>8 DEF ClientLicense, Got
  <2> QED BY <1>1, <1>2, <2>1, PlainEmpty, PlainCounts
<1> QED BY <1>3, <1>4, <1>5, <1>6, <1>7, <1>8

(* The client's finalization PDUs keep the numbers.                        *)
LEMMA ClientFinalizeCounts ==
    ASSUME TypeInv, TypeInv', Counted, ClientFinalize
    PROVE  Counted'
<1>1. UNCHANGED <<cflags, cdemand>> /\ cdemand \in Nat /\ cstate \in FinalizationStates
      /\ ClientStep(s2c, <<Msg(ClientBatch[cstate].pdu, cdemand)>>) /\ cstate' = ClientBatch[cstate].next
  BY DEF ClientFinalize, TypeInv, ClientOK
<1>2. cstate' # "MONITOR_LAYOUT" /\ ClientBatch[cstate].pdu \in {"Sync", "Cooperate", "Request", "Keys", "FontList"}
  BY <1>1, BatchIs DEF FinalizationStates
<1>3. LayoutOK'
  BY <1>2 DEF LayoutOK
<1>4. Plain(<<Msg(ClientBatch[cstate].pdu, cdemand)>>)
  BY <1>1, <1>2, PlainOne DEF Types
<1> QED BY <1>1, <1>3, <1>4, PlainCounts

(* An answer bears the number of a demand that was made.                   *)
LEMMA ClientConfirmActiveCounts ==
    ASSUME TypeInv, TypeInv', Counted, ClientConfirmActive
    PROVE  Counted'
<1>1. /\ ClientStep(s2c, <<Msg("ConfirmActive", cdemand)>>) /\ cdemand' = cdemand /\ cdemand \in Nat
      /\ cflags' = cflags \cap {Reactivation} /\ layoutPdu' = FALSE
      /\ cstate' = IF opts.layout THEN "MONITOR_LAYOUT" ELSE "FINALIZATION_SYNC"
  BY DEF ClientConfirmActive, TypeInv, ClientOK
<1>2. PICK x \in Messages : x = Msg("ConfirmActive", cdemand) /\ x.type = "ConfirmActive" /\ x.n = cdemand
  BY <1>1, NewMessage DEF Types
<1>3. /\ s2c' = s2c /\ c2s' = c2s \o <<x>>
      /\ UNCHANGED <<opts, sstate, sflags, cur, joined, connected, demanded, posted, shutdowns>>
  BY <1>1, <1>2, ClientStepIs
<1>4. <<x>> \in Seq(Messages) /\ DOMAIN <<x>> = {1} /\ <<x>>[1] = x
  OBVIOUS
<1>5. cdemand <= demanded
  BY DEF Counted, DemandsOK
<1>6. DemandsOK' /\ ReactivationOK' /\ ShutdownOK'
  BY <1>1, <1>2, <1>3, <1>4, <1>5, TakenRest DEF Counted
<1>7. EarlyOK' /\ PostedOK' /\ ConnectedOK'
  BY <1>3, ServerSideStays DEF Counted
<1>8. LayoutOK'
  BY <1>1, <1>3 DEF LayoutOK
<1> QED BY <1>6, <1>7, <1>8 DEF Counted

(* The client takes a reactivation from a deactivation only.               *)
LEMMA RecvReactivates ==
    ASSUME TypeInv, NEW x \in Messages, Reactivation \in ClientRecvPdu(x).flags
    PROVE  Reactivation \in cflags \/ x.type = "DeactivateAll"
<1>1. DOMAIN FlagOf = {"Sync", "Cooperate", "Granted", "FontMap"}
      /\ \A t \in DOMAIN FlagOf : FlagOf[t] # Reactivation
  BY DEF FlagOf, Reactivation
<1> QED BY <1>1, ClientRecvIs

(* Reading a demand keeps the numbers.                                     *)
LEMMA ClientDemandActiveCounts ==
    ASSUME TypeInv, TypeInv', Counted, ClientDemandActive
    PROVE  Counted'
<1>1. /\ s2c # <<>> /\ Head(s2c) \in Messages /\ ClientStep(Tail(s2c), <<>>)
      /\ cstate' \in {"CONFIRM_ACTIVE", "DEMAND_ACTIVE"} /\ cflags' = ClientRecvPdu(Head(s2c)).flags
      /\ cdemand' = IF Head(s2c).type = "DemandActive" THEN Head(s2c).n ELSE cdemand
  BY DEF ClientDemandActive, TypeInv, StreamsOK
<1>2. /\ s2c' = Tail(s2c) /\ c2s' = c2s \o <<>>
      /\ UNCHANGED <<opts, sstate, sflags, cur, joined, connected, demanded, posted, shutdowns>>
  BY <1>1, ClientStepIs
<1>3. Reactivation \in cflags' => Reactivation \in cflags \/ Head(s2c).type = "DeactivateAll"
  BY <1>1, RecvReactivates
<1>4. <<>> \in Seq(Messages) /\ DOMAIN <<>> = {}
  OBVIOUS
<1>5. DemandsOK' /\ ReactivationOK' /\ ShutdownOK'
  BY <1>1, <1>2, <1>3, <1>4, TakenRest DEF Counted
<1>6. EarlyOK' /\ PostedOK' /\ ConnectedOK'
  BY <1>2, ServerSideStays DEF Counted
<1>7. LayoutOK'
  BY <1>1 DEF LayoutOK
<1> QED BY <1>5, <1>6, <1>7 DEF Counted

(* Reading the monitor layout keeps the numbers.                           *)
LEMMA ClientMonitorLayoutCounts ==
    ASSUME TypeInv, TypeInv', Counted, ClientMonitorLayout
    PROVE  Counted'
<1> DEFINE r == ClientRecvPdu(Head(s2c))
           changed == r.flags # cflags \/ r.layout
           failed == ~r.ok \/ (changed /\ ~r.layout /\ "SC_SYNC" \notin r.flags)
<1>1. /\ s2c # <<>> /\ Head(s2c) \in Messages /\ cstate = "MONITOR_LAYOUT" /\ cdemand' = cdemand
      /\ cflags' = r.flags /\ layoutPdu' = r.layout
      /\ cstate' = IF changed /\ ~failed THEN "FINALIZATION_SYNC" ELSE r.state
      /\ ClientStep(IF changed /\ ~r.layout THEN s2c ELSE Tail(s2c), <<>>)
  BY DEF ClientMonitorLayout, TypeInv, StreamsOK
<1>2. Reactivation \in cflags' => Reactivation \in cflags \/ Head(s2c).type = "DeactivateAll"
  BY <1>1, RecvReactivates
<1>3. opts.layout /\ ~layoutPdu /\ opts' = opts
  <2>1. opts' = opts
    BY <1>1 DEF ClientStep
  <2> QED BY <1>1, <2>1 DEF Counted, LayoutOK
<1>4. LayoutOK'
  <2>1. layoutPdu' \in BOOLEAN /\ (layoutPdu' <=> Head(s2c).type = "MonitorLayout")
    BY <1>1, <1>3, ClientRecvIs
  <2>2. CASE Head(s2c).type # "MonitorLayout"
    BY <1>3, <2>1, <2>2 DEF LayoutOK
  <2>3. CASE Head(s2c).type = "MonitorLayout"
    <3>1. r.layout /\ r.ok
      BY <1>1, <1>3, <2>3, ClientRecvIs
    <3>2. cstate' = "FINALIZATION_SYNC"
      BY <1>1, <3>1
    <3> QED BY <3>2 DEF LayoutOK
  <2> QED BY <2>2, <2>3
<1>5. CASE changed /\ ~r.layout
  <2>1. ClientStep(s2c, <<>>)
    BY <1>1, <1>5
  <2> HIDE DEF r, changed, failed
  <2> QED BY <1>1, <1>2, <1>4, <2>1, PlainEmpty, PlainCounts
<1>6. CASE ~(changed /\ ~r.layout)
  <2>1. ClientStep(Tail(s2c), <<>>)
    BY <1>1, <1>6
  <2> HIDE DEF r, changed, failed
  <2> QED BY <1>1, <1>2, <1>4, <2>1, PlainEmpty, PlainCounts
<1> QED BY <1>5, <1>6

(* Whatever else the client reads keeps the numbers.                       *)
LEMMA ClientReceiveCounts ==
    ASSUME TypeInv, TypeInv', Counted, ClientReceive
    PROVE  Counted'
<1>1. /\ s2c # <<>> /\ Head(s2c) \in Messages /\ cdemand' = cdemand
      /\ ClientStep(Tail(s2c), <<>>) /\ cflags' = ClientRecvPdu(Head(s2c)).flags
      /\ (cstate' = Following[cstate] /\ cstate \in DOMAIN Awaited) \/ cstate' = ClientRecvPdu(Head(s2c)).state
      /\ cstate \in ClientFinalizationStates \cup {"ACTIVE"}
  BY DEF ClientReceive, TypeInv, StreamsOK, IsActiveClientState
<1>2. Reactivation \in cflags' => Reactivation \in cflags \/ Head(s2c).type = "DeactivateAll"
  BY <1>1, RecvReactivates
<1>3. cstate' # "MONITOR_LAYOUT"
  <2>1. CASE cstate' = Following[cstate] /\ cstate \in DOMAIN Awaited
    BY <2>1 DEF Following, Awaited
  <2>2. CASE cstate' = ClientRecvPdu(Head(s2c)).state
    BY <1>1, <2>2, ClientRecvIs DEF ClientFinalizationStates
  <2> QED BY <1>1, <2>1, <2>2
<1>4. LayoutOK'
  BY <1>3 DEF LayoutOK
<1> QED BY <1>1, <1>2, <1>4, PlainEmpty, PlainCounts

(* A transport that fails, input and a shutdown request keep the numbers.  *)
LEMMA ClientEndsCounts ==
    ASSUME TypeInv, TypeInv', Counted, ClientTransportFails \/ ClientInput \/ ClientShutdown
    PROVE  Counted'
<1>1. UNCHANGED <<opts, s2c, sstate, sflags, cur, joined, connected, demanded, posted, cstate, cflags,
                  layoutPdu, cdemand>>
  BY DEF ClientTransportFails, ClientInput, ClientShutdown, serverVars, clientVars, answers, history
<1>2. EarlyOK' /\ PostedOK' /\ ConnectedOK'
  BY <1>1, ServerSideStays DEF Counted
<1>3. LayoutOK'
  BY <1>1 DEF LayoutOK, Counted
<1>4. c2s \in Seq(Messages) /\ shutdowns \in Nat
  BY DEF TypeInv, StreamsOK, CountsOK
<1>5. PICK x \in Messages : x = Msg("Input", 0) /\ x.type = "Input" /\ x.n = 0
  BY NewMessage DEF Types
<1>6. PICK y \in Messages : y = Msg("Shutdown", 0) /\ y.type = "Shutdown" /\ y.n = 0
  BY NewMessage DEF Types
<1>7. CASE ClientTransportFails
  <2>1. c2s' = c2s \o <<>> /\ shutdowns' = shutdowns
    BY <1>4, <1>7 DEF ClientTransportFails, budget
  <2>2. <<>> \in Seq(Messages) /\ DOMAIN <<>> = {}
    OBVIOUS
  <2>3. DemandsOK' /\ ReactivationOK' /\ ShutdownOK'
    BY <1>1, <2>1, <2>2, TakenRest DEF Counted
  <2> QED BY <1>2, <1>3, <2>3 DEF Counted
<1>8. CASE ClientInput
  <2>1. c2s' = c2s \o <<x>> /\ shutdowns' = shutdowns
    BY <1>4, <1>5, <1>8 DEF ClientInput
  <2>2. <<x>> \in Seq(Messages) /\ DOMAIN <<x>> = {1} /\ <<x>>[1] = x
    OBVIOUS
  <2>3. DemandsOK' /\ ReactivationOK' /\ ShutdownOK'
    BY <1>1, <1>5, <2>1, <2>2, TakenRest DEF Counted
  <2> QED BY <1>2, <1>3, <2>3 DEF Counted
<1>9. CASE ClientShutdown
  <2>1. c2s' = c2s \o <<y>> /\ shutdowns' = shutdowns + 1
    BY <1>4, <1>6, <1>9 DEF ClientShutdown
  <2>2. <<y>> \in Seq(Messages) /\ DOMAIN <<y>> = {1} /\ <<y>>[1] = y
    OBVIOUS
  <2>3. shutdowns' # 0
    BY <1>4, <2>1
  <2>4. DemandsOK' /\ ReactivationOK' /\ ShutdownOK'
    BY <1>1, <1>6, <2>1, <2>2, <2>3, TakenRest DEF Counted
  <2> QED BY <1>2, <1>3, <2>4 DEF Counted
<1> QED BY <1>7, <1>8, <1>9

-----------------------------------------------------------------------------
(***************************************************************************)
(* The connection sequence: the inductive invariant, and what follows from *)
(* it.                                                                     *)
(***************************************************************************)

\* A connection begins with the client's request on its way.
LEMMA PeerBegins == PeerInit => PeerIndInv
<1> SUFFICES ASSUME PeerInit PROVE PeerIndInv
  OBVIOUS
<1>1. PICK x \in Messages : x = Msg("NegoRequest", 0) /\ x.type = "NegoRequest" /\ x.n = 0
  BY NewMessage DEF Types
<1>2. PICK z \in Messages : z = NoMsg /\ z.type = "none" /\ z.n = 0
  <2>1. \E z \in Messages : z = Msg("none", 0) /\ z.type = "none" /\ z.n = 0
    BY NewMessage DEF Types
  <2> QED BY <2>1 DEF NoMsg
<1>3. TypeInv
  <2>1. <<x>> \in Seq(Messages) /\ <<>> \in Seq(Messages)
    OBVIOUS
  <2>2. StreamsOK
    BY <1>1, <2>1 DEF PeerInit, StreamsOK
  <2>3. ServerOK
    BY DEF PeerInit, ServerOK, States
  <2>4. CurrentOK
    BY <1>2 DEF PeerInit, CurrentOK
  <2>5. ClientOK
    BY DEF PeerInit, ClientOK, States
  <2>6. CountsOK /\ opts \in Options /\ resizer = "away"
    BY DEF PeerInit, CountsOK
  <2> QED BY <2>2, <2>3, <2>4, <2>5, <2>6 DEF TypeInv
<1>4. InStep
  <2>1. Linked(Messages, UpStep(opts, KeysExpected), z, <<>>, z) /\ Linked(Messages, DownStep(opts), z, <<>>, z)
    BY LinkedEmpty
  <2>2. UpNext(opts, KeysExpected, z, x) /\ x.type \notin Noise
    BY <1>1, <1>2 DEF UpNext, Noise
  <2>3. <<>> \in Seq(Messages) /\ Append(<<>>, x) = <<x>>
    OBVIOUS
  <2>4. Linked(Messages, UpStep(opts, KeysExpected), z, <<x>>, x)
    BY <2>1, <2>2, <2>3, ClientSends
  <2>5. c2s = <<x>> /\ s2c = <<>>
    BY <1>1 DEF PeerInit
  <2>6. Heard(z) /\ Said(z)
    BY <1>2 DEF PeerInit, Heard, Said, FinalizationStates, Demanding, Activation
  <2>7. Taken(z, z)
    BY DEF Taken, PeerInit
  <2>8. Sent(x)
    BY <1>1 DEF PeerInit, Sent, FinalizationStates, ClientFinalizationStates
  <2>9. Seen(z) /\ Joining(z, x)
    BY <1>2 DEF PeerInit, Seen, Joining, FinalizationStates, ClientFinalizationStates, IsActiveClientState
  <2>10. Conversation(z, z, x, z, z)
    BY <2>1, <2>4, <2>5, <2>6, <2>7, <2>8, <2>9 DEF Conversation
  <2> QED BY <2>10 DEF InStep
<1>5. FlagsOK /\ RunOK
  BY DEF PeerInit, FlagsOK, RunOK
<1>6. DemandsOK
  <2>1. DOMAIN s2c = {} /\ DOMAIN c2s = {1} /\ c2s[1] = x
    BY <1>1 DEF PeerInit
  <2>2. cur.type = "none" /\ cdemand = 0 /\ demanded = 0
    BY <1>2 DEF PeerInit
  <2> QED BY <1>1, <2>1, <2>2 DEF DemandsOK
<1>7. ReactivationOK /\ ShutdownOK
  <2>1. DOMAIN s2c = {} /\ DOMAIN c2s = {1} /\ c2s[1] = x
    BY <1>1 DEF PeerInit
  <2>2. cur.type = "none" /\ cflags = {}
    BY <1>2 DEF PeerInit
  <2> QED BY <1>1, <2>1, <2>2 DEF ReactivationOK, ShutdownOK
<1>8. PostedOK /\ EarlyOK /\ LayoutOK /\ ConnectedOK /\ ResizerOK /\ LateOK
  BY DEF PeerInit, PostedOK, EarlyOK, LayoutOK, ConnectedOK, ResizerOK, LateOK
<1>9. HonestClientKept /\ EveryMessageRead
  BY DEF PeerInit, HonestClientKept, EveryMessageRead
<1> QED BY <1>3, <1>4, <1>5, <1>6, <1>7, <1>8, <1>9 DEF PeerIndInv, InOrder

(* The invariant while nobody but its own thread touches the peer.         *)
AloneInv == TypeInv /\ PostedOK /\ InOrder

\* The steps of the peer before its first demand is answered.
LEMMA PeerConnects ==
    ASSUME AloneInv,
           PeerBegin \/ PeerPassOn \/ PeerWaits \/ PeerJoin \/ PeerSecurity \/ PeerClientInfo
             \/ PeerLicensing \/ PeerDemandActive \/ PeerMonitorLayout \/ PeerFinalizationNoKeys
    PROVE  AloneInv'
<1>1. /\ TypeInv /\ InStep /\ FlagsOK /\ RunOK /\ EarlyOK /\ Counted /\ HonestClientKept /\ EveryMessageRead
      /\ PeerAssumption
  BY PeerAssumption DEF AloneInv, InOrder, Counted
<1>2. ASSUME PeerStep, joined' \subseteq 1 .. NChannels PROVE TypeInv'
  BY <1>1, <1>2, ServerTypes
<1>3. ~PeerJoin => joined' = joined
  BY DEF PeerBegin, PeerPassOn, PeerWaits, PeerSecurity, PeerClientInfo, PeerLicensing, PeerDemandActive,
         PeerMonitorLayout, PeerFinalizationNoKeys
<1>4. InStep' /\ joined' \subseteq 1 .. NChannels
  <2>1. joined \subseteq 1 .. NChannels
    BY <1>1 DEF TypeInv, ServerOK
  <2>3. joined' \subseteq 1 .. NChannels
    BY <1>1, <1>3, <2>1, JoinMoves
  <2>4. InStep'
    BY <1>1, BeginTakes, PassOnMoves, WaitsMove, JoinMoves, SecurityMoves, ClientInfoMoves, LicensingMoves,
       DemandActiveMoves, MonitorLayoutMoves
  <2> QED BY <2>3, <2>4
<1>5. TypeInv'
  BY <1>2, <1>4 DEF PeerStep
<1>6. FlagsOK' /\ RunOK' /\ HonestClientKept' /\ EveryMessageRead'
  BY <1>1, WaitsMove, JoinMoves, SecurityMoves, ClientInfoMoves, BeginRest, PassOnRest, NoKeysRest, WaitsRest,
     JoinRest, SecurityRest, ClientInfoRest, LicensingRest, MonitorLayoutRest
<1>7. Counted'
  BY <1>1, <1>5, BeginCounts, PassOnCounts, WaitsCounts, JoinCounts, LicensingCounts, DemandActiveCounts,
     MonitorLayoutCounts, NoKeysCounts
<1> QED BY <1>4, <1>5, <1>6, <1>7 DEF AloneInv, InOrder, Counted

\* The steps of the peer on the answers of the client, and the resizes.
LEMMA PeerHandles ==
    ASSUME AloneInv,
           PeerConfirmActive \/ PeerFinalizationSync \/ PeerFinalizationCooperate
             \/ PeerFinalizationRequestControl \/ PeerFinalizationKeys \/ PeerFinalizationFontList
             \/ PeerActivate \/ PeerActivateResizes \/ PeerPostConnectResizes \/ PeerActive
             \/ PeerTransportFails \/ DesktopResize
    PROVE  AloneInv'
<1>1. /\ TypeInv /\ InStep /\ FlagsOK /\ RunOK /\ DemandsOK /\ ShutdownOK /\ PostedOK /\ Counted
      /\ HonestClientKept /\ EveryMessageRead
  BY DEF AloneInv, InOrder, Counted
<1>2. joined' = joined
  BY DEF PeerConfirmActive, PeerFinalizationSync, PeerFinalizationCooperate,
         PeerFinalizationRequestControl, PeerFinalizationKeys, PeerFinalizationFontList, Finalization,
         PeerActivate, PeerActivateResizes, PeerPostConnectResizes, PeerActivates, PeerActive,
         PeerTransportFails, DesktopResize
<1>3. TypeInv'
  <2>1. joined' \subseteq 1 .. NChannels
    BY <1>1, <1>2 DEF TypeInv, ServerOK
  <2> QED BY <1>1, <1>2, <2>1, ServerTypes DEF PeerStep
<1>4. InStep' /\ FlagsOK' /\ RunOK' /\ HonestClientKept' /\ EveryMessageRead'
  BY <1>1, ConfirmActiveMoves, SyncMoves, CooperateMoves, RequestMoves, KeysMove, FontListMoves, ActivateMoves,
     ActivateResizesMoves, ActiveMoves, TransportFailsMoves, DesktopResizeMoves
<1>5. Counted'
  BY <1>1, <1>3, RecvCounts, FinalizationsCount, FontListCounts, ActivateCounts, DesktopResizeCounts,
     TransportFailsCounts
<1> QED BY <1>3, <1>4, <1>5 DEF AloneInv, InOrder, Counted

\* The steps of the client.
LEMMA ClientGoesOn ==
    ASSUME AloneInv, ClientStepAny \/ ClientInput \/ ClientShutdown
    PROVE  AloneInv'
<1>1. /\ TypeInv /\ InStep /\ FlagsOK /\ RunOK /\ DemandsOK /\ ReactivationOK /\ ShutdownOK /\ LayoutOK /\ Counted
      /\ HonestClientKept /\ EveryMessageRead
  BY DEF AloneInv, InOrder, Counted
<1>2. TypeInv'
  BY <1>1, ClientTypes
<1>3. Counted'
  BY <1>1, <1>2, ConnectingCounts, ClientFinalizeCounts, ClientConfirmActiveCounts, ClientDemandActiveCounts,
     ClientMonitorLayoutCounts, ClientReceiveCounts, ClientEndsCounts DEF ClientStepAny
<1>4. UNCHANGED <<opts, sstate, sflags, run, activated, sclosed, unheard>>
  BY DEF ClientStepAny, ClientNego, ClientConnectResponse, ClientAttachConfirm, ClientJoinConfirm,
         ClientTryAgain, ClientLicense, ClientDemandActive, ClientConfirmActive, ClientFinalize,
         ClientMonitorLayout, ClientReceive, ClientTransportFails, ClientInput, ClientShutdown, ClientStep,
         serverVars, history
<1>5. FlagsOK' /\ RunOK' /\ EveryMessageRead'
  BY <1>1, <1>4, ClientRest
<1>6. InStep'
  BY <1>1, NegoMoves, ConnectResponseMoves, AttachConfirmMoves, JoinConfirmMoves, LicenseMoves,
     ClientDemandActiveMoves, ClientConfirmActiveMoves, ClientFinalizeMoves, ClientMonitorLayoutMoves,
     ClientReceiveMoves, ClientEndsMoves, ClientNoiseMoves DEF ClientStepAny
<1>7. HonestClientKept'
  <2>1. CASE ClientNego \/ ClientConnectResponse \/ ClientAttachConfirm \/ ClientJoinConfirm
               \/ ClientTryAgain \/ ClientLicense
    <3>1. cclosed' = cclosed /\ shutdowns' = shutdowns
      BY <2>1 DEF ClientNego, ClientConnectResponse, ClientAttachConfirm, ClientJoinConfirm, ClientTryAgain,
                  ClientLicense, ClientStep, budget
    <3> QED BY <1>1, <1>4, <3>1 DEF HonestClientKept
  <2>2. CASE ~(ClientNego \/ ClientConnectResponse \/ ClientAttachConfirm \/ ClientJoinConfirm
               \/ ClientTryAgain \/ ClientLicense)
    BY <1>1, <2>2, ClientDemandActiveMoves, ClientConfirmActiveMoves, ClientFinalizeMoves,
       ClientMonitorLayoutMoves, ClientReceiveMoves, ClientEndsMoves, ClientNoiseMoves DEF ClientStepAny
  <2> QED BY <2>1, <2>2
<1> QED BY <1>2, <1>3, <1>5, <1>6, <1>7 DEF AloneInv, InOrder, Counted

(* A step that changes nothing keeps the invariant.                        *)
LEMMA PeerStutters ==
    ASSUME AloneInv, UNCHANGED peerVars
    PROVE  AloneInv'
<1>1. UNCHANGED <<opts, resizer, c2s, s2c, sstate, sflags, run, cur, joined, connected, activated, sclosed,
                  cstate, cflags, layoutPdu, cclosed, cdemand, demanded, confirmed, listed, posted, unheard,
                  resizes, inputs, shutdowns>>
  BY DEF peerVars, serverVars, clientVars, answers, history, budget
<1>2. TypeInv'
  BY <1>1 DEF AloneInv, TypeInv, StreamsOK, ServerOK, CurrentOK, ClientOK, CountsOK
<1>3. InStep'
  <2>1. PICK a \in Messages, m \in Messages, c \in Messages, b \in Messages, s \in Messages :
          Conversation(a, m, c, b, s)
    BY DEF AloneInv, InOrder, InStep
  <2>2. Sent(c)' /\ Seen(b)' /\ Joining(b, c)'
    BY <1>1, <2>1 DEF Conversation, Sent, Seen, SaidJoined, Joining
  <2> QED BY <1>1, <2>1, <2>2, ClientMoves DEF Conversation
<1>4. FlagsOK' /\ RunOK' /\ EveryMessageRead'
  BY <1>1, ClientRest DEF AloneInv, InOrder
<1>5. DemandsOK' /\ ReactivationOK' /\ ShutdownOK'
  BY <1>1, <1>2, SilentRest DEF AloneInv, InOrder
<1>6. EarlyOK' /\ PostedOK' /\ ConnectedOK'
  BY <1>1, ServerSideStays DEF AloneInv, InOrder
<1>7. LayoutOK' /\ HonestClientKept'
  BY <1>1 DEF AloneInv, InOrder, LayoutOK, HonestClientKept
<1> QED BY <1>2, <1>3, <1>4, <1>5, <1>6, <1>7 DEF AloneInv, InOrder

(* Whose server the peer is never changes, and only the resizer's own      *)
(* steps move it.                                                          *)
LEMMA HostStays ==
    ASSUME PeerStep \/ DesktopResize \/ ClientStepAny \/ ClientInput \/ ClientShutdown
    PROVE  UNCHANGED <<opts, resizer>>
<1>1. CASE PeerStep \/ DesktopResize
  BY <1>1 DEF PeerStep, PeerBegin, PeerPassOn, PeerWaits, PeerJoin, PeerSecurity, PeerClientInfo,
         PeerLicensing, PeerDemandActive, PeerMonitorLayout, PeerConfirmActive, PeerFinalizationSync,
         PeerFinalizationCooperate, PeerFinalizationRequestControl, PeerFinalizationKeys,
         PeerFinalizationNoKeys, PeerFinalizationFontList, Finalization, PeerActivate,
         PeerActivateResizes, PeerPostConnectResizes, PeerActivates, PeerActive, PeerTransportFails,
         DesktopResize
<1>2. CASE ClientStepAny \/ ClientInput \/ ClientShutdown
  BY <1>2 DEF ClientStepAny, ClientNego, ClientConnectResponse, ClientAttachConfirm, ClientJoinConfirm,
         ClientTryAgain, ClientLicense, ClientDemandActive, ClientConfirmActive, ClientFinalize,
         ClientMonitorLayout, ClientReceive, ClientTransportFails, ClientInput, ClientShutdown, ClientStep
<1> QED BY <1>1, <1>2

(* A connected peer stays connected, has had its PostConnect and joins no  *)
(* further channel, whoever sets its state.                                *)
LEMMA ConnectedStays ==
    ASSUME TypeInv, PostedOK, LateOK, connected,
           PeerStep \/ DesktopResize \/ ClientStepAny \/ ClientInput \/ ClientShutdown \/ Resizer
    PROVE  connected' /\ PostedOK' /\ joined' = joined
<1>1. CASE ClientStepAny \/ ClientInput \/ ClientShutdown \/ Resizer
  <2>1. UNCHANGED <<connected, posted, joined>>
    BY <1>1 DEF ClientStepAny, ClientNego, ClientConnectResponse, ClientAttachConfirm, ClientJoinConfirm,
           ClientTryAgain, ClientLicense, ClientDemandActive, ClientConfirmActive, ClientFinalize,
           ClientMonitorLayout, ClientReceive, ClientTransportFails, ClientInput, ClientShutdown, ClientStep,
           serverVars, history, Resizer, ResizerDeactivates, ResizerSendsDeactivateAll, ResizerSetsFlag,
           ResizerTransition, ResizerSendsDemandActive, ResizerAwaitsLayout, ResizerGoes
  <2> QED BY <2>1 DEF PostedOK
<1>2. CASE PeerActivate \/ PeerActivateResizes \/ PeerPostConnectResizes
  <2>1. connected' = TRUE /\ posted' = posted + 0 /\ joined' = joined
    BY <1>2 DEF PeerActivate, PeerActivateResizes, PeerPostConnectResizes, PeerActivates
  <2> QED BY <2>1 DEF PostedOK, TypeInv, CountsOK
<1>3. CASE PeerJoin
  BY <1>3 DEF PeerJoin, Running, LateOK, Activation, FinalizationStates
<1>4. CASE DesktopResize \/ (PeerStep /\ ~(PeerActivate \/ PeerActivateResizes \/ PeerPostConnectResizes \/ PeerJoin))
  <2>1. UNCHANGED <<connected, posted, joined>>
    BY <1>4 DEF PeerStep, PeerBegin, PeerPassOn, PeerWaits, PeerSecurity, PeerClientInfo,
         PeerLicensing, PeerDemandActive, PeerMonitorLayout, PeerConfirmActive, PeerFinalizationSync,
         PeerFinalizationCooperate, PeerFinalizationRequestControl, PeerFinalizationKeys,
         PeerFinalizationNoKeys, PeerFinalizationFontList, Finalization, PeerActive, PeerTransportFails,
         DesktopResize, history
  <2> QED BY <2>1 DEF PostedOK
<1> QED BY <1>1, <1>2, <1>3, <1>4

(* The states of a connected peer lead to each other only.                 *)
LEMMA LateStays ==
    ASSUME TypeInv, LateOK, connected,
           PeerStep \/ DesktopResize \/ ClientStepAny \/ ClientInput \/ ClientShutdown \/ Resizer
    PROVE  sstate' \in Activation \cup {"DEMAND_ACTIVE"}
<1>1. sstate \in Activation \cup {"DEMAND_ACTIVE"}
  BY DEF LateOK
<1>2. CASE ClientStepAny \/ ClientInput \/ ClientShutdown
  <2>1. sstate' = sstate
    BY <1>2 DEF ClientStepAny, ClientNego, ClientConnectResponse, ClientAttachConfirm, ClientJoinConfirm,
           ClientTryAgain, ClientLicense, ClientDemandActive, ClientConfirmActive, ClientFinalize,
           ClientMonitorLayout, ClientReceive, ClientTransportFails, ClientInput, ClientShutdown, ClientStep,
           serverVars
  <2> QED BY <1>1, <2>1
<1>3. CASE Resizer
  BY <1>1, <1>3 DEF Resizer, ResizerDeactivates, ResizerSendsDeactivateAll, ResizerSetsFlag,
         ResizerTransition, ResizerSendsDemandActive, ResizerAwaitsLayout, TransitionTo, Activation
<1>4. CASE PeerBegin \/ PeerTransportFails \/ PeerActivate
  BY <1>1, <1>4 DEF PeerBegin, PeerTransportFails, PeerActivate
<1>5. CASE PeerPassOn \/ PeerWaits \/ PeerJoin \/ PeerSecurity \/ PeerClientInfo \/ PeerLicensing
  BY <1>1, <1>5, WaitsIs DEF PeerPassOn, PassOn, PeerWaits, PeerJoin, PeerSecurity, PeerClientInfo,
         PeerLicensing, Running, Activation, FinalizationStates
<1>6. CASE PeerDemandActive \/ PeerMonitorLayout \/ PeerFinalizationNoKeys
  BY <1>6 DEF PeerDemandActive, PeerMonitorLayout, PeerFinalizationNoKeys, TransitionTo, Activation, FinalizationStates
<1>7. CASE PeerActivateResizes \/ PeerPostConnectResizes \/ DesktopResize
  BY <1>7 DEF PeerActivateResizes, PeerPostConnectResizes, DesktopResize, Reactivate, Activation
<1>8. PeerRecvPdu.state \in Activation \cup {"DEMAND_ACTIVE"}
  BY <1>1, RecvPduType DEF Activation, FinalizationStates
<1>9. CASE PeerConfirmActive \/ PeerActive
  BY <1>8, <1>9 DEF PeerConfirmActive, PeerActive
<1>10. CASE PeerFinalizationFontList
  BY <1>8, <1>10 DEF PeerFinalizationFontList, Activation
<1>11. CASE PeerFinalizationSync \/ PeerFinalizationCooperate \/ PeerFinalizationRequestControl \/ PeerFinalizationKeys
  BY <1>8, <1>11 DEF PeerFinalizationSync, PeerFinalizationCooperate, PeerFinalizationRequestControl,
         PeerFinalizationKeys, Finalization, Activation, FinalizationStates
<1> QED BY <1>2, <1>3, <1>4, <1>5, <1>6, <1>7, <1>9, <1>10, <1>11 DEF PeerStep

(* The steps of rdp_server_reactivate on the proxy's client thread keep    *)
(* the types.                                                              *)
LEMMA ResizerTypes ==
    ASSUME TypeInv, Resizer
    PROVE  TypeInv'
<1>1. PICK x \in Messages : x = Msg("DeactivateAll", 0)
  BY MsgType DEF Types
<1>2. demanded \in Nat /\ s2c \in Seq(Messages) /\ activated \in BOOLEAN
      /\ sflags \in SUBSET (CSFlags \cup {Reactivation}) /\ sstate \in States
  BY DEF TypeInv, CountsOK, StreamsOK, ServerOK
<1>3. PICK y \in Messages : y = Msg("DemandActive", demanded + 1)
  BY <1>2, MsgType DEF Types
<1>4. /\ UNCHANGED <<opts, c2s, run, cur, joined, connected, sclosed, clientVars, confirmed, listed, history, shutdowns>>
      /\ resizer' \in {"away", "deactivate", "flag", "transition", "demand", "layout"}
  BY DEF Resizer, ResizerDeactivates, ResizerSendsDeactivateAll, ResizerSetsFlag,
         ResizerTransition, ResizerSendsDemandActive, ResizerAwaitsLayout, ResizerGoes
<1>5. s2c' \in {s2c, Append(s2c, x), Append(s2c, y)} /\ demanded' \in {demanded, demanded + 1}
  BY <1>1, <1>3 DEF Resizer, ResizerDeactivates, ResizerSendsDeactivateAll, ResizerSetsFlag,
         ResizerTransition, ResizerSendsDemandActive, ResizerAwaitsLayout
<1>6. sstate' \in {sstate, "DEMAND_ACTIVE", "MONITOR_LAYOUT"} /\ sflags' \in {sflags, sflags \cup {Reactivation}}
  BY DEF Resizer, ResizerDeactivates, ResizerSendsDeactivateAll, ResizerSetsFlag,
         ResizerTransition, ResizerSendsDemandActive, ResizerAwaitsLayout, TransitionTo
<1>7. activated' \in BOOLEAN
  BY <1>2 DEF Resizer, ResizerDeactivates, ResizerSendsDeactivateAll, ResizerSetsFlag,
         ResizerTransition, ResizerSendsDemandActive, ResizerAwaitsLayout, TransitionTo
<1>8. s2c' \in Seq(Messages)
  BY <1>2, <1>5
<1>9. sstate' \in States
  BY <1>2, <1>6 DEF States
<1>10. StreamsOK' /\ ServerOK'
  BY <1>2, <1>4, <1>6, <1>7, <1>8, <1>9 DEF TypeInv, StreamsOK, ServerOK
<1>11. CurrentOK' /\ ClientOK' /\ CountsOK'
  BY <1>2, <1>4, <1>5 DEF TypeInv, CurrentOK, ClientOK, CountsOK, clientVars, history
<1> QED BY <1>4, <1>10, <1>11 DEF TypeInv

(* The inductive invariant of the connection sequence holds always: for    *)
(* any number of channels, any options of the two sides, any number of     *)
(* resizes and of shutdown requests.  Where the peer's own thread is the   *)
(* only one to touch its state, the two sides are in step; in the proxy,   *)
(* whose client's thread runs rdp_server_reactivate beside the peer's, so  *)
(* they are until the peer is connected, and what is left then is types,   *)
(* the one PostConnect and the states that follow the licence.             *)
THEOREM PeerIndInvariant == PeerSpec => []PeerIndInv
<1>1. PeerInit => PeerIndInv
  BY PeerBegins
<1>2. PeerIndInv /\ [PeerNext]_peerVars => PeerIndInv'
  <2> SUFFICES ASSUME PeerIndInv, [PeerNext]_peerVars PROVE PeerIndInv'
    OBVIOUS
  <2>1. TypeInv /\ PostedOK /\ ResizerOK /\ LateOK /\ (Alone => AloneInv)
    BY DEF PeerIndInv, AloneInv
  <2>2. CASE PeerStep \/ DesktopResize \/ ClientStepAny \/ ClientInput \/ ClientShutdown
    <3>1. UNCHANGED <<opts, resizer>>
      BY <2>2, HostStays
    <3>2. CASE Alone
      <4>1. AloneInv'
        BY <2>1, <2>2, <3>2, PeerConnects, PeerHandles, ClientGoesOn DEF PeerStep
      <4>2. resizer' = "away"
        BY <2>1, <3>1, <3>2 DEF ResizerOK
      <4> QED BY <4>1, <4>2 DEF PeerIndInv, AloneInv, InOrder, ResizerOK, LateOK, ConnectedOK
    <3>3. CASE ~Alone
      <4>1. connected /\ opts.host = "proxy"
        BY <3>3 DEF Alone
      <4>2. connected' /\ PostedOK' /\ joined' = joined
        BY <2>1, <2>2, <4>1, ConnectedStays
      <4>3. TypeInv'
        <5>1. joined' \subseteq 1 .. NChannels
          BY <2>1, <4>2 DEF TypeInv, ServerOK
        <5> QED BY <2>1, <2>2, <5>1, ServerTypes, ClientTypes
      <4>4. LateOK'
        BY <2>1, <2>2, <4>1, LateStays DEF LateOK
      <4>5. ~Alone'
        BY <3>1, <4>1, <4>2 DEF Alone
      <4> QED BY <4>2, <4>3, <4>4, <4>5 DEF PeerIndInv, ResizerOK
    <3> QED BY <3>2, <3>3
  <2>3. CASE Resizer
    <3>1. opts.host = "proxy" /\ opts' = opts
      BY <2>3 DEF Resizer, ResizerDeactivates, ResizerSendsDeactivateAll, ResizerSetsFlag,
             ResizerTransition, ResizerSendsDemandActive, ResizerAwaitsLayout, ResizerGoes
    <3>2. connected
      <4>1. CASE ResizerDeactivates
        BY <4>1 DEF ResizerDeactivates
      <4>2. CASE ~ResizerDeactivates
        <5>1. resizer # "away"
          BY <2>3, <4>2 DEF Resizer, ResizerSendsDeactivateAll, ResizerSetsFlag,
                 ResizerTransition, ResizerSendsDemandActive, ResizerAwaitsLayout, ResizerGoes
        <5> QED BY <2>1, <3>1, <5>1 DEF ResizerOK, Alone
      <4> QED BY <4>1, <4>2
    <3>3. connected' /\ PostedOK'
      BY <2>1, <2>3, <3>2, ConnectedStays
    <3>4. TypeInv' /\ LateOK'
      BY <2>1, <2>3, <3>2, ResizerTypes, LateStays DEF LateOK
    <3>5. ~Alone'
      BY <3>1, <3>3 DEF Alone
    <3> QED BY <3>3, <3>4, <3>5 DEF PeerIndInv, ResizerOK
  <2>4. CASE UNCHANGED peerVars
    <3>1. UNCHANGED <<opts, resizer, connected, sstate, posted>>
      BY <2>4 DEF peerVars, serverVars, history
    <3>2. TypeInv'
      BY <2>1, <2>4 DEF TypeInv, StreamsOK, ServerOK, CurrentOK, ClientOK, CountsOK, peerVars, serverVars,
             clientVars, answers, history, budget
    <3>3. PostedOK' /\ ResizerOK' /\ LateOK' /\ (Alone' => Alone)
      BY <2>1, <3>1 DEF PostedOK, ResizerOK, LateOK, Alone
    <3>4. Alone => InOrder'
      BY <2>1, <2>4, PeerStutters DEF AloneInv
    <3> QED BY <3>2, <3>3, <3>4 DEF PeerIndInv
  <2> QED BY <2>2, <2>3, <2>4 DEF PeerNext
<1> QED BY <1>1, <1>2, PTL DEF PeerSpec

\* What the inductive invariant says of an activated peer.
LEMMA ActivatedHasAnswers ==
    ASSUME PeerIndInv
    PROVE  PeerInv
<1>1. PeerTypeOK
  BY TypeInvGives DEF PeerIndInv
<1>2. PostConnectOnce
  BY DEF PeerIndInv, PostedOK, PostConnectOnce
<1>3. ActivatedIsCurrent
  <2> SUFFICES ASSUME activated, opts.host = "shadow"
               PROVE  sstate = "ACTIVE" /\ confirmed = demanded /\ listed = demanded
    BY DEF ActivatedIsCurrent
  <2>0. InOrder
    BY DEF PeerIndInv, Alone
  <2>1. sstate = "ACTIVE"
    BY <2>0 DEF InOrder, RunOK
  <2>2. PICK a \in Messages, m \in Messages, c \in Messages, b \in Messages, s \in Messages :
          Conversation(a, m, c, b, s)
    BY <2>0 DEF InOrder, InStep
  <2>3. Heard(a)
    BY <2>2 DEF Conversation
  <2> QED BY <2>1, <2>3 DEF Heard
<1> QED BY <1>1, <1>2, <1>3 DEF PeerInv

(* Types hold, also where the proxy's client thread sets the state beside  *)
(* the peer's; a peer of the shadow server is activated only in the state  *)
(* ACTIVE, its latest demand confirmed and its font list read; and         *)
(* rdp_peer_handle_state_active calls PostConnect once at most.            *)
THEOREM PeerInvariant == PeerSpec => []PeerInv
<1>1. PeerIndInv => PeerInv
  BY ActivatedHasAnswers
<1> QED BY <1>1, PeerIndInvariant, PTL

(* peer_recv_callback_internal never ends the connection of a client that  *)
(* keeps the protocol, and that client never gives up, unless it asked for *)
(* the end, in a server that resizes on the peer's own thread.             *)
THEOREM HonestClientIsKept == PeerSpec => []HonestClientKept
<1>1. PeerIndInv => HonestClientKept
  BY DEF PeerIndInv, InOrder, Alone, HonestClientKept
<1> QED BY <1>1, PeerIndInvariant, PTL

(* In a server that resizes on the peer's own thread,                      *)
(* peer_recv_callback_internal never goes back to waiting with a message   *)
(* that no handler has read.                                               *)
THEOREM EveryMessageIsRead == PeerSpec => []EveryMessageRead
<1>1. PeerIndInv => EveryMessageRead
  BY DEF PeerIndInv, InOrder, Alone, EveryMessageRead
<1> QED BY <1>1, PeerIndInvariant, PTL
=============================================================================
