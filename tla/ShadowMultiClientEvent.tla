---------------------- MODULE ShadowMultiClientEvent ----------------------
(***************************************************************************)
(* The event by which the subsystem thread of the shadow server hands one  *)
(* frame to all its client threads and waits until they are finished with  *)
(* it: server/shadow/shadow_mcevent.c, used by the loop of                 *)
(* shadow_client_thread and by shadow_subsystem_frame_update.              *)
(*                                                                         *)
(* A round has three parts. The subsystem thread counts the subscribers    *)
(* and sets the kickoff event. Every subscriber consumes its share; all    *)
(* but the last then wait at a barrier, where threads that subscribe       *)
(* during the round wait as well. The last consumer opens the barrier, and *)
(* the last thread to leave the barrier closes it and wakes the server.    *)
(*                                                                         *)
(* Every function runs under event->lock, which it gives up only around    *)
(* its two blocking waits. A locked section is therefore one step, and a   *)
(* wait is three: the section that starts it, the wait's return, which     *)
(* needs no lock, and the section that follows.                            *)
(***************************************************************************)
EXTENDS Integers, FiniteSets

CONSTANT Client \* the client threads the server may run

ASSUME ClientFinite == IsFiniteSet(Client)

VARIABLES
    event,        \* the kickoff event is set
    barrierEvent, \* the barrier is open
    doneEvent,    \* the server may continue
    subscribers,  \* the clients in event->subscribers
    pleaseHandle, \* the flag of each subscriber
    consuming,    \* shares of this round that nobody has consumed yet
    waiting,      \* threads that have not left the barrier yet
    server,       \* where the subsystem thread is
    client        \* where each client thread is

mceVars == <<event, barrierEvent, doneEvent, subscribers, pleaseHandle,
             consuming, waiting, server, client>>

-----------------------------------------------------------------------------

(* shadow_multiclient_new; no client thread runs yet. *)
Init ==
    /\ event = FALSE
    /\ barrierEvent = FALSE
    /\ doneEvent = TRUE
    /\ subscribers = {}
    /\ pleaseHandle = [c \in Client |-> FALSE]
    /\ consuming = 0
    /\ waiting = 0
    /\ server = "idle"
    /\ client = [c \in Client |-> "out"]

-----------------------------------------------------------------------------
(* The subsystem thread.                                                   *)

(* Mutant of Publish: doneEvent is not reset when a round starts. *)
PublishKeepsDone ==
    /\ pleaseHandle' = [c \in Client |-> c \in subscribers \/ pleaseHandle[c]]
    /\ consuming' = consuming + Cardinality(subscribers)
    /\ event' = (event \/ consuming' > 0)
    /\ UNCHANGED doneEvent

(* The publication of a frame: flag and count the subscribers, and if      *)
(* there are any, start a round.                                           *)
Publish ==
    /\ pleaseHandle' = [c \in Client |-> c \in subscribers \/ pleaseHandle[c]]
    /\ consuming' = consuming + Cardinality(subscribers)
    /\ doneEvent' = (doneEvent /\ consuming' = 0)
    /\ event' = (event \/ consuming' > 0)

(* shadow_multiclient_publish_and_wait, up to the wait for doneEvent. With *)
(* no subscriber it returns at once.                                       *)
PublishAndWait ==
    /\ server = "idle"
    /\ Publish
    /\ server' = IF consuming' > 0 THEN "wait" ELSE "idle"
    /\ UNCHANGED <<barrierEvent, subscribers, waiting, client>>

(* WaitForSingleObject(doneEvent) returns. *)
ServerWakes ==
    /\ server = "wait"
    /\ doneEvent
    /\ server' = "awake"
    /\ UNCHANGED <<event, barrierEvent, doneEvent, subscribers, pleaseHandle,
                   consuming, waiting, client>>

(* The rest of WaitForSubscribers: publish_and_wait returns. *)
ServerReturns ==
    /\ server = "awake"
    /\ server' = "idle"
    /\ UNCHANGED <<event, barrierEvent, doneEvent, subscribers, pleaseHandle,
                   consuming, waiting, client>>

-----------------------------------------------------------------------------
(* The client threads.                                                     *)

(* Mutant of Consume: the last consumer wakes the server, not the barrier. *)
ConsumeSkipsBarrier(c, flagged, wait, next) ==
    /\ consuming' = IF event /\ flagged THEN consuming - 1 ELSE consuming
    /\ event' = (event /\ consuming' # 0)
    /\ doneEvent' = (doneEvent \/ consuming' = 0)
    /\ LET held == wait /\ consuming' # 0 IN
       /\ client' = [client EXCEPT ![c] = IF held THEN "barrier" ELSE next]
       /\ waiting' = IF held THEN waiting + 1 ELSE waiting
    /\ UNCHANGED barrierEvent

(* Consume(subscriber, wait), up to its wait for barrierEvent. flagged is  *)
(* the subscriber's pleaseHandle; next is where the thread goes when it    *)
(* does not have to wait.                                                  *)
Consume(c, flagged, wait, next) ==
    /\ consuming' = IF event /\ flagged THEN consuming - 1 ELSE consuming
    /\ IF consuming' = 0
       THEN /\ event' = FALSE
            /\ barrierEvent' = (barrierEvent \/ waiting > 0)
            /\ doneEvent' = (doneEvent \/ waiting = 0)
            /\ client' = [client EXCEPT ![c] = next]
            /\ UNCHANGED waiting
       ELSE /\ client' = [client EXCEPT ![c] = IF wait THEN "barrier" ELSE next]
            /\ waiting' = IF wait THEN waiting + 1 ELSE waiting
            /\ UNCHANGED <<event, barrierEvent, doneEvent>>

(* A new client thread calls shadow_multiclient_get_subscriber. It joins   *)
(* at the barrier when a round is in progress.                             *)
GetSubscriber(c) ==
    /\ client[c] = "out"
    /\ subscribers' = subscribers \cup {c}
    /\ pleaseHandle' = [pleaseHandle EXCEPT ![c] = FALSE]
    /\ Consume(c, FALSE, TRUE, "loop")
    /\ UNCHANGED server

(* The loop of shadow_client_thread finds its UpdateEvent set and starts   *)
(* to work on the frame.                                                   *)
StartFrame(c) ==
    /\ client[c] = "loop"
    /\ event
    /\ client' = [client EXCEPT ![c] = "frame"]
    /\ UNCHANGED <<event, barrierEvent, doneEvent, subscribers, pleaseHandle,
                   consuming, waiting, server>>

(* The frame is sent: shadow_multiclient_consume. *)
ConsumeFrame(c) ==
    /\ client[c] = "frame"
    /\ Consume(c, pleaseHandle[c], TRUE, "loop")
    /\ UNCHANGED <<subscribers, pleaseHandle, server>>

(* WaitForSingleObject(barrierEvent) returns. *)
LeaveBarrier(c) ==
    /\ client[c] = "barrier"
    /\ barrierEvent
    /\ client' = [client EXCEPT ![c] = "awake"]
    /\ UNCHANGED <<event, barrierEvent, doneEvent, subscribers, pleaseHandle,
                   consuming, waiting, server>>

(* Mutant of ResumeConsume: the last thread to leave does not close the    *)
(* barrier.                                                                *)
ResumeKeepsBarrier(c) ==
    /\ client[c] = "awake"
    /\ waiting' = waiting - 1
    /\ doneEvent' = (doneEvent \/ waiting' = 0)
    /\ client' = [client EXCEPT ![c] = "loop"]
    /\ UNCHANGED <<event, barrierEvent, subscribers, pleaseHandle, consuming, server>>

(* The rest of Consume after the barrier. *)
ResumeConsume(c) ==
    /\ client[c] = "awake"
    /\ waiting' = waiting - 1
    /\ barrierEvent' = (barrierEvent /\ waiting' # 0)
    /\ doneEvent' = (doneEvent \/ waiting' = 0)
    /\ client' = [client EXCEPT ![c] = "loop"]
    /\ UNCHANGED <<event, subscribers, pleaseHandle, consuming, server>>

(* Mutant of ReleaseSubscriber: a thread that leaves keeps its share. *)
ReleaseWithoutConsume(c) ==
    /\ client[c] \in {"loop", "frame"}
    /\ client' = [client EXCEPT ![c] = "out"]
    /\ subscribers' = subscribers \ {c}
    /\ UNCHANGED <<event, barrierEvent, doneEvent, pleaseHandle, consuming,
                   waiting, server>>

(* The client thread fails, in its loop or while it sends a frame, or is   *)
(* told to quit: shadow_multiclient_release_subscriber.                    *)
ReleaseSubscriber(c) ==
    /\ client[c] \in {"loop", "frame"}
    /\ Consume(c, pleaseHandle[c], FALSE, "out")
    /\ subscribers' = subscribers \ {c}
    /\ UNCHANGED <<pleaseHandle, server>>

-----------------------------------------------------------------------------

ServerNext == PublishAndWait \/ ServerWakes \/ ServerReturns

ClientNext(c) ==
    \/ GetSubscriber(c)
    \/ StartFrame(c)
    \/ ConsumeFrame(c)
    \/ LeaveBarrier(c)
    \/ ResumeConsume(c)
    \/ ReleaseSubscriber(c)

Next == ServerNext \/ \E c \in Client : ClientNext(c)

Spec == Init /\ [][Next]_mceVars

(* Threads that can run do run, and a client thread that finds the event   *)
(* set ends its work on the frame, by consuming it or by failing. Nothing  *)
(* forces the server to publish or a client to come or to leave.           *)
Fairness ==
    /\ WF_mceVars(ServerWakes) /\ WF_mceVars(ServerReturns)
    /\ \A c \in Client :
        /\ WF_mceVars(StartFrame(c))
        /\ WF_mceVars(ConsumeFrame(c) \/ (client[c] = "frame" /\ ReleaseSubscriber(c)))
        /\ WF_mceVars(LeaveBarrier(c))
        /\ WF_mceVars(ResumeConsume(c))

FairSpec == Spec /\ Fairness

-----------------------------------------------------------------------------
(* Properties.                                                             *)

(* The clients whose share of the round in progress is not consumed yet,   *)
(* and those at the barrier.                                               *)
Owing == {c \in Client : event /\ client[c] \in {"loop", "frame"}}
Held == {c \in Client : client[c] \in {"barrier", "awake"}}

(* Types; the counters of shadow_mcevent.c never go below zero. *)
TypeOK ==
    /\ event \in BOOLEAN /\ barrierEvent \in BOOLEAN /\ doneEvent \in BOOLEAN
    /\ subscribers \in SUBSET Client
    /\ pleaseHandle \in [Client -> BOOLEAN]
    /\ consuming \in Nat /\ waiting \in Nat
    /\ server \in {"idle", "wait", "awake"}
    /\ client \in [Client -> {"out", "loop", "frame", "barrier", "awake"}]

(* The subscriber list is the list of the clients that have a thread in or *)
(* behind get_subscriber, and no client in its loop can find the event set *)
(* and not be meant by it.                                                 *)
SubscribersOK ==
    /\ subscribers = {c \in Client : client[c] # "out"}
    /\ \A c \in Client : client[c] = "frame" => event
    /\ \A c \in Owing : pleaseHandle[c]

(* The two counters count what their names say: one share for every        *)
(* subscriber of the round that has neither consumed nor been released,    *)
(* one waiter for every thread at the barrier.                             *)
CountersOK ==
    /\ consuming = Cardinality(Owing)
    /\ waiting = Cardinality(Held)

(* The three events are functions of the counters: at any time exactly one *)
(* of them is set, so that the round is either running, or draining the    *)
(* barrier, or over. In particular the barrier cannot be open when a round *)
(* starts, and doneEvent is never left over from an earlier round.         *)
EventsOK ==
    /\ event <=> consuming > 0
    /\ barrierEvent <=> consuming = 0 /\ waiting > 0
    /\ doneEvent <=> consuming = 0 /\ waiting = 0

(* A thread behind a wait still finds what it waited for: no event is      *)
(* reset between the wait's return and the lock, and the server is outside *)
(* publish_and_wait only while nobody works on a frame or stands at the    *)
(* barrier.                                                                *)
WaitersOK ==
    /\ server # "wait" => doneEvent
    /\ \A c \in Client : client[c] = "awake" => barrierEvent

(* The inductive invariant of shadow_mcevent.c: what its lock protects.    *)
(* TypeOK, the list, the counters, the events and the waiters above,       *)
(* together.                                                               *)
IndInv == TypeOK /\ SubscribersOK /\ CountersOK /\ EventsOK /\ WaitersOK

(* The three assertions of shadow_mcevent.c: Publish starts with no share  *)
(* left over, the server leaves its wait with the event reset, and no      *)
(* share is consumed twice.                                                *)
AssertionsHold ==
    /\ server = "idle" => consuming = 0
    /\ server = "awake" => ~event
    /\ consuming >= 0

(* The comment in shadow_client_thread: the surface must not change until  *)
(* the event is reset. While any client works on a frame, the subsystem    *)
(* thread is inside its wait and nothing lets it out.                      *)
FrameIsStable ==
    (\E c \in Client : client[c] = "frame") =>
        server = "wait" /\ event /\ ~doneEvent

(* publish_and_wait returns, whatever the clients do: consume, fail, join  *)
(* or leave in any order.                                                  *)
ServerContinues == server = "wait" ~> server = "idle"

(* Every thread at the barrier is let go; with the above, nobody waits on  *)
(* anybody for ever.                                                       *)
BarrierReleases == \A c \in Client : client[c] = "barrier" ~> client[c] = "loop"

(* A round of shadow_mcevent.c ends for everyone: the server gets out of   *)
(* publish_and_wait and the threads at the barrier get out of it.          *)
RoundsEnd == ServerContinues /\ BarrierReleases

(* The promise, FrameRound, seen through the threads' positions. *)
Abstract == INSTANCE FrameRound WITH
    members <- subscribers,
    owing <- Owing,
    held <- Held,
    open <- server # "idle"

(* The multi-client event is a frame round: every locked section and every *)
(* return of a wait in shadow_mcevent.c is a step of FrameRound or changes *)
(* nothing that FrameRound speaks of.                                      *)
IsFrameRound == Abstract!Spec
=============================================================================
