---------------------------- MODULE ProxySession ----------------------------
(***************************************************************************)
(* One session of the proxy server (server/proxy): the thread of the peer  *)
(* (pf_server_handle_peer) at the front, the thread of the proxy's own     *)
(* client (pf_client_start) at the back, and the proxyData they share.     *)
(* Each may end the session, at any moment: through the abort event of     *)
(* the proxyData, which both loops watch, and through the abort event of   *)
(* the library, which a connecting client watches and which the library    *)
(* itself resets.  Channel data of the peer waits in a queue until the     *)
(* client is connected to the target.                                      *)
(***************************************************************************)
EXTENDS Naturals, Sequences

CONSTANTS
    MaxData,       \* bound on the channel messages of the peer
    MaxReconnects  \* bound on the redirections and reconnects of the client

\* What is assumed of the constants.
SessionAssumption == MaxData \in Nat /\ MaxReconnects \in Nat

VARIABLES
    front,      \* where the peer's thread is
    round,      \* the client is aborted twice: the first or the second time
    thread,     \* pdata->client_thread has been created
    freed,      \* proxyData and the client's context are freed
    back,       \* where the client's thread is
    phase,      \* it is in pf_client_connect or in its loop
    abortEvent, \* pdata->abort_event
    libAbort,   \* rdp->abortEvent of the client's context
    lastError,  \* its LastError: "none", "cancelled" or "other"
    mcs,        \* its rdp->mcs is not NULL
    fallback,   \* the configuration allows a retry without NLA
    allowFail,  \* pc->allow_next_conn_failure
    connected,  \* pc->connected
    reconnects, \* redirections and reconnects so far
    queue,      \* pc->cached_server_channel_data
    qEvent,     \* its event
    received,   \* messages taken from the peer
    unmapped,   \* those of channels that the target does not have
    forwarded,  \* messages sent to the target
    lost        \* messages whose SendChannelPacket failed

peer == <<front, round, thread, freed>>
library == <<libAbort, lastError, mcs>>
state == <<fallback, allowFail, connected, reconnects>>
data == <<queue, qEvent, received, unmapped, forwarded, lost>>
vars == <<peer, back, phase, abortEvent, library, state, data>>

Init ==
    /\ front = "connect" /\ round = 1 /\ thread = FALSE /\ freed = FALSE
    /\ back = "none" /\ phase = "connect" /\ abortEvent = FALSE
    /\ libAbort = FALSE /\ lastError = "none" /\ mcs = TRUE
    /\ fallback \in BOOLEAN /\ allowFail = FALSE /\ connected = FALSE
    /\ reconnects = 0
    /\ queue = <<>> /\ qEvent = FALSE
    /\ received = <<>> /\ unmapped = {} /\ forwarded = <<>> /\ lost = {}

\* freerdp_set_last_error_if_not.
ErrorIfNot(e) == IF lastError = "none" THEN e ELSE lastError

-----------------------------------------------------------------------------
(***************************************************************************)
(* The peer's thread.                                                      *)
(***************************************************************************)
FrontGoes(from, to) == front = from /\ front' = to
FrontOnly == UNCHANGED <<round, thread, freed, back, phase, state, data>>

\* pf_server_post_connect: the client's context and its thread.
PostConnect ==
    /\ FrontGoes("connect", "loop") /\ thread' = TRUE /\ back' = "start"
    /\ UNCHANGED <<round, freed, phase, abortEvent, library, state, data>>

\* The peer is not set up, or its session ends before it is connected.
InitializeFails ==
    /\ FrontGoes("connect", "join") /\ FrontOnly /\ UNCHANGED <<abortEvent, library>>
PostConnectFails ==
    /\ FrontGoes("connect", "abort") /\ FrontOnly /\ UNCHANGED <<abortEvent, library>>

\* Where the client's thread is in sendQueuedChannelData and holds the lock
\* of the queue: called by pf_client_post_connect, or by its loop.
Sending == {"flush", "send"}

\* pf_server_receive_channel_data_hook: a copy into the client's queue,
\* whose event is set when it was empty.  Of some channels the target will
\* turn out to know nothing.
ReceiveUnsignalled ==
    LET n == Len(received) + 1 IN
    /\ front = "loop" /\ n <= MaxData /\ back \notin Sending
    /\ received' = Append(received, n)
    /\ unmapped' \in {unmapped, unmapped \cup {n}}
    /\ queue' = Append(queue, n)
    /\ qEvent' = (qEvent \/ (queue = <<>> /\ ~connected))
    /\ UNCHANGED <<peer, back, phase, abortEvent, library, state, forwarded, lost>>
ReceiveChannelData ==
    LET n == Len(received) + 1 IN
    /\ front = "loop" /\ n <= MaxData /\ back \notin Sending
    /\ received' = Append(received, n)
    /\ unmapped' \in {unmapped, unmapped \cup {n}}
    /\ queue' = Append(queue, n)
    /\ qEvent' = (qEvent \/ queue = <<>>)
    /\ UNCHANGED <<peer, back, phase, abortEvent, library, state, forwarded, lost>>

\* The loop ends when the peer is gone or the server stops, or when the
\* abort event is found set.
PeerLeaves ==
    /\ FrontGoes("loop", "abort") /\ FrontOnly /\ UNCHANGED <<abortEvent, library>>
SeesAbort ==
    /\ abortEvent
    /\ FrontGoes("loop", "abort") /\ FrontOnly /\ UNCHANGED <<abortEvent, library>>

\* proxy_data_abort_connect, step by step: its own event; the error, and a
\* look whether there is a connection to take leave of; the disconnect PDU
\* on rdp->mcs, read again; the library's event.
AbortSession ==
    /\ FrontGoes("abort", "error") /\ abortEvent' = TRUE
    /\ FrontOnly /\ UNCHANGED library
AbortError ==
    /\ FrontGoes("error", IF mcs THEN "ultimatum" ELSE "signal")
    /\ lastError' = ErrorIfNot("cancelled")
    /\ FrontOnly /\ UNCHANGED <<abortEvent, libAbort, mcs>>
SendUltimatum ==
    /\ FrontGoes("ultimatum", "signal")
    /\ FrontOnly /\ UNCHANGED <<abortEvent, library>>

\* The client is aborted once more, when there is one, before it is joined.
AbortLibrary ==
    /\ FrontGoes("signal", IF thread /\ round = 1 THEN "abort" ELSE "join")
    /\ libAbort' = TRUE /\ round' = 2
    /\ UNCHANGED <<thread, freed, back, phase, abortEvent, lastError, mcs, state,
                   data>>

\* The thread waits for the client's, then frees what they shared.
JoinNot ==
    /\ FrontGoes("join", "free") /\ FrontOnly /\ UNCHANGED <<abortEvent, library>>
Join ==
    /\ thread => back = "done"
    /\ FrontGoes("join", "free") /\ FrontOnly /\ UNCHANGED <<abortEvent, library>>
Free ==
    /\ FrontGoes("free", "done") /\ freed' = TRUE
    /\ UNCHANGED <<round, thread, back, phase, abortEvent, library, state, data>>

-----------------------------------------------------------------------------
(***************************************************************************)
(* The client's thread.                                                    *)
(***************************************************************************)
BackGoes(from, to) == back = from /\ back' = to

\* proxy_data_abort_connect in the client's own thread.
AbortOwn ==
    /\ abortEvent' = TRUE /\ libAbort' = TRUE
    /\ lastError' = ErrorIfNot("cancelled") /\ UNCHANGED mcs

\* freerdp_connect_begin forgets the last error and resets the library's
\* abort event.
ConnectAnew == libAbort' = FALSE /\ lastError' = "none" /\ UNCHANGED mcs

\* pf_client_thread_proc: the init hook, then the first connect.
InitHookFails ==
    /\ BackGoes("start", "stop") /\ AbortOwn
    /\ UNCHANGED <<peer, phase, state, data>>
ConnectBegins ==
    /\ BackGoes("start", "connecting") /\ ConnectAnew
    /\ allowFail' = fallback
    /\ UNCHANGED <<peer, phase, abortEvent, fallback, connected, reconnects, data>>

\* The target is reached: pf_client_post_connect, which first sends what
\* waits in the queue.
PostConnectSends ==
    /\ back \in {"connecting", "reconnecting"} /\ back' = "flush"
    /\ connected' = TRUE
    /\ UNCHANGED <<peer, phase, abortEvent, library, fallback, allowFail, reconnects, data>>

\* sendQueuedChannelData, of a connected client: the messages one by one
\* until the queue is empty, or until one could not be sent: that one is
\* gone, the others stay.  "Ignore unmappable channels": a message of such a
\* channel is gone, too, and the next one's turn comes.
Sent == IF back = "flush" THEN "greet" ELSE "loop"
SendRequeued ==
    LET m == Head(queue) IN
    /\ back \in Sending /\ queue # <<>>
    /\ \/ /\ m \in unmapped /\ queue' = Tail(queue)
          /\ UNCHANGED <<back, forwarded, lost>>
       \/ /\ m \notin unmapped /\ queue' = Tail(queue)
          /\ forwarded' = Append(forwarded, m)
          /\ UNCHANGED <<back, lost>>
       \/ /\ m \notin unmapped /\ queue' = Append(Tail(queue), m) /\ back' = Sent
          /\ UNCHANGED <<forwarded, lost>>
    /\ qEvent' = (qEvent /\ queue' # <<>>)
    /\ UNCHANGED <<peer, phase, abortEvent, library, state, received, unmapped>>
SendQueued ==
    LET m == Head(queue) IN
    /\ back \in Sending /\ queue # <<>>
    /\ queue' = Tail(queue) /\ qEvent' = (qEvent /\ queue' # <<>>)
    /\ \/ m \in unmapped /\ UNCHANGED <<back, forwarded, lost>>
       \/ /\ m \notin unmapped /\ forwarded' = Append(forwarded, m)
          /\ UNCHANGED <<back, lost>>
       \/ /\ m \notin unmapped /\ lost' = lost \cup {m} /\ back' = Sent
          /\ UNCHANGED forwarded
    /\ UNCHANGED <<peer, phase, abortEvent, library, state, received, unmapped>>
QueueSent ==
    /\ back \in Sending /\ queue = <<>> /\ back' = Sent
    /\ UNCHANGED <<peer, phase, abortEvent, library, state, data>>

\* Then pf_client_post_connect reactivates the peer; when it fails the
\* connection is given up.
Connects ==
    /\ phase = "connect" /\ BackGoes("greet", "loop") /\ phase' = "loop"
    /\ allowFail' = FALSE
    /\ UNCHANGED <<peer, abortEvent, library, fallback, connected, reconnects, data>>
Redirected ==
    /\ phase = "loop" /\ BackGoes("greet", "loop")
    /\ UNCHANGED <<peer, phase, abortEvent, library, state, data>>
ReactivateFails ==
    /\ BackGoes("greet", "disconnect")
    /\ lastError' = ErrorIfNot("other")
    /\ UNCHANGED <<peer, phase, abortEvent, libAbort, mcs, state, data>>

\* The target is not reached: on its account, by the timeout, or because
\* the library was aborted.
ConnectFails ==
    /\ back \in {"connecting", "reconnecting"} /\ back' = "disconnect"
    /\ lastError' = ErrorIfNot("other")
    /\ UNCHANGED <<peer, phase, abortEvent, libAbort, mcs, state, data>>

\* freerdp_connect reconnects once when the transport failed;
\* rdp_check_fds, in the loop, follows a redirection of the target.  Both
\* take the connection down (rdp_client_disconnect_and_clear).
Reconnect ==
    /\ BackGoes("connecting", "reset") /\ reconnects < MaxReconnects
    /\ lastError # "cancelled"
    /\ lastError' = "other" /\ libAbort' = FALSE /\ mcs' = FALSE
    /\ reconnects' = reconnects + 1
    /\ UNCHANGED <<peer, phase, abortEvent, fallback, allowFail, connected, data>>
Redirect ==
    /\ BackGoes("loop", "reset") /\ reconnects < MaxReconnects
    /\ mcs' = FALSE /\ reconnects' = reconnects + 1
    /\ UNCHANGED <<peer, phase, abortEvent, libAbort, lastError, fallback,
                   allowFail, connected, data>>
ResetDone ==
    /\ BackGoes("reset", IF lastError = "cancelled" THEN "disconnect" ELSE "clear")
    /\ mcs' = TRUE
    /\ UNCHANGED <<peer, phase, abortEvent, libAbort, lastError, state, data>>
Clear ==
    /\ BackGoes("clear", "reconnecting") /\ ConnectAnew
    /\ UNCHANGED <<peer, phase, abortEvent, state, data>>

\* freerdp_disconnect: the library's event, the connection, and then
\* pf_client_post_disconnect, which ends the session unless a failed
\* connect may be retried.
Disconnect ==
    /\ BackGoes("disconnect", "post") /\ libAbort' = TRUE /\ mcs' = FALSE
    /\ UNCHANGED <<peer, phase, abortEvent, lastError, state, data>>
PostDisconnectAborts ==
    /\ back = "post" /\ mcs' = TRUE /\ connected' = FALSE /\ abortEvent' = TRUE
    /\ back' = IF phase = "loop" THEN "stop"
               ELSE IF allowFail THEN "failed" ELSE "giveUp"
    /\ lastError' = ErrorIfNot("cancelled")
    /\ UNCHANGED <<peer, phase, libAbort, fallback, allowFail, reconnects, data>>
PostDisconnect ==
    /\ back = "post" /\ mcs' = TRUE /\ connected' = FALSE
    /\ back' = IF phase = "loop" THEN "stop"
               ELSE IF allowFail THEN "failed" ELSE "giveUp"
    /\ IF allowFail THEN UNCHANGED <<abortEvent, lastError>>
       ELSE abortEvent' = TRUE /\ lastError' = ErrorIfNot("cancelled")
    /\ UNCHANGED <<peer, phase, libAbort, fallback, allowFail, reconnects, data>>

\* pf_client_connect: the hook may refuse the retry; otherwise a second
\* connect, without NLA, whose failure counts.
LoginFailureHookRefuses ==
    /\ BackGoes("failed", "giveUp") /\ allowFail' = FALSE
    /\ UNCHANGED <<peer, phase, abortEvent, library, fallback, connected,
                   reconnects, data>>
ConnectWithoutNla ==
    /\ BackGoes("failed", "connecting") /\ ConnectAnew /\ allowFail' = FALSE
    /\ UNCHANGED <<peer, phase, abortEvent, fallback, connected, reconnects, data>>
GiveUp ==
    /\ BackGoes("giveUp", "stop") /\ AbortOwn
    /\ UNCHANGED <<peer, phase, state, data>>

\* The loop of pf_client_thread_proc: the queue's event wakes it; either
\* abort event or a lost target ends it.
LoopOnQueue ==
    /\ BackGoes("loop", "send") /\ ~abortEvent /\ ~libAbort /\ qEvent
    /\ UNCHANGED <<peer, phase, abortEvent, library, state, data>>
LoopEndsOnLibrary ==
    /\ libAbort /\ BackGoes("loop", "disconnect")
    /\ UNCHANGED <<peer, phase, abortEvent, library, state, data>>
LoopEnds ==
    /\ abortEvent \/ libAbort
    /\ BackGoes("loop", "disconnect")
    /\ UNCHANGED <<peer, phase, abortEvent, library, state, data>>
TargetLost ==
    /\ BackGoes("loop", "disconnect")
    /\ UNCHANGED <<peer, phase, abortEvent, library, state, data>>

\* pf_client_client_stop, then the thread ends.
ClientStop ==
    /\ BackGoes("stop", "done") /\ AbortOwn
    /\ UNCHANGED <<peer, phase, state, data>>

-----------------------------------------------------------------------------
FrontStep ==
    \/ PostConnect \/ InitializeFails \/ PostConnectFails \/ SeesAbort
    \/ AbortSession \/ AbortError \/ SendUltimatum \/ AbortLibrary
    \/ Join \/ Free
BackStep ==
    \/ InitHookFails \/ ConnectBegins
    \/ PostConnectSends \/ SendQueued \/ QueueSent
    \/ Connects \/ Redirected \/ ReactivateFails \/ ConnectFails
    \/ Reconnect \/ ResetDone \/ Clear
    \/ Disconnect \/ PostDisconnect
    \/ LoginFailureHookRefuses \/ ConnectWithoutNla \/ GiveUp
    \/ LoopOnQueue \/ LoopEnds \/ ClientStop
Done == front = "done" /\ UNCHANGED vars

Next ==
    \/ FrontStep \/ BackStep \/ Done
    \/ ReceiveChannelData \/ PeerLeaves \/ TargetLost \/ Redirect

Spec == Init /\ [][Next]_vars

\* Both loops poll or are woken, and a connect ends by its timeout.  The
\* peer need not leave, nor the target be lost or redirect.
FairSpec == Spec /\ WF_vars(FrontStep) /\ WF_vars(BackStep)

-----------------------------------------------------------------------------
(***************************************************************************)
(* Properties.                                                             *)
(***************************************************************************)
FrontPcs == {"connect", "loop", "abort", "error", "ultimatum", "signal", "join",
             "free", "done"}
BackPcs == {"none", "start", "connecting", "reset", "clear", "reconnecting",
            "flush", "greet", "disconnect", "post", "failed", "giveUp", "loop", "send",
            "stop", "done"}

PlacesOK ==
    /\ front \in FrontPcs /\ round \in 1 .. 2
    /\ back \in BackPcs /\ phase \in {"connect", "loop"}
    /\ lastError \in {"none", "cancelled", "other"}
    /\ reconnects \in 0 .. MaxReconnects

FlagsOK ==
    /\ thread \in BOOLEAN /\ freed \in BOOLEAN /\ abortEvent \in BOOLEAN
    /\ libAbort \in BOOLEAN /\ mcs \in BOOLEAN /\ fallback \in BOOLEAN
    /\ allowFail \in BOOLEAN /\ connected \in BOOLEAN /\ qEvent \in BOOLEAN

DataOK ==
    /\ received \in Seq(1 .. MaxData) /\ queue \in Seq(1 .. MaxData)
    /\ forwarded \in Seq(1 .. MaxData)
    /\ lost \subseteq 1 .. MaxData /\ unmapped \subseteq 1 .. MaxData

SessionTypeOK == PlacesOK /\ FlagsOK /\ DataOK

\* The client counts as connected to the target (pc->connected) from
\* pf_client_post_connect on and throughout its loop, its redirections
\* included, and neither before it got there nor after it was disconnected.
InLoop == {"loop", "send", "reset", "clear", "reconnecting", "flush", "greet"}
ConnectedOK ==
    /\ back \in {"loop", "send"} => phase = "loop"
    /\ phase = "loop" => back \in InLoop \cup {"disconnect", "post", "stop", "done"}
    /\ (phase = "loop" /\ back \in InLoop) \/ back \in Sending \cup {"greet"} => connected
    /\ connected => back \in InLoop \cup {"disconnect", "post"}

\* The client's thread works on the peer's context and on proxyData: it is
\* created by the peer's, which frees nothing before it has joined it.
JoinedOK ==
    /\ thread <=> back # "none"
    /\ front = "connect" => ~thread
    /\ front = "loop" => thread
    /\ front \in {"free", "done"} => back \in {"none", "done"}
    /\ freed => front = "done"

\* As long as the peer's thread has not ended the session, only the end of
\* the client's sets the abort event.
AbortOK ==
    (abortEvent /\ front \in {"connect", "loop"}) => back \in {"giveUp", "stop", "done"}

SessionInv == SessionTypeOK /\ ConnectedOK /\ JoinedOK /\ AbortOK

\* The messages are numbered in the order they come.  The peer's channel
\* data reaches the target in that order, each message once; of a channel
\* that the target has none is lost but those the library could not send,
\* and of the others none is sent.
ForwardedInOrder ==
    LET kept == forwarded \o queue
        numbers == {kept[i] : i \in DOMAIN kept}
    IN
    /\ \A i, j \in DOMAIN kept : i < j => kept[i] < kept[j]
    /\ numbers \cup lost \cup unmapped = 1 .. Len(received)
    /\ numbers \cap lost = {} /\ unmapped \cap lost = {}
    /\ \A i \in DOMAIN forwarded : forwarded[i] \notin unmapped

\* "Only close the connection if NLA fallback process is done": while the
\* retry is to come or under way, the failure of the first connect has not
\* ended the peer's session.
FallbackKeepsPeer ==
    ( /\ fallback /\ front = "loop" /\ phase = "connect"
      /\ back \in {"connecting", "reset", "clear", "reconnecting", "flush", "greet",
                   "failed"} )
    => ~abortEvent

\* An end at the back reaches the front and an end at the front the back:
\* the session is taken down whole.
SessionEnds == (front = "abort" \/ back \in {"giveUp", "stop"}) ~> (front = "done")

\* Channel data of the peer is forwarded, unless the session ends.
DataIsForwarded == (queue # <<>>) ~> (queue = <<>> \/ abortEvent)
=============================================================================
