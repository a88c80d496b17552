--------------------------- MODULE PeerConnection ---------------------------
(***************************************************************************)
(* The connection sequence of a peer and its deactivation-reactivation     *)
(* sequence: the state machine of a server peer (libfreerdp/core/peer.c    *)
(* and the rdp_server_* half of connection.c) and the one of a client      *)
(* (rdp.c and the rdp_client_* half of connection.c), joined by two FIFO   *)
(* byte streams.                                                           *)
(*                                                                         *)
(* A server takes one message and runs peer_recv_callback_internal on it   *)
(* again and again while the result asks for it, so an iteration is an     *)
(* action here: run says whether the peer is between messages ("idle") or  *)
(* whether the message it runs on is still "unread" or "read".             *)
(*                                                                         *)
(* A Demand Active PDU carries the number of demands made so far and the   *)
(* client copies it into its answers.  The numbers are not on the wire:    *)
(* they say which demand an answer belongs to.                             *)
(*                                                                         *)
(* Left out: network auto-detection, multitransport and a licence the      *)
(* server requires (their states are passed through, as they are when the  *)
(* settings are off), failures of the callbacks, and a client that does    *)
(* not keep to the protocol.                                               *)
(***************************************************************************)
EXTENDS Naturals, Sequences, FiniteSets

CONSTANTS
  NChannels,    \* channels a client joins
  MaxResize,    \* bound: desktop resizes
  MaxInput,     \* bound: input PDUs of the client
  MaxShutdown,  \* bound: shutdown requests of the client
  MaxProxied,   \* bound: all three together behind a proxy
  Hosts         \* the servers that the peer may belong to

ASSUME PeerAssumption ==
  /\ NChannels \in Nat \ {0}
  /\ {MaxResize, MaxInput, MaxShutdown, MaxProxied} \subseteq Nat
  /\ Hosts \subseteq {"shadow", "windows", "proxy"}

VARIABLES
  opts,       \* what the two sides negotiated, and the peer's server
  resizer,    \* where the proxy's client thread is in rdp_server_reactivate
  c2s, s2c,   \* the streams, oldest message first
  sstate,     \* rdp->state of the server
  sflags,     \* its finalize_sc_pdus
  run, cur,   \* progress of the peer on its current message
  joined,     \* channels the server has joined
  connected,  \* freerdp_peer.connected
  activated,  \* freerdp_peer.activated
  sclosed,    \* has the server closed the connection?
  cstate,     \* rdp->state of the client
  cflags,     \* its finalize_sc_pdus
  layoutPdu,  \* its monitor_layout_pdu
  cclosed,    \* has the client closed the connection?
  cdemand,    \* the demand the client answers
  demanded,   \* demands the server has made
  confirmed,  \* the demand the last accepted Confirm Active answers
  listed,     \* the demand the last Font List answers
  posted,     \* calls of PostConnect
  unheard,    \* was a message finished with and never read?
  resizes, inputs, shutdowns   \* what the bounds count

serverVars  == <<sstate, sflags, run, cur, joined, connected, activated, sclosed>>
clientVars  == <<cstate, cflags, layoutPdu, cclosed, cdemand>>
answers == <<demanded, confirmed, listed>>
history == <<posted, unheard>>
budget  == <<resizes, inputs, shutdowns>>
peerVars    == <<opts, resizer, c2s, s2c, serverVars, clientVars, answers, history, budget>>

WithinBound == opts.host = "proxy" => resizes + inputs + shutdowns < MaxProxied

Msg(t, n) == [type |-> t, n |-> n]
NoMsg     == Msg("none", 0)

CSFlags == {"CS_SYNC", "CS_COOPERATE", "CS_REQUEST", "CS_KEYS", "CS_FONT_LIST"}
SCFlags == {"SC_SYNC", "SC_COOPERATE", "SC_GRANTED", "SC_FONT_MAP"}
Reactivation == "DEACTIVATE_REACTIVATE"

FinalizationStates ==
  {"FINALIZATION_SYNC", "FINALIZATION_COOPERATE", "FINALIZATION_REQUEST_CONTROL",
   "FINALIZATION_PERSISTENT_KEY_LIST", "FINALIZATION_FONT_LIST"}

ClientFinalizationStates ==
  {"FINALIZATION_CLIENT_SYNC", "FINALIZATION_CLIENT_COOPERATE",
   "FINALIZATION_CLIENT_GRANTED_CONTROL", "FINALIZATION_CLIENT_FONT_MAP"}

States ==
  {"INITIAL", "NEGO", "MCS_CREATE_REQUEST", "MCS_CREATE_RESPONSE", "MCS_ERECT_DOMAIN",
   "MCS_ATTACH_USER", "MCS_ATTACH_USER_CONFIRM", "MCS_CHANNEL_JOIN_REQUEST",
   "MCS_CHANNEL_JOIN_RESPONSE", "RDP_SECURITY_COMMENCEMENT", "SECURE_SETTINGS_EXCHANGE",
   "AUTO_DETECT_REQUEST", "LICENSING", "MULTITRANSPORT_REQUEST", "DEMAND_ACTIVE",
   "MONITOR_LAYOUT", "CONFIRM_ACTIVE", "ACTIVE"}
    \cup FinalizationStates \cup ClientFinalizationStates

\* rdp_is_active_peer_state and rdp_is_active_client_state
IsActivePeerState(st)   == st \in ClientFinalizationStates \cup {"ACTIVE"}
IsActiveClientState(st) == st \in FinalizationStates \cup ClientFinalizationStates \cup {"ACTIVE"}

-----------------------------------------------------------------------------
(* The server peer *)

\* rdp_server_transition_to_state: leaving a state that is not active takes
\* the peer's activation away.
TransitionTo(st) ==
  /\ sstate' = st
  /\ activated' = (activated /\ IsActivePeerState(sstate))

\* What peer_recv_callback makes of the result of one iteration, the message
\* having been read or not: run again, wait for the next message, or close.
Finish(rc, read) ==
  /\ run' = IF rc = "CONTINUE" THEN (IF read THEN "read" ELSE run) ELSE "idle"
  /\ cur' = IF rc = "CONTINUE" THEN cur ELSE NoMsg
  /\ sclosed' = (rc \in {"FAILED", "QUIT_SESSION"})
  /\ unheard' = (unheard \/ (rc = "SUCCESS" /\ run = "unread" /\ ~read))

\* What handling the current message in the current state gives: the result,
\* the state, the flags and activation it leaves, and the answers it sends.
Outcome(rc, st, fl, act, out) ==
  [rc |-> rc, state |-> st, flags |-> fl, activated |-> act, out |-> out]

Kept(rc, fl) == Outcome(rc, sstate, fl, activated, <<>>)

\* rdp_server_accept_client_control_pdu
AcceptClientControl(flag, needed) ==
  IF needed \in sflags THEN Kept("SUCCESS", sflags \cup {flag}) ELSE Kept("FAILED", sflags)

\* Mutant: the flags of the previous activation are not reset.
AcceptConfirmActiveKeepsFlags ==
  IF sstate # "CONFIRM_ACTIVE" THEN Kept("FAILED", sflags)
  ELSE Outcome("SUCCESS", "FINALIZATION_SYNC", sflags, FALSE,
               <<Msg("Sync", 0), Msg("Cooperate", 0)>>)

\* rdp_server_accept_confirm_active and rdp_server_send_sync
AcceptConfirmActive ==
  IF sstate # "CONFIRM_ACTIVE" THEN Kept("FAILED", sflags)
  ELSE Outcome("SUCCESS", "FINALIZATION_SYNC", sflags \cap {Reactivation}, FALSE,
               <<Msg("Sync", 0), Msg("Cooperate", 0)>>)

\* rdp_server_accept_client_font_list_pdu
AcceptFontList ==
  Outcome("CONTINUE", "ACTIVE", sflags \cup {"CS_FONT_LIST"},
          activated /\ IsActivePeerState(sstate), <<Msg("FontMap", 0)>>)

\* peer_recv_pdu, peer_recv_tpkt_pdu and peer_recv_data_pdu; nothing is left
\* to parse of a message that was read before.
PeerRecvPdu ==
  IF run = "read" THEN Kept("FAILED", sflags)
  ELSE CASE cur.type = "Sync"          -> Kept("SUCCESS", sflags \cup {"CS_SYNC"})
         [] cur.type = "Cooperate"     -> AcceptClientControl("CS_COOPERATE", "CS_SYNC")
         [] cur.type = "Request"       -> AcceptClientControl("CS_REQUEST", "CS_COOPERATE")
         [] cur.type = "Keys"          -> Kept("SUCCESS", sflags \cup {"CS_KEYS"})
         [] cur.type = "FontList"      -> AcceptFontList
         [] cur.type = "ConfirmActive" -> AcceptConfirmActive
         [] cur.type = "Input"         -> Kept("SUCCESS", sflags)
         [] cur.type = "Shutdown"      -> [Kept("QUIT_SESSION", sflags) EXCEPT !.out = <<Msg("Ultimatum", 0)>>]
         [] OTHER                      -> Kept("FAILED", sflags)

\* The demands that the message just handled answers.
Recorded(r) ==
  /\ confirmed' = IF cur.type = "ConfirmActive" /\ r.rc = "SUCCESS" THEN cur.n ELSE confirmed
  /\ listed' = IF cur.type = "FontList" THEN cur.n ELSE listed

Running(st) == run # "idle" /\ sstate = st

\* freerdp_peer_check_fds: the transport hands the next message to the peer.
PeerBegin ==
  /\ run = "idle" /\ ~sclosed /\ c2s # <<>>
  /\ run' = "unread" /\ cur' = Head(c2s) /\ c2s' = Tail(c2s)
  /\ UNCHANGED <<opts, resizer, s2c, sstate, sflags, joined, connected, activated, sclosed,
                 clientVars, answers, history, budget>>

\* States that only lead on to the next one, with the settings modelled.
PassOn == [INITIAL                |-> "NEGO",
           AUTO_DETECT_REQUEST    |-> "LICENSING",
           MULTITRANSPORT_REQUEST |-> "DEMAND_ACTIVE"]

PeerPassOn ==
  /\ run # "idle" /\ sstate \in DOMAIN PassOn
  /\ TransitionTo(PassOn[sstate])
  /\ Finish("CONTINUE", FALSE)
  /\ UNCHANGED <<opts, resizer, c2s, s2c, sflags, joined, connected, clientVars, answers,
                 posted, budget>>

\* States that wait for one PDU, answer it and go on.
Wait(pdu, next, out) == [pdu |-> pdu, next |-> next, out |-> out]

Waits ==
  [NEGO               |-> Wait("NegoRequest", "MCS_CREATE_REQUEST", <<Msg("NegoConfirm", 0)>>),
   MCS_CREATE_REQUEST |-> Wait("ConnectInitial", "MCS_ERECT_DOMAIN", <<Msg("ConnectResponse", 0)>>),
   MCS_ERECT_DOMAIN   |-> Wait("ErectDomain", "MCS_ATTACH_USER", <<>>),
   MCS_ATTACH_USER    |-> Wait("AttachUser",
                               IF opts.skipJoin THEN "RDP_SECURITY_COMMENCEMENT"
                               ELSE "MCS_CHANNEL_JOIN_REQUEST", <<Msg("AttachConfirm", 0)>>)]

PeerWaits ==
  /\ run # "idle" /\ sstate \in DOMAIN Waits
  /\ LET w == Waits[sstate] IN
       IF cur.type = w.pdu
       THEN TransitionTo(w.next) /\ s2c' = s2c \o w.out /\ Finish("SUCCESS", TRUE)
       ELSE UNCHANGED <<sstate, activated, s2c>> /\ Finish("FAILED", TRUE)
  /\ UNCHANGED <<opts, resizer, c2s, sflags, joined, connected, clientVars, answers,
                 posted, budget>>

\* rdp_server_accept_mcs_channel_join_request
PeerJoin ==
  /\ Running("MCS_CHANNEL_JOIN_REQUEST")
  /\ joined' = joined \cup {cur.n}
  /\ s2c' = Append(s2c, Msg("JoinConfirm", cur.n))
  /\ TransitionTo(IF joined' = 1 .. NChannels THEN "RDP_SECURITY_COMMENCEMENT"
                  ELSE "MCS_CHANNEL_JOIN_REQUEST")
  /\ Finish(IF cur.type = "JoinRequest" THEN "SUCCESS" ELSE "FAILED", TRUE)
  /\ UNCHANGED <<opts, resizer, c2s, sflags, connected, clientVars, answers, posted, budget>>

\* RDP_SECURITY_COMMENCEMENT: the exchange PDU exists only with RDP security;
\* otherwise the message is the client's info and is kept for the next state.
PeerSecurity ==
  /\ Running("RDP_SECURITY_COMMENCEMENT")
  /\ TransitionTo("SECURE_SETTINGS_EXCHANGE")
  /\ IF opts.rdpSecurity
     THEN Finish(IF cur.type = "SecurityExchange" THEN "SUCCESS" ELSE "FAILED", TRUE)
     ELSE Finish("CONTINUE", FALSE)
  /\ UNCHANGED <<opts, resizer, c2s, s2c, sflags, joined, connected, clientVars, answers,
                 posted, budget>>

\* SECURE_SETTINGS_EXCHANGE: rdp_recv_client_info
PeerClientInfo ==
  /\ Running("SECURE_SETTINGS_EXCHANGE")
  /\ IF cur.type = "ClientInfo" THEN TransitionTo("AUTO_DETECT_REQUEST")
     ELSE UNCHANGED <<sstate, activated>>
  /\ Finish(IF cur.type = "ClientInfo" THEN "CONTINUE" ELSE "FAILED", TRUE)
  /\ UNCHANGED <<opts, resizer, c2s, s2c, sflags, joined, connected, clientVars, answers,
                 posted, budget>>

\* LICENSING with no licence required: the valid-client packet.
PeerLicensing ==
  /\ Running("LICENSING")
  /\ s2c' = Append(s2c, Msg("License", 0))
  /\ TransitionTo("MULTITRANSPORT_REQUEST")
  /\ Finish("CONTINUE", FALSE)
  /\ UNCHANGED <<opts, resizer, c2s, sflags, joined, connected, clientVars, answers,
                 posted, budget>>

\* rdp_peer_handle_state_demand_active
PeerDemandActive ==
  /\ Running("DEMAND_ACTIVE")
  /\ demanded' = demanded + 1
  /\ s2c' = Append(s2c, Msg("DemandActive", demanded'))
  /\ TransitionTo("MONITOR_LAYOUT")
  /\ Finish("CONTINUE", FALSE)
  /\ UNCHANGED <<opts, resizer, c2s, sflags, joined, connected, clientVars, confirmed, listed,
                 posted, budget>>

\* Mutant: the message that woke the peer is dropped in MONITOR_LAYOUT.
MonitorLayoutResultDropped == "SUCCESS"

\* MONITOR_LAYOUT: a message that is still unread goes to the next state.
MonitorLayoutResult == IF run = "unread" THEN "CONTINUE" ELSE "SUCCESS"

PeerMonitorLayout ==
  /\ Running("MONITOR_LAYOUT")
  /\ s2c' = IF opts.layout THEN Append(s2c, Msg("MonitorLayout", 0)) ELSE s2c
  /\ TransitionTo("CONFIRM_ACTIVE")
  /\ Finish(MonitorLayoutResult, FALSE)
  /\ UNCHANGED <<opts, resizer, c2s, sflags, joined, connected, clientVars, answers,
                 posted, budget>>

PeerConfirmActive ==
  /\ Running("CONFIRM_ACTIVE")
  /\ LET r == PeerRecvPdu IN
       /\ sstate' = r.state /\ sflags' = r.flags /\ activated' = r.activated
       /\ s2c' = s2c \o r.out
       /\ Finish(r.rc, TRUE)
       /\ Recorded(r)
  /\ UNCHANGED <<opts, resizer, c2s, joined, connected, clientVars, demanded, posted, budget>>

\* A finalization state: whatever the message was, the state is left once its
\* flag is there, and without the flag the message's own result is replaced
\* by success (peer_unexpected_client_message).
Finalization(st, flag, next, out) ==
  /\ Running(st)
  /\ LET r == PeerRecvPdu
         met == flag \in r.flags IN
       /\ sstate' = IF met THEN next ELSE r.state
       /\ activated' = (r.activated /\ (met => IsActivePeerState(r.state)))
       /\ sflags' = r.flags
       /\ s2c' = s2c \o r.out \o (IF met THEN out ELSE <<>>)
       /\ Finish(IF met THEN r.rc ELSE "SUCCESS", TRUE)
       /\ Recorded(r)
  /\ UNCHANGED <<opts, resizer, c2s, joined, connected, clientVars, demanded, posted, budget>>

PeerFinalizationSync ==
  Finalization("FINALIZATION_SYNC", "CS_SYNC", "FINALIZATION_COOPERATE", <<>>)

PeerFinalizationCooperate ==
  Finalization("FINALIZATION_COOPERATE", "CS_COOPERATE", "FINALIZATION_REQUEST_CONTROL", <<>>)

PeerFinalizationRequestControl ==
  Finalization("FINALIZATION_REQUEST_CONTROL", "CS_REQUEST",
               "FINALIZATION_PERSISTENT_KEY_LIST", <<Msg("Granted", 0)>>)

\* Mutant: a reactivation waits for the keys again.
KeysExpectedAgain == opts.keys

\* Does the server wait for the persistent keys?
KeysExpected == opts.keys /\ Reactivation \notin sflags

PeerFinalizationKeys ==
  /\ KeysExpected
  /\ Finalization("FINALIZATION_PERSISTENT_KEY_LIST", "CS_KEYS", "FINALIZATION_FONT_LIST", <<>>)

PeerFinalizationNoKeys ==
  /\ ~KeysExpected /\ Running("FINALIZATION_PERSISTENT_KEY_LIST")
  /\ TransitionTo("FINALIZATION_FONT_LIST")
  /\ Finish("CONTINUE", FALSE)
  /\ UNCHANGED <<opts, resizer, c2s, s2c, sflags, joined, connected, clientVars, answers,
                 posted, budget>>

\* FONT_LIST keeps a failure of the message, and runs again once active.
PeerFinalizationFontList ==
  /\ Running("FINALIZATION_FONT_LIST")
  /\ LET r == PeerRecvPdu
         good == r.rc \in {"SUCCESS", "CONTINUE"}
         met == good /\ "CS_FONT_LIST" \in r.flags IN
       /\ sstate' = IF met THEN "ACTIVE" ELSE r.state
       /\ activated' = (r.activated /\ (met => IsActivePeerState(r.state)))
       /\ sflags' = r.flags
       /\ s2c' = s2c \o r.out
       /\ Finish(IF met THEN "CONTINUE" ELSE IF good THEN "SUCCESS" ELSE r.rc, TRUE)
       /\ Recorded(r)
  /\ UNCHANGED <<opts, resizer, c2s, joined, connected, clientVars, demanded, posted, budget>>

\* rdp_server_reactivate, up to the activation it takes away: the client is
\* told to deactivate and a new demand follows.
Reactivate ==
  /\ resizes < MaxResize /\ resizes' = resizes + 1
  /\ demanded' = demanded + 1
  /\ s2c' = s2c \o <<Msg("DeactivateAll", 0), Msg("DemandActive", demanded')>>
  /\ sflags' = sflags \cup {Reactivation}
  /\ sstate' = "MONITOR_LAYOUT"

\* ACTIVE before the peer is activated (rdp_peer_handle_state_active):
\* PostConnect once, then Activate; the message itself is not read.
PeerActivates ==
  /\ Running("ACTIVE") /\ ~activated
  /\ connected' = TRUE
  /\ posted' = posted + (IF connected THEN 0 ELSE 1)
  /\ Finish("SUCCESS", FALSE)
  /\ UNCHANGED <<opts, resizer, c2s, joined, clientVars, confirmed, listed, inputs, shutdowns>>

\* Where the desktop is resized: the shadow server does it in Activate and,
\* when "Idle", between messages of an active client; the Windows and Mac
\* servers in PostConnect.  The proxy does it on another thread.
ResizeIn ==
  CASE opts.host = "shadow"  -> {"Activate", "Idle"}
    [] opts.host = "windows" -> {"PostConnect"}
    [] opts.host = "proxy"   -> {}

\* Neither callback resizes the desktop.
PeerActivate ==
  /\ PeerActivates
  /\ activated' = TRUE
  /\ UNCHANGED <<s2c, sstate, sflags, demanded, resizes>>

\* Activate resizes (shadow_client_activate) after activated was set.
PeerActivateResizes ==
  /\ "Activate" \in ResizeIn
  /\ PeerActivates
  /\ Reactivate /\ activated' = FALSE

\* PostConnect resizes, and activated is set after it returns.
PeerPostConnectResizes ==
  /\ "PostConnect" \in ResizeIn /\ ~connected
  /\ PeerActivates
  /\ Reactivate /\ activated' = TRUE

\* ACTIVE afterwards: the message is handled.
PeerActive ==
  /\ Running("ACTIVE") /\ activated
  /\ LET r == PeerRecvPdu IN
       /\ sstate' = r.state /\ sflags' = r.flags /\ activated' = r.activated
       /\ s2c' = s2c \o r.out
       /\ Finish(r.rc, TRUE)
       /\ Recorded(r)
  /\ UNCHANGED <<opts, resizer, c2s, joined, connected, clientVars, demanded, posted, budget>>

\* Mutant: the server resizes while a reactivation is under way.
MayResizeAlways == opts.host = "shadow" /\ connected /\ run = "idle"

\* When DesktopResize is called: by the shadow server's client thread, which
\* is the peer's own, while the client is active.
MayResize == "Idle" \in ResizeIn /\ run = "idle" /\ activated

\* update_send_desktop_resize
DesktopResize ==
  /\ ~sclosed /\ MayResize
  /\ Reactivate /\ activated' = FALSE
  /\ UNCHANGED <<opts, resizer, c2s, run, cur, joined, connected, sclosed, clientVars,
                 confirmed, listed, history, inputs, shutdowns>>

\* In the proxy it is the client's thread that calls rdp_server_reactivate,
\* at any time once the peer is connected (pf_client_post_connect,
\* pf_client_desktop_resize), and no lock keeps the peer's thread away from
\* activated, the flags and the state: each of its steps may find that the
\* peer's has gone on, and the peer's may run in the states it sets.
ResizerGoes(from, to) ==
  /\ opts.host = "proxy" /\ ~sclosed
  /\ resizer = from /\ resizer' = to
  /\ UNCHANGED <<opts, c2s, run, cur, joined, connected, sclosed, clientVars,
                 confirmed, listed, history, inputs, shutdowns>>

ResizerDeactivates ==
  /\ connected /\ resizes < MaxResize /\ WithinBound /\ resizes' = resizes + 1
  /\ ResizerGoes("away", "deactivate") /\ activated' = FALSE
  /\ UNCHANGED <<s2c, sstate, sflags, demanded>>

ResizerSendsDeactivateAll ==
  /\ ResizerGoes("deactivate", "flag")
  /\ s2c' = Append(s2c, Msg("DeactivateAll", 0))
  /\ UNCHANGED <<sstate, sflags, activated, demanded, resizes>>

ResizerSetsFlag ==
  /\ ResizerGoes("flag", "transition") /\ sflags' = sflags \cup {Reactivation}
  /\ UNCHANGED <<s2c, sstate, activated, demanded, resizes>>

ResizerTransition ==
  /\ ResizerGoes("transition", "demand") /\ TransitionTo("DEMAND_ACTIVE")
  /\ UNCHANGED <<s2c, sflags, demanded, resizes>>

ResizerSendsDemandActive ==
  /\ ResizerGoes("demand", "layout") /\ demanded' = demanded + 1
  /\ s2c' = Append(s2c, Msg("DemandActive", demanded'))
  /\ UNCHANGED <<sstate, sflags, activated, resizes>>

ResizerAwaitsLayout ==
  /\ ResizerGoes("layout", "away") /\ TransitionTo("MONITOR_LAYOUT")
  /\ UNCHANGED <<s2c, sflags, demanded, resizes>>

Resizer ==
  \/ ResizerDeactivates \/ ResizerSendsDeactivateAll \/ ResizerSetsFlag
  \/ ResizerTransition \/ ResizerSendsDemandActive \/ ResizerAwaitsLayout

\* The transport of a connection the client closed fails.
PeerTransportFails ==
  /\ cclosed /\ c2s = <<>> /\ run = "idle" /\ ~sclosed
  /\ sclosed' = TRUE
  /\ UNCHANGED <<opts, resizer, c2s, s2c, sstate, sflags, run, cur, joined, connected, activated,
                 clientVars, answers, history, budget>>

-----------------------------------------------------------------------------
(* The client *)

\* A step of the client on the stream from the server: what it leaves of it
\* and what it sends.
ClientStep(rest, out) ==
  /\ ~cclosed
  /\ s2c' = rest /\ c2s' = c2s \o out
  /\ UNCHANGED <<opts, resizer, serverVars, answers, history, budget>>

\* The next message, where the client waits for one of this type.
Got(st, type) == cstate = st /\ s2c # <<>> /\ Head(s2c).type = type

\* rdp_client_send_client_info_and_change_state, and the keys before it
ClientInfo ==
  (IF opts.rdpSecurity THEN <<Msg("SecurityExchange", 0)>> ELSE <<>>) \o <<Msg("ClientInfo", 0)>>

\* nego_connect has its answer: mcs_client_begin
ClientNego ==
  /\ Got("NEGO", "NegoConfirm")
  /\ ClientStep(Tail(s2c), <<Msg("ConnectInitial", 0)>>)
  /\ cstate' = "MCS_CREATE_RESPONSE"
  /\ UNCHANGED <<cflags, layoutPdu, cclosed, cdemand>>

ClientConnectResponse ==
  /\ Got("MCS_CREATE_RESPONSE", "ConnectResponse")
  /\ ClientStep(Tail(s2c), <<Msg("ErectDomain", 0), Msg("AttachUser", 0)>>)
  /\ cstate' = "MCS_ATTACH_USER_CONFIRM"
  /\ UNCHANGED <<cflags, layoutPdu, cclosed, cdemand>>

ClientAttachConfirm ==
  /\ Got("MCS_ATTACH_USER_CONFIRM", "AttachConfirm")
  /\ ClientStep(Tail(s2c), IF opts.skipJoin THEN ClientInfo ELSE <<Msg("JoinRequest", 1)>>)
  /\ cstate' = IF opts.skipJoin THEN "AUTO_DETECT_REQUEST" ELSE "MCS_CHANNEL_JOIN_RESPONSE"
  /\ UNCHANGED <<cflags, layoutPdu, cclosed, cdemand>>

\* rdp_client_connect_mcs_channel_join_confirm: one channel after the other
ClientJoinConfirm ==
  /\ Got("MCS_CHANNEL_JOIN_RESPONSE", "JoinConfirm")
  /\ LET n == Head(s2c).n IN
       /\ ClientStep(Tail(s2c), IF n < NChannels THEN <<Msg("JoinRequest", n + 1)>> ELSE ClientInfo)
       /\ cstate' = IF n < NChannels THEN cstate ELSE "AUTO_DETECT_REQUEST"
  /\ UNCHANGED <<cflags, layoutPdu, cclosed, cdemand>>

\* Not a message of the message channel: try it again in the next state.
ClientTryAgain ==
  /\ cstate \in {"AUTO_DETECT_REQUEST", "MULTITRANSPORT_REQUEST"} /\ s2c # <<>>
  /\ ClientStep(s2c, <<>>)
  /\ cstate' = IF cstate = "AUTO_DETECT_REQUEST" THEN "LICENSING" ELSE "DEMAND_ACTIVE"
  /\ UNCHANGED <<cflags, layoutPdu, cclosed, cdemand>>

\* rdp_client_connect_license
ClientLicense ==
  /\ Got("LICENSING", "License")
  /\ ClientStep(Tail(s2c), <<>>)
  /\ cstate' = IF opts.multitransport THEN "MULTITRANSPORT_REQUEST" ELSE "DEMAND_ACTIVE"
  /\ UNCHANGED <<cflags, layoutPdu, cclosed, cdemand>>

\* rdp_recv_pdu: the state and the flags a message of the server leaves.  A
\* demand outside its state is only logged.
FlagOf == [Sync |-> "SC_SYNC", Cooperate |-> "SC_COOPERATE", Granted |-> "SC_GRANTED",
           FontMap |-> "SC_FONT_MAP"]

ClientRecvPdu(m) ==
  [state |-> IF m.type = "DeactivateAll" THEN "DEMAND_ACTIVE" ELSE cstate,
   flags |-> cflags \cup (IF m.type \in DOMAIN FlagOf THEN {FlagOf[m.type]} ELSE {})
                    \cup (IF m.type = "DeactivateAll" /\ cstate = "ACTIVE"
                          THEN {Reactivation} ELSE {}),
   layout |-> layoutPdu \/ m.type = "MonitorLayout",
   ok |-> ~(m.type = "MonitorLayout" /\ layoutPdu) /\ m.type # "Ultimatum"]

\* rdp_client_connect_demand_active: the demand, or a data PDU out of sequence;
\* a second Deactivate All fails here.
ClientDemandActive ==
  /\ cstate = "DEMAND_ACTIVE" /\ s2c # <<>>
  /\ ClientStep(Tail(s2c), <<>>)
  /\ LET m == Head(s2c)
         r == ClientRecvPdu(m) IN
       /\ cstate' = IF m.type = "DemandActive" THEN "CONFIRM_ACTIVE" ELSE cstate
       /\ cdemand' = IF m.type = "DemandActive" THEN m.n ELSE cdemand
       /\ cclosed' = (~r.ok \/ m.type = "DeactivateAll")
       /\ cflags' = r.flags /\ layoutPdu' = r.layout

\* rdp_client_connect_confirm_active: answer, then finalize at once or wait
\* for the monitor layout.
ClientConfirmActive ==
  /\ cstate = "CONFIRM_ACTIVE"
  /\ ClientStep(s2c, <<Msg("ConfirmActive", cdemand)>>)
  /\ cstate' = IF opts.layout THEN "MONITOR_LAYOUT" ELSE "FINALIZATION_SYNC"
  /\ cflags' = cflags \cap {Reactivation} /\ layoutPdu' = FALSE
  /\ UNCHANGED <<cclosed, cdemand>>

\* rdp_client_connect_finalize sends its batch one PDU after the other, and
\* input of another thread may come between two of them.
Batch(pdu, next) == [pdu |-> pdu, next |-> next]

ClientBatch ==
  [FINALIZATION_SYNC                |-> Batch("Sync", "FINALIZATION_COOPERATE"),
   FINALIZATION_COOPERATE           |-> Batch("Cooperate", "FINALIZATION_REQUEST_CONTROL"),
   FINALIZATION_REQUEST_CONTROL     |->
     Batch("Request", IF opts.keys /\ Reactivation \notin cflags
                      THEN "FINALIZATION_PERSISTENT_KEY_LIST" ELSE "FINALIZATION_FONT_LIST"),
   FINALIZATION_PERSISTENT_KEY_LIST |-> Batch("Keys", "FINALIZATION_FONT_LIST"),
   FINALIZATION_FONT_LIST           |-> Batch("FontList", "FINALIZATION_CLIENT_SYNC")]

ClientFinalize ==
  /\ cstate \in FinalizationStates
  /\ ClientStep(s2c, <<Msg(ClientBatch[cstate].pdu, cdemand)>>)
  /\ cstate' = ClientBatch[cstate].next
  /\ UNCHANGED <<cflags, layoutPdu, cclosed, cdemand>>

\* rdp_client_exchange_monitor_layout: a layout, or the finalization PDU that
\* shows there is none (which is then read again), starts the batch.
ClientMonitorLayout ==
  /\ cstate = "MONITOR_LAYOUT" /\ s2c # <<>>
  /\ LET r == ClientRecvPdu(Head(s2c))
         changed == r.flags # cflags \/ r.layout
         failed == ~r.ok \/ (changed /\ ~r.layout /\ "SC_SYNC" \notin r.flags) IN
       /\ cflags' = r.flags /\ layoutPdu' = r.layout /\ cclosed' = failed
       /\ cstate' = IF changed /\ ~failed THEN "FINALIZATION_SYNC" ELSE r.state
       /\ ClientStep(IF changed /\ ~r.layout THEN s2c ELSE Tail(s2c), <<>>)
  /\ UNCHANGED cdemand

\* rdp_handle_sc_flags in the client's finalization states, rdp_recv_pdu in ACTIVE
Awaited == [FINALIZATION_CLIENT_SYNC            |-> "SC_SYNC",
            FINALIZATION_CLIENT_COOPERATE       |-> "SC_COOPERATE",
            FINALIZATION_CLIENT_GRANTED_CONTROL |-> "SC_GRANTED",
            FINALIZATION_CLIENT_FONT_MAP        |-> "SC_FONT_MAP"]

Following == [FINALIZATION_CLIENT_SYNC            |-> "FINALIZATION_CLIENT_COOPERATE",
              FINALIZATION_CLIENT_COOPERATE       |-> "FINALIZATION_CLIENT_GRANTED_CONTROL",
              FINALIZATION_CLIENT_GRANTED_CONTROL |-> "FINALIZATION_CLIENT_FONT_MAP",
              FINALIZATION_CLIENT_FONT_MAP        |-> "ACTIVE"]

ClientReceive ==
  /\ IsActiveClientState(cstate) /\ cstate \notin FinalizationStates /\ s2c # <<>>
  /\ ClientStep(Tail(s2c), <<>>)
  /\ LET r == ClientRecvPdu(Head(s2c)) IN
       /\ cflags' = r.flags /\ layoutPdu' = r.layout /\ cclosed' = ~r.ok
       /\ cstate' = IF r.ok /\ cstate \in DOMAIN Awaited /\ Awaited[cstate] \in r.flags
                    THEN Following[cstate] ELSE r.state
  /\ UNCHANGED cdemand

\* fastpath_send_multiple_input_pdu: input goes out in the active states.
ClientInput ==
  /\ ~cclosed /\ IsActiveClientState(cstate) /\ inputs < MaxInput /\ WithinBound
  /\ inputs' = inputs + 1
  /\ c2s' = Append(c2s, Msg("Input", 0))
  /\ UNCHANGED <<opts, resizer, s2c, serverVars, clientVars, answers, history, resizes, shutdowns>>

\* A client that is asked to close sends a shutdown request and goes on until
\* the server answers it.
ClientShutdown ==
  /\ ~cclosed /\ IsActiveClientState(cstate) /\ shutdowns < MaxShutdown /\ WithinBound
  /\ shutdowns' = shutdowns + 1
  /\ c2s' = Append(c2s, Msg("Shutdown", 0))
  /\ UNCHANGED <<opts, resizer, s2c, serverVars, clientVars, answers, history, resizes, inputs>>

\* The transport of a connection the server closed fails.
ClientTransportFails ==
  /\ sclosed /\ s2c = <<>> /\ ~cclosed
  /\ cclosed' = TRUE
  /\ UNCHANGED <<opts, resizer, c2s, s2c, serverVars, cstate, cflags, layoutPdu, cdemand,
                 answers, history, budget>>

-----------------------------------------------------------------------------
\* The settings.  skipJoin and multitransport are looked at once each, in
\* states that have nothing to do with each other: they are on or off together.
Options ==
  {o \in [layout : BOOLEAN, keys : BOOLEAN, skipJoin : BOOLEAN, rdpSecurity : BOOLEAN,
           multitransport : BOOLEAN, host : Hosts] : o.skipJoin = o.multitransport}

PeerInit ==
  /\ opts \in Options /\ resizer = "away"
  /\ c2s = <<Msg("NegoRequest", 0)>> /\ s2c = <<>>
  /\ sstate = "INITIAL" /\ sflags = {} /\ run = "idle" /\ cur = NoMsg
  /\ joined = {} /\ connected = FALSE /\ activated = FALSE /\ sclosed = FALSE
  /\ cstate = "NEGO" /\ cflags = {} /\ layoutPdu = FALSE /\ cclosed = FALSE /\ cdemand = 0
  /\ demanded = 0 /\ confirmed = 0 /\ listed = 0
  /\ posted = 0 /\ unheard = FALSE
  /\ resizes = 0 /\ inputs = 0 /\ shutdowns = 0

PeerStep ==
  \/ PeerBegin \/ PeerPassOn \/ PeerWaits \/ PeerJoin \/ PeerSecurity \/ PeerClientInfo
  \/ PeerLicensing \/ PeerDemandActive \/ PeerMonitorLayout \/ PeerConfirmActive
  \/ PeerFinalizationSync \/ PeerFinalizationCooperate \/ PeerFinalizationRequestControl
  \/ PeerFinalizationKeys \/ PeerFinalizationNoKeys \/ PeerFinalizationFontList
  \/ PeerActivate \/ PeerActivateResizes \/ PeerPostConnectResizes \/ PeerActive
  \/ PeerTransportFails

ClientStepAny ==
  \/ ClientNego \/ ClientConnectResponse \/ ClientAttachConfirm \/ ClientJoinConfirm
  \/ ClientTryAgain \/ ClientLicense \/ ClientDemandActive \/ ClientConfirmActive
  \/ ClientFinalize \/ ClientMonitorLayout \/ ClientReceive \/ ClientTransportFails

PeerNext ==
  PeerStep \/ ClientStepAny \/ DesktopResize \/ Resizer \/ ClientInput \/ ClientShutdown

PeerSpec == PeerInit /\ [][PeerNext]_peerVars

\* Each side's thread goes on while it has a message to handle.
FairPeerSpec == PeerSpec /\ WF_peerVars(PeerStep) /\ WF_peerVars(ClientStepAny)

-----------------------------------------------------------------------------
(* Properties *)

Types == {"none", "NegoRequest", "NegoConfirm", "ConnectInitial", "ConnectResponse",
          "ErectDomain", "AttachUser", "AttachConfirm", "JoinRequest", "JoinConfirm",
          "SecurityExchange", "ClientInfo", "License", "DemandActive", "DeactivateAll",
          "MonitorLayout", "ConfirmActive", "Sync", "Cooperate", "Request", "Granted",
          "Keys", "FontList", "FontMap", "Input", "Shutdown", "Ultimatum"}

\* Types of the state of the two state machines and of their streams.
PeerTypeOK ==
  /\ opts \in Options
  /\ resizer \in {"away", "deactivate", "flag", "transition", "demand", "layout"}
  /\ \A q \in {c2s, s2c} : \A i \in DOMAIN q : q[i].type \in Types /\ q[i].n \in Nat
  /\ {sstate, cstate} \subseteq States
  /\ sflags \subseteq CSFlags \cup {Reactivation}
  /\ cflags \subseteq SCFlags \cup {Reactivation}
  /\ run \in {"idle", "unread", "read"} /\ cur.type \in Types
  /\ run = "idle" => cur = NoMsg
  /\ joined \subseteq 1 .. NChannels
  /\ {connected, activated, sclosed, layoutPdu, cclosed, unheard} \subseteq BOOLEAN
  /\ {cdemand, demanded, confirmed, listed, posted} \subseteq Nat

\* A peer is activated only in the active state, and only when the client has
\* confirmed the latest Demand Active and sent its Font List for it: that is
\* when "the server can start sending graphics output to the client"
\* (connection.c, rdp_is_active_peer_state).  Resizes where the shadow server
\* has them keep to this; a resize in PostConnect does not, as activated is
\* set after it, nor one that a second thread makes.
ActivatedIsCurrent ==
  activated /\ opts.host = "shadow" =>
      sstate = "ACTIVE" /\ confirmed = demanded /\ listed = demanded

\* A client that keeps to the protocol, input between any two of its PDUs
\* included, is never thrown out and never gives up, however often the server
\* reactivates it: only a shutdown request ends the connection.  This and the
\* two below are about servers that resize on the peer's own thread: in the
\* proxy a resize may come before the one before is answered, and the state
\* that it sets and the state that the peer's thread sets overwrite each
\* other, so that the client is thrown out, its messages are dropped unread,
\* or both sides wait.
HonestClientKept == shutdowns = 0 /\ opts.host # "proxy" => ~sclosed /\ ~cclosed

\* No message is finished with before it was read: what a client sends before
\* it learns of a deactivation is processed as usual (peer.c, CONFIRM_ACTIVE).
EveryMessageRead == opts.host # "proxy" => ~unheard

\* PostConnect is called once in the life of a peer and not again after a
\* reactivation (peer.c, rdp_peer_handle_state_active).
PostConnectOnce == posted <= 1

\* Both sides are active and agree on the demand.
BothActive ==
  /\ activated /\ sstate = "ACTIVE" /\ cstate = "ACTIVE" /\ cdemand = demanded
  /\ c2s = <<>> /\ s2c = <<>> /\ run = "idle"

\* The connection sequence and every reactivation come to an end: neither side
\* is left waiting for the other; both are active for the same demand in the end,
\* or both have closed, because the client asked for it.
Settles ==
  opts.host # "proxy" => <>[](BothActive \/ (sclosed /\ cclosed /\ shutdowns > 0))

\* Types, and what an activated peer has behind it: one PostConnect and the
\* answers to the latest Demand Active (rdp_peer_handle_state_active).
PeerInv == PeerTypeOK /\ ActivatedIsCurrent /\ PostConnectOnce
=============================================================================
