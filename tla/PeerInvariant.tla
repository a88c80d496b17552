--------------------------- MODULE PeerInvariant ----------------------------
(***************************************************************************)
(* The inductive invariant of the connection sequence: the two sides are   *)
(* in step.  What is on the way from a side to the other, read from the    *)
(* first message to the last, carries on the protocol from the place where *)
(* the reader is to the place where the writer is.                         *)
(***************************************************************************)
EXTENDS PeerConnection, Streams

Messages == [type : Types, n : Nat]

\* What the client sends between any two PDUs once it has confirmed a demand,
\* and the PDUs it may come between.
Noise == {"Input", "Shutdown"}
Activating == {"ConfirmActive", "Sync", "Cooperate", "Request", "Keys", "FontList"}

\* The client's first PDU after the channels are joined.
Secures(o, m) == m.type = (IF o.rdpSecurity THEN "SecurityExchange" ELSE "ClientInfo") /\ m.n = 0

\* May m follow p in what a client sends?
UpNext(o, keys, p, m) ==
    \/ p.type = "none" /\ m.type = "NegoRequest"
    \/ p.type = "NegoRequest" /\ m.type = "ConnectInitial"
    \/ p.type = "ConnectInitial" /\ m.type = "ErectDomain"
    \/ p.type = "ErectDomain" /\ m.type = "AttachUser"
    \/ p.type = "AttachUser" /\ ~o.skipJoin /\ m.type = "JoinRequest" /\ m.n = 1
    \/ p.type = "AttachUser" /\ o.skipJoin /\ Secures(o, m)
    \/ p.type = "JoinRequest" /\ p.n < NChannels /\ m.type = "JoinRequest" /\ m.n = p.n + 1
    \/ p.type = "JoinRequest" /\ p.n >= NChannels /\ Secures(o, m)
    \/ p.type = "SecurityExchange" /\ m.type = "ClientInfo" /\ m.n = 0
    \/ p.type \in {"ClientInfo", "FontList"} /\ m.type = "ConfirmActive" /\ p.n < m.n
    \/ p.type = "ConfirmActive" /\ m.type = "Sync" /\ m.n = p.n
    \/ p.type = "Sync" /\ m.type = "Cooperate" /\ m.n = p.n
    \/ p.type = "Cooperate" /\ m.type = "Request" /\ m.n = p.n
    \/ p.type = "Request" /\ m.type = "Keys" /\ m.n = p.n
    \/ p.type = "Request" /\ ~keys /\ m.type = "FontList" /\ m.n = p.n
    \/ p.type = "Keys" /\ m.type = "FontList" /\ m.n = p.n

UpStep(o, keys) ==
    {t \in Messages \X Messages \X Messages :
        IF t[2].type \in Noise THEN t[1].type \in Activating /\ t[3] = t[1]
        ELSE UpNext(o, keys, t[1], t[2]) /\ t[3] = t[2]}

\* What a server sends once it has made its first demand.
Late == {"DemandActive", "MonitorLayout", "Sync", "Cooperate", "Granted", "FontMap",
         "DeactivateAll"}

\* May m follow p in what a server sends?
DownNext(o, p, m) ==
    \/ p.type = "none" /\ m.type = "NegoConfirm"
    \/ p.type = "NegoConfirm" /\ m.type = "ConnectResponse"
    \/ p.type = "ConnectResponse" /\ m.type = "AttachConfirm"
    \/ p.type = "AttachConfirm" /\ ~o.skipJoin /\ m.type = "JoinConfirm" /\ m.n = 1
    \/ p.type = "AttachConfirm" /\ o.skipJoin /\ m.type = "License"
    \/ p.type = "JoinConfirm" /\ p.n < NChannels /\ m.type = "JoinConfirm" /\ m.n = p.n + 1
    \/ p.type = "JoinConfirm" /\ p.n >= NChannels /\ m.type = "License"
    \/ p.type = "License" /\ m.type = "DemandActive"
    \/ p.type = "DemandActive" /\ o.layout /\ m.type = "MonitorLayout"
    \/ p.type = "DemandActive" /\ ~o.layout /\ m.type = "Sync"
    \/ p.type = "MonitorLayout" /\ m.type = "Sync"
    \/ p.type = "Sync" /\ m.type = "Cooperate"
    \/ p.type = "Cooperate" /\ m.type = "Granted"
    \/ p.type = "Granted" /\ m.type = "FontMap"
    \/ p.type = "FontMap" /\ m.type = "DeactivateAll"
    \/ p.type = "DeactivateAll" /\ m.type = "DemandActive"

DownStep(o) ==
    {t \in Messages \X Messages \X Messages :
        IF t[2].type = "Ultimatum" THEN t[3] = t[1]
        ELSE DownNext(o, t[1], t[2]) /\ t[3] = t[2]}

\* The states of the server after its first demand.
Activation == {"MONITOR_LAYOUT", "CONFIRM_ACTIVE", "ACTIVE"} \cup FinalizationStates
Demanding == {"MONITOR_LAYOUT", "CONFIRM_ACTIVE"}

\* a is the last message of the client that the server has dealt with.
Heard(a) ==
    /\ sstate \in {"INITIAL", "NEGO"} => a.type = "none"
    /\ sstate = "MCS_CREATE_REQUEST" => a.type = "NegoRequest"
    /\ sstate = "MCS_ERECT_DOMAIN" => a.type = "ConnectInitial"
    /\ sstate = "MCS_ATTACH_USER" => a.type = "ErectDomain"
    /\ sstate = "MCS_CHANNEL_JOIN_REQUEST" =>
         /\ ~opts.skipJoin
         /\ \/ a.type = "AttachUser" /\ joined = {}
            \/ a.type = "JoinRequest" /\ a.n \in 1 .. NChannels - 1 /\ joined = 1 .. a.n
    /\ sstate = "RDP_SECURITY_COMMENCEMENT" \/ (sstate = "SECURE_SETTINGS_EXCHANGE" /\ ~opts.rdpSecurity) =>
         \/ opts.skipJoin /\ a.type = "AttachUser"
         \/ a.type = "JoinRequest" /\ a.n = NChannels
    /\ sstate = "SECURE_SETTINGS_EXCHANGE" /\ opts.rdpSecurity => a.type = "SecurityExchange"
    /\ sstate \in {"AUTO_DETECT_REQUEST", "LICENSING", "MULTITRANSPORT_REQUEST", "DEMAND_ACTIVE"} =>
         a.type = "ClientInfo" /\ a.n = 0 /\ demanded = 0
    /\ sstate \in Demanding =>
         a.type \in {"ClientInfo", "FontList"} /\ a.n + 1 = demanded
    /\ sstate = "FINALIZATION_SYNC" => a.type = "ConfirmActive"
    /\ sstate = "FINALIZATION_COOPERATE" => a.type = "Sync"
    /\ sstate = "FINALIZATION_REQUEST_CONTROL" => a.type = "Cooperate"
    /\ sstate = "FINALIZATION_PERSISTENT_KEY_LIST" => a.type = "Request"
    /\ sstate = "FINALIZATION_FONT_LIST" => a.type \in {"Request", "Keys"}
    /\ sstate \in FinalizationStates => a.n = demanded /\ confirmed = demanded
    /\ sstate = "ACTIVE" =>
         a.type = "FontList" /\ a.n = demanded /\ confirmed = demanded /\ listed = demanded

\* The current message takes the server from a to m once it has been read.
Taken(a, m) ==
    IF run = "unread" THEN <<a, cur, m>> \in UpStep(opts, KeysExpected) ELSE m = a

\* c is the last message, other than input, that the client has sent.
Sent(c) ==
    /\ cstate = "NEGO" => c.type = "NegoRequest"
    /\ cstate = "MCS_CREATE_RESPONSE" => c.type = "ConnectInitial"
    /\ cstate = "MCS_ATTACH_USER_CONFIRM" => c.type = "AttachUser"
    /\ cstate = "MCS_CHANNEL_JOIN_RESPONSE" => c.type = "JoinRequest" /\ c.n \in 1 .. NChannels
    /\ cstate \in {"AUTO_DETECT_REQUEST", "LICENSING", "MULTITRANSPORT_REQUEST"} =>
         c.type = "ClientInfo" /\ c.n = 0
    /\ cstate \in {"DEMAND_ACTIVE", "CONFIRM_ACTIVE"} =>
         c.type \in {"ClientInfo", "FontList"}
    /\ cstate = "DEMAND_ACTIVE" => c.n <= cdemand
    /\ cstate = "CONFIRM_ACTIVE" => c.n < cdemand
    /\ cstate \in {"MONITOR_LAYOUT", "FINALIZATION_SYNC"} => c.type = "ConfirmActive"
    /\ cstate = "FINALIZATION_COOPERATE" => c.type = "Sync"
    /\ cstate = "FINALIZATION_REQUEST_CONTROL" => c.type = "Cooperate"
    /\ cstate = "FINALIZATION_PERSISTENT_KEY_LIST" => c.type = "Request"
    /\ cstate = "FINALIZATION_FONT_LIST" =>
         c.type = "Keys" \/ (c.type = "Request" /\ (opts.keys => Reactivation \in cflags))
    /\ cstate \in ClientFinalizationStates \cup {"ACTIVE"} => c.type = "FontList"
    /\ cstate \in FinalizationStates \cup ClientFinalizationStates \cup {"MONITOR_LAYOUT", "ACTIVE"} =>
         c.n = cdemand

\* s is the last message, other than an ultimatum, that the server has sent.
SaidJoined(s) ==
    \/ opts.skipJoin /\ s.type = "AttachConfirm"
    \/ s.type = "JoinConfirm" /\ s.n = NChannels

Said(s) ==
    /\ sstate \in {"INITIAL", "NEGO"} => s.type = "none"
    /\ sstate = "MCS_CREATE_REQUEST" => s.type = "NegoConfirm"
    /\ sstate \in {"MCS_ERECT_DOMAIN", "MCS_ATTACH_USER"} => s.type = "ConnectResponse"
    /\ sstate = "MCS_CHANNEL_JOIN_REQUEST" =>
         \/ s.type = "AttachConfirm" /\ joined = {}
         \/ s.type = "JoinConfirm" /\ s.n \in 1 .. NChannels - 1 /\ joined = 1 .. s.n
    /\ sstate \in {"RDP_SECURITY_COMMENCEMENT", "SECURE_SETTINGS_EXCHANGE", "AUTO_DETECT_REQUEST",
                   "LICENSING"} => SaidJoined(s)
    /\ sstate \in {"MULTITRANSPORT_REQUEST", "DEMAND_ACTIVE"} => s.type = "License"
    /\ sstate = "MONITOR_LAYOUT" => s.type = "DemandActive"
    /\ sstate = "CONFIRM_ACTIVE" =>
         s.type = (IF opts.layout THEN "MonitorLayout" ELSE "DemandActive")
    /\ sstate \in {"FINALIZATION_SYNC", "FINALIZATION_COOPERATE", "FINALIZATION_REQUEST_CONTROL"} =>
         s.type = "Cooperate"
    /\ sstate \in {"FINALIZATION_PERSISTENT_KEY_LIST", "FINALIZATION_FONT_LIST"} =>
         s.type = "Granted"
    /\ sstate = "ACTIVE" => s.type = "FontMap"

\* b is the last message, other than an ultimatum, that the client has read.
Seen(b) ==
    /\ cstate = "NEGO" => b.type = "none"
    /\ cstate = "MCS_CREATE_RESPONSE" => b.type = "NegoConfirm"
    /\ cstate = "MCS_ATTACH_USER_CONFIRM" => b.type = "ConnectResponse"
    /\ cstate = "MCS_CHANNEL_JOIN_RESPONSE" => b.type \in {"AttachConfirm", "JoinConfirm"} /\ ~opts.skipJoin
    /\ cstate \in {"AUTO_DETECT_REQUEST", "LICENSING"} => SaidJoined(b)
    /\ cstate = "MULTITRANSPORT_REQUEST" => b.type = "License"
    /\ cstate = "DEMAND_ACTIVE" => b.type \in {"License", "DeactivateAll"}
    /\ IsActiveClientState(cstate) \/ cstate \in {"CONFIRM_ACTIVE", "MONITOR_LAYOUT"} => b.type \in Late
    /\ cstate \in {"CONFIRM_ACTIVE", "MONITOR_LAYOUT"} => b.type = "DemandActive"
    /\ cstate \in FinalizationStates \cup {"FINALIZATION_CLIENT_SYNC"} =>
         b.type = (IF opts.layout THEN "MonitorLayout" ELSE "DemandActive")
    /\ cstate = "FINALIZATION_CLIENT_COOPERATE" => b.type = "Sync"
    /\ cstate = "FINALIZATION_CLIENT_GRANTED_CONTROL" => b.type = "Cooperate"
    /\ cstate = "FINALIZATION_CLIENT_FONT_MAP" => b.type = "Granted"
    /\ cstate = "ACTIVE" => b.type = "FontMap"

\* The channel the client asks to join is the one after the last confirmed.
Joining(b, c) ==
    cstate = "MCS_CHANNEL_JOIN_RESPONSE" => c.n = (IF b.type = "JoinConfirm" THEN b.n + 1 ELSE 1)

Conversation(a, m, c, b, s) ==
    /\ Heard(a) /\ Taken(a, m) /\ Linked(Messages, UpStep(opts, KeysExpected), m, c2s, c) /\ Sent(c)
    /\ Said(s) /\ Linked(Messages, DownStep(opts), b, s2c, s) /\ Seen(b) /\ Joining(b, c)

\* The two streams carry on the protocol from where the one side is to where
\* the other is.
InStep == \E a, m, c, b, s \in Messages : Conversation(a, m, c, b, s)

\* The flags of the activation under way are those of its messages.
FlagsOK ==
    /\ sstate = "FINALIZATION_SYNC" => sflags \subseteq {Reactivation}
    /\ sstate = "FINALIZATION_COOPERATE" => sflags \ {Reactivation} = {"CS_SYNC"}
    /\ sstate = "FINALIZATION_REQUEST_CONTROL" => sflags \ {Reactivation} = {"CS_SYNC", "CS_COOPERATE"}
    /\ sstate = "FINALIZATION_PERSISTENT_KEY_LIST" =>
         sflags \ {Reactivation} = {"CS_SYNC", "CS_COOPERATE", "CS_REQUEST"}
    /\ sstate = "FINALIZATION_FONT_LIST" => "CS_FONT_LIST" \notin sflags

\* When the peer goes on with a message that has been read.
RunOK ==
    /\ run = "read" => sstate \in {"AUTO_DETECT_REQUEST", "LICENSING", "MULTITRANSPORT_REQUEST",
                                   "DEMAND_ACTIVE", "MONITOR_LAYOUT", "ACTIVE"}
    /\ sstate = "ACTIVE" /\ ~activated => run = "read"
    /\ sstate = "ACTIVE" /\ activated => run # "read"
    /\ activated => sstate = "ACTIVE" \/ (opts.host = "windows" /\ sstate = "MONITOR_LAYOUT")
    /\ sclosed => run = "idle"

\* Demands are numbered in their order, and answers answer demands made.
DemandsOK ==
    /\ cdemand <= demanded
    /\ \A i \in DOMAIN s2c : s2c[i].type = "DemandActive" => cdemand < s2c[i].n /\ s2c[i].n <= demanded
    /\ \A i, j \in DOMAIN s2c :
         i < j /\ s2c[i].type = "DemandActive" /\ s2c[j].type = "DemandActive" => s2c[i].n < s2c[j].n
    /\ \A i \in DOMAIN c2s : c2s[i].type = "ConfirmActive" => c2s[i].n <= demanded
    /\ cur.type = "ConfirmActive" => cur.n <= demanded

\* A client that was reactivated has a server that knows.
ReactivationOK ==
    /\ Reactivation \in cflags => Reactivation \in sflags
    /\ \A i \in DOMAIN s2c : s2c[i].type = "DeactivateAll" => Reactivation \in sflags

\* PostConnect has been called when the peer is connected, and only then.
PostedOK == posted = IF connected THEN 1 ELSE 0

\* A peer is connected after its first demand.
ConnectedOK == connected => sstate \in Activation

\* Nobody asks for an end unless the client does.
ShutdownOK ==
    /\ shutdowns = 0 =>
         /\ \A i \in DOMAIN c2s : c2s[i].type # "Shutdown"
         /\ \A i \in DOMAIN s2c : s2c[i].type # "Ultimatum"
         /\ cur.type # "Shutdown"

\* A client that awaits the monitor layout was promised one and has none.
LayoutOK == cstate = "MONITOR_LAYOUT" => opts.layout /\ ~layoutPdu

\* No channel is joined before the user is attached, and nothing is demanded
\* before the licence is there.
EarlyOK ==
    /\ sstate \in {"INITIAL"} \cup DOMAIN Waits => joined = {}
    /\ sstate \notin Activation => demanded = 0

\* Types, part by part.
StreamsOK == c2s \in Seq(Messages) /\ s2c \in Seq(Messages)

ServerOK ==
    /\ sstate \in States /\ sflags \in SUBSET (CSFlags \cup {Reactivation})
    /\ joined \in SUBSET (1 .. NChannels)
    /\ connected \in BOOLEAN /\ activated \in BOOLEAN

CurrentOK ==
    /\ run \in {"idle", "unread", "read"} /\ cur \in Messages
    /\ run = "idle" => cur = NoMsg
    /\ sclosed \in BOOLEAN /\ unheard \in BOOLEAN

ClientOK ==
    /\ cstate \in States /\ cflags \in SUBSET (SCFlags \cup {Reactivation})
    /\ layoutPdu \in BOOLEAN /\ cclosed \in BOOLEAN /\ cdemand \in Nat

CountsOK ==
    /\ demanded \in Nat /\ confirmed \in Nat /\ listed \in Nat /\ posted \in Nat
    /\ shutdowns \in Nat

TypeInv ==
    /\ opts \in Options
    /\ resizer \in {"away", "deactivate", "flag", "transition", "demand", "layout"}
    /\ StreamsOK /\ ServerOK /\ CurrentOK /\ ClientOK /\ CountsOK

\* What holds as long as nobody but the peer's own thread touches its state.
InOrder ==
    /\ InStep /\ FlagsOK /\ RunOK /\ DemandsOK /\ ReactivationOK /\ ShutdownOK
    /\ EarlyOK /\ LayoutOK /\ ConnectedOK
    /\ HonestClientKept /\ EveryMessageRead

\* In the proxy another thread does, once the peer is connected.
Alone == opts.host # "proxy" \/ ~connected

ResizerOK == resizer # "away" => ~Alone

\* Whoever sets the state of a connected peer, it stays one of those that
\* follow the licence.
LateOK == connected => sstate \in Activation \cup {"DEMAND_ACTIVE"}

PeerIndInv ==
    /\ TypeInv /\ PostedOK /\ ResizerOK /\ LateOK
    /\ Alone => InOrder
=============================================================================
