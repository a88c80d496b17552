--------------------------- MODULE ChannelManager ---------------------------
(***************************************************************************)
(* The virtual channel manager of a server (libfreerdp/core/server.c) and  *)
(* its dynamic channels: the threads that serve a channel (the echo        *)
(* channel's thread, channels/echo/server/echo_main.c, is the pattern),    *)
(* threads that write to it, the peer's thread that carries PDUs between   *)
(* the manager and the wire, and the drdynvc client                        *)
(* (channels/drdynvc/client/drdynvc_main.c) at the other end.              *)
(*                                                                         *)
(* A handle h is one rdpPeerChannel, numbered by its opening; its id is    *)
(* what the wire carries.  A message is a sequence of chunks, one chunk a  *)
(* PDU.  A channel is closed only when no thread is writing to it: that is *)
(* the application's duty, as a handle is freed by the closing.            *)
(*                                                                         *)
(* Memory does not run out here: a PDU that cannot be allocated or queued  *)
(* in the middle of a message (server.c:1685-1691, 1722) leaves the client *)
(* a message without its end, and a close response whose quit message      *)
(* cannot be queued (server.c:272, the result is ignored) is not heard.    *)
(***************************************************************************)
EXTENDS Integers, Sequences, SequencesExt

CONSTANTS
    Owners,      \* threads that serve a channel each
    Writers,     \* other threads that write to the channels
    MaxOpen,     \* bound on the channels opened
    MaxLen,      \* bound on the chunks of a message
    MaxMessages, \* bound on the messages both sides write
    CloseOn      \* "PeerThread": a channel is closed by the peer's thread
                 \* (rdpgfx of the shadow server); "OwnThread": by its own

ASSUME ManagerAssumption ==
    /\ MaxOpen \in Nat \ {0} /\ MaxLen \in Nat \ {0} /\ MaxMessages \in Nat
    /\ CloseOn \in {"PeerThread", "OwnThread"}

VARIABLES
    drdynvc,     \* vcm->drdynvc_state
    seq,         \* vcm->dvc_channel_id_seq
    ch,          \* the channels the server opened, by handle
    vq,          \* vcm->queue: PDUs for the client
    owner,       \* owner[o]: where a serving thread is, and its handle
    writer,      \* writer[w]: the rest of the message being written
    peer,        \* the peer's thread: the PDU and the dvc it works on
    up,          \* the connection is kept
    toClient,    \* the wire, one way
    toServer,    \* and the other
    cl,          \* cl[id]: the client's channel (DVCMAN_CHANNEL)
    cw,          \* cw[h]: the rest of the message a client plugin writes
    written,     \* written[h]: messages the server has begun to write
    got,         \* got[h]: messages the client's plugin has received
    sent,        \* sent[h]: messages the client's plugin has begun to write
    read         \* read[h]: messages the serving thread has read

managerState == <<drdynvc, seq, ch, vq, owner, writer, peer, up>>
drdynvcState == <<cl, cw>>
managerVars == <<managerState, drdynvcState, toClient, toServer, written, got, sent, read>>

Handles == 1 .. MaxOpen
Quit == <<>>       \* the message MessageQueue_PostQuit posts has no context
NoPdu == [cmd |-> "none", id |-> 0, gen |-> 0, total |-> 0, chunk |-> <<>>]
Pdu(cmd, id, gen) == [NoPdu EXCEPT !.cmd = cmd, !.id = id, !.gen = gen]

\* The k-th message a side writes to channel h, n chunks long, and its PDUs:
\* a message longer than one PDU starts with a DATA_FIRST that tells the
\* length.
Message(h, k, n) == [i \in 1 .. n |-> <<h, k, i>>]
DataPdusTooLong(id, gen, msg) ==
    [i \in 1 .. Len(msg) |->
        [cmd |-> IF i = 1 /\ Len(msg) > 1 THEN "DATA_FIRST" ELSE "DATA",
         id |-> id, gen |-> gen,
         total |-> IF i = 1 /\ Len(msg) > 1 THEN Len(msg) + 1 ELSE 0,
         chunk |-> msg[i]]]
DataPdus(id, gen, msg) ==
    [i \in 1 .. Len(msg) |->
        [cmd |-> IF i = 1 /\ Len(msg) > 1 THEN "DATA_FIRST" ELSE "DATA",
         id |-> id, gen |-> gen,
         total |-> IF i = 1 /\ Len(msg) > 1 THEN Len(msg) ELSE 0,
         chunk |-> msg[i]]]

NoChannel == [live |-> FALSE, id |-> 0, open |-> "NONE", total |-> 0,
              buf |-> <<>>, q |-> <<>>, lock |-> FALSE, closedIn |-> "NONE"]
NoDvc == [running |-> FALSE, h |-> 0, len |-> 0, data |-> <<>>]
NoWrite == [h |-> 0, left |-> <<>>]
Idle == [pc |-> "loop", pdu |-> NoPdu, dvc |-> 0]

ManagerInit ==
    /\ drdynvc = "NONE" /\ seq = 0 /\ up = TRUE
    /\ ch = [h \in Handles |-> NoChannel]
    /\ owner = [o \in Owners |-> [pc |-> "open", h |-> 0]]
    /\ writer = [w \in Writers |-> NoWrite]
    /\ peer = Idle
    /\ vq = <<>> /\ toClient = <<>> /\ toServer = <<>>
    /\ cl = [id \in Handles |-> NoDvc]
    /\ cw = [h \in Handles |-> <<>>]
    /\ written = [h \in Handles |-> <<>>] /\ got = [h \in Handles |-> <<>>]
    /\ sent = [h \in Handles |-> <<>>] /\ read = [h \in Handles |-> <<>>]

-----------------------------------------------------------------------------
(***************************************************************************)
(* The threads that serve a channel.                                       *)
(***************************************************************************)
At(o, pc) == up /\ owner[o].pc = pc
Go(o, pc) == owner' = [owner EXCEPT ![o].pc = pc]
wire == <<toClient, toServer>>
ghosts == <<written, got, sent, read>>

\* The id a new channel gets: InterlockedIncrement of the sequence.
NextIdReused(s) == CHOOSE id \in Handles :
    /\ \A h \in Handles : ch[h].live => ch[h].id # id
    /\ \A i \in 1 .. id - 1 : \E h \in Handles : ch[h].live /\ ch[h].id = i
NextId(s) == s + 1

\* WTSVirtualChannelOpenEx, once drdynvc is READY: a new id, a channel in
\* the table, then (OpenRequest) the create request in the manager's queue.
OpenEx(o) ==
    /\ At(o, "open") /\ drdynvc = "READY" /\ seq < MaxOpen
    /\ seq' = seq + 1
    /\ ch' = [ch EXCEPT ![seq + 1] =
                 [NoChannel EXCEPT !.live = TRUE, !.id = NextId(seq)]]
    /\ owner' = [owner EXCEPT ![o] = [pc |-> "request", h |-> seq + 1]]
    /\ UNCHANGED <<drdynvc, vq, writer, peer, up, drdynvcState, wire, ghosts>>

OpenRequest(o) ==
    LET h == owner[o].h IN
    /\ At(o, "request") /\ Go(o, "wait")
    /\ vq' = Append(vq, Pdu("CREATE", ch[h].id, h))
    /\ UNCHANGED <<drdynvc, seq, ch, writer, peer, up, drdynvcState, wire, ghosts>>

\* echo_server_open_channel gives up after five seconds of NOT_READY.
OpenGivesUp(o) ==
    /\ At(o, "open") /\ drdynvc # "READY" /\ Go(o, "done")
    /\ UNCHANGED <<drdynvc, seq, ch, vq, writer, peer, up, drdynvcState, wire, ghosts>>

\* The thread polls WTSVirtualChannelReady until the client has answered.
QueryReady(o) ==
    LET open == ch[owner[o].h].open IN
    /\ At(o, "wait") /\ open # "NONE"
    /\ Go(o, IF open = "SUCCEEDED" THEN "read" ELSE "close")
    /\ UNCHANGED <<drdynvc, seq, ch, vq, writer, peer, up, drdynvcState, wire, ghosts>>

\* echo_server_close sets the stop event, at any time.
Stop(o) ==
    /\ (At(o, "wait") \/ At(o, "read")) /\ Go(o, "close")
    /\ UNCHANGED <<drdynvc, seq, ch, vq, writer, peer, up, drdynvcState, wire, ghosts>>

\* WTSVirtualChannelRead: the oldest message; on the quit message it fails,
\* and the thread leaves its loop.
Read(o) ==
    LET h == owner[o].h IN
    /\ At(o, "read") /\ ch[h].q # <<>>
    /\ IF Head(ch[h].q) = Quit
         THEN Go(o, "close") /\ UNCHANGED <<ch, read>>
         ELSE /\ read' = [read EXCEPT ![h] = Append(@, Head(ch[h].q))]
              /\ ch' = [ch EXCEPT ![h].q = Tail(@)]
              /\ UNCHANGED owner
    /\ UNCHANGED <<drdynvc, seq, vq, writer, peer, up, drdynvcState, wire,
                   written, got, sent>>

\* WTSVirtualChannelClose: the client is told of a channel it has accepted
\* and not closed itself; then the table frees the channel.
CloseSilently(o) ==
    LET h == owner[o].h IN
    /\ At(o, "close") /\ \A w \in Writers : writer[w].h # h
    /\ Go(o, "remove")
    /\ ch' = [ch EXCEPT ![h].closedIn = ch[h].open]
    /\ UNCHANGED <<drdynvc, seq, vq, writer, peer, up, drdynvcState, wire, ghosts>>
CloseRequest(o) ==
    LET h == owner[o].h IN
    /\ At(o, "close") /\ \A w \in Writers : writer[w].h # h
    /\ Go(o, "remove")
    /\ ch' = [ch EXCEPT ![h].closedIn = ch[h].open]
    /\ vq' = IF ch[h].open = "SUCCEEDED"
               THEN Append(vq, Pdu("CLOSE", ch[h].id, h)) ELSE vq
    /\ UNCHANGED <<drdynvc, seq, writer, peer, up, drdynvcState, wire, ghosts>>

\* HashTable_Remove frees the channel.  The table's lock does not cover the
\* pointer wts_read_drdynvc_pdu has taken from the table; where the peer's
\* own thread closes the channel, that function is not under way.
RemoveChannel(o) ==
    /\ At(o, "remove") /\ Go(o, "done")
    /\ CloseOn = "PeerThread" => peer.pc = "loop"
    /\ ch' = [ch EXCEPT ![owner[o].h].live = FALSE]
    /\ UNCHANGED <<drdynvc, seq, vq, writer, peer, up, drdynvcState, wire, ghosts>>

\* The application opens the channel again.
Reopen(o) ==
    /\ At(o, "done") /\ seq < MaxOpen /\ Go(o, "open")
    /\ UNCHANGED <<drdynvc, seq, ch, vq, writer, peer, up, drdynvcState, wire, ghosts>>

-----------------------------------------------------------------------------
(***************************************************************************)
(* WTSVirtualChannelWrite: under the channel's write lock, one PDU after   *)
(* the other into the manager's queue.  An application writes once the     *)
(* serving thread has reported the channel open.                           *)
(***************************************************************************)
Count(f) == FoldLeftDomain(LAMBDA n, h : n + Len(f[h]), 0, f)
MayWrite == Count(written) + Count(sent) < MaxMessages

WriteBegins(w, o, n) ==
    LET h == owner[o].h  msg == Message(h, Len(written[h]) + 1, n) IN
    /\ At(o, "read") /\ writer[w] = NoWrite /\ drdynvc = "READY"
    /\ ~ch[h].lock /\ MayWrite
    /\ ch' = [ch EXCEPT ![h].lock = TRUE]
    /\ written' = [written EXCEPT ![h] = Append(@, msg)]
    /\ writer' = [writer EXCEPT ![w] =
                     [h |-> h, left |-> DataPdus(ch[h].id, h, msg)]]
    /\ UNCHANGED <<drdynvc, seq, vq, owner, peer, up, drdynvcState, wire,
                   got, sent, read>>

WritePdu(w) ==
    LET left == writer[w].left IN
    /\ up /\ left # <<>>
    /\ vq' = Append(vq, Head(left))
    /\ writer' = [writer EXCEPT ![w] =
                     IF Len(left) = 1 THEN NoWrite ELSE [@ EXCEPT !.left = Tail(left)]]
    /\ ch' = [ch EXCEPT ![writer[w].h].lock = (Len(left) > 1)]
    /\ UNCHANGED <<drdynvc, seq, owner, peer, up, drdynvcState, wire, ghosts>>

-----------------------------------------------------------------------------
(***************************************************************************)
(* The peer's thread.                                                      *)
(***************************************************************************)
InLoop == up /\ peer.pc = "loop"

\* WTSVirtualChannelManagerOpen: the capabilities request opens drdynvc.
ManagerOpen ==
    /\ InLoop /\ drdynvc = "NONE"
    /\ drdynvc' = "INITIALIZED"
    /\ vq' = Append(vq, Pdu("CAPS", 0, 0))
    /\ UNCHANGED <<seq, ch, owner, writer, peer, up, drdynvcState, wire, ghosts>>

\* WTSVirtualChannelManagerCheckFileDescriptorEx, one message of its loop.
CheckFileDescriptor ==
    /\ InLoop /\ vq # <<>>
    /\ toClient' = Append(toClient, Head(vq))
    /\ vq' = Tail(vq)
    /\ UNCHANGED <<drdynvc, seq, ch, owner, writer, peer, up, drdynvcState, toServer,
                   ghosts>>

\* wts_read_drdynvc_pdu: the capabilities response makes drdynvc READY; a
\* PDU of an id that is not in the table is dropped; the channel of any
\* other is looked up under the table's lock and used without it.
Named(p) == {h \in Handles : ch[h].live /\ ch[h].id = p.id}
Receive(p) == InLoop /\ toServer # <<>> /\ p = Head(toServer)
              /\ toServer' = Tail(toServer)

CapabilitiesResponse ==
    /\ Receive(Pdu("CAPS", 0, 0))
    /\ drdynvc' = "READY"
    /\ UNCHANGED <<seq, ch, vq, owner, writer, peer, up, drdynvcState, toClient, ghosts>>

UnknownChannel ==
    /\ toServer # <<>> /\ Receive(Head(toServer))
    /\ Head(toServer).cmd # "CAPS"
    /\ drdynvc # "READY" \/ Named(Head(toServer)) = {}
    /\ UNCHANGED <<managerState, drdynvcState, toClient, ghosts>>

LookUp ==
    /\ toServer # <<>> /\ Receive(Head(toServer))
    /\ Head(toServer).cmd # "CAPS" /\ drdynvc = "READY"
    /\ \E h \in Named(Head(toServer)) :
         peer' = [pc |-> "use", pdu |-> Head(toServer), dvc |-> h]
    /\ UNCHANGED <<drdynvc, seq, ch, vq, owner, writer, up, drdynvcState, toClient,
                   ghosts>>

\* The handlers end the read; a FALSE from one ends the connection.
InUse == up /\ peer.pc = "use"
Handle(cmds, rec, keep) ==
    /\ InUse /\ peer.pdu.cmd \in cmds
    /\ peer' = Idle /\ up' = keep
    /\ ch' = [ch EXCEPT ![peer.dvc] = rec]
    /\ UNCHANGED <<drdynvc, seq, vq, owner, writer, drdynvcState, wire, ghosts>>

\* wts_read_drdynvc_create_response.
CreateResponse ==
    Handle({"CREATED", "REFUSED"},
           [ch[peer.dvc] EXCEPT !.open =
               IF peer.pdu.cmd = "CREATED" THEN "SUCCEEDED" ELSE "FAILED"],
           TRUE)

\* A data PDU of a channel that is not open is dropped.
DataIgnored ==
    /\ InUse /\ ch[peer.dvc].open # "SUCCEEDED"
    /\ Handle({"DATA_FIRST", "DATA"}, ch[peer.dvc], TRUE)

\* wts_read_drdynvc_data_first: a new message, its length and first chunk.
DataFirst ==
    /\ InUse /\ ch[peer.dvc].open = "SUCCEEDED"
    /\ Handle({"DATA_FIRST"},
              [ch[peer.dvc] EXCEPT !.total = peer.pdu.total,
                                   !.buf = <<peer.pdu.chunk>>],
              TRUE)

\* wts_read_drdynvc_data: the next chunk of the message, which is queued
\* when it is complete, or a message of one PDU.
Reassembled(c) == IF c.total > 0 THEN Append(c.buf, peer.pdu.chunk)
                                 ELSE <<peer.pdu.chunk>>
Completes(c) == Len(Reassembled(c)) >= c.total
DataKeepsTotal ==
    LET c == ch[peer.dvc] IN
    /\ InUse /\ c.open = "SUCCEEDED"
    /\ IF c.total > 0 /\ Len(Reassembled(c)) > c.total
         THEN Handle({"DATA"}, [c EXCEPT !.total = 0], FALSE)
         ELSE Handle({"DATA"},
                     IF Completes(c)
                       THEN [c EXCEPT !.q = Append(@, Reassembled(c)),
                                      !.buf = Reassembled(c)]
                       ELSE [c EXCEPT !.buf = Reassembled(c)],
                     TRUE)
Data ==
    LET c == ch[peer.dvc] IN
    /\ InUse /\ c.open = "SUCCEEDED"
    /\ IF c.total > 0 /\ Len(Reassembled(c)) > c.total
         THEN Handle({"DATA"}, [c EXCEPT !.total = 0], FALSE)
         ELSE Handle({"DATA"},
                     IF Completes(c)
                       THEN [c EXCEPT !.q = Append(@, Reassembled(c)),
                                      !.total = 0, !.buf = <<>>]
                       ELSE [c EXCEPT !.buf = Reassembled(c)],
                     TRUE)

\* wts_read_drdynvc_close_response: the client has closed the channel; the
\* serving thread finds the quit message.
CloseResponseNoQuit ==
    Handle({"CLOSE"}, [ch[peer.dvc] EXCEPT !.open = "CLOSED"], TRUE)
CloseResponse ==
    Handle({"CLOSE"},
           [ch[peer.dvc] EXCEPT !.open = "CLOSED", !.q = Append(@, Quit)], TRUE)

-----------------------------------------------------------------------------
(***************************************************************************)
(* The client: drdynvc_order_recv on each PDU, and the plugins, which      *)
(* write messages and may close their channel at any time.                 *)
(***************************************************************************)
ClientReceives(cmds) ==
    /\ up /\ toClient # <<>> /\ Head(toClient).cmd \in cmds
    /\ toClient' = Tail(toClient)
    /\ UNCHANGED <<managerState, cw, written, sent, read>>

\* drdynvc_process_capability_request.
ClientCapabilities ==
    /\ ClientReceives({"CAPS"})
    /\ toServer' = Append(toServer, Pdu("CAPS", 0, 0))
    /\ UNCHANGED <<cl, got>>

\* drdynvc_process_create_request: dvcman_create_channel refuses a name no
\* plugin listens to and an id it has already.
ClientCreate(accept) ==
    LET p == Head(toClient)
        ok == accept /\ ~cl[p.id].running IN
    /\ ClientReceives({"CREATE"})
    /\ cl' = IF ok THEN [cl EXCEPT ![p.id] = [NoDvc EXCEPT !.running = TRUE,
                                                          !.h = p.gen]]
                   ELSE cl
    /\ toServer' = Append(toServer,
                          Pdu(IF ok THEN "CREATED" ELSE "REFUSED", p.id, p.gen))
    /\ UNCHANGED got

\* dvcman_channel_close of a running channel: the server is told, and the
\* channel leaves the table.
ClientCloses(id) ==
    /\ cl' = [cl EXCEPT ![id] = NoDvc]
    /\ toServer' = Append(toServer, Pdu("CLOSE", id, cl[id].h))

\* drdynvc_process_data_first and drdynvc_process_data: a complete message
\* goes to the plugin; data beyond the declared length closes the channel.
ClientData ==
    LET p == Head(toClient)
        c == cl[p.id]
        first == p.cmd = "DATA_FIRST"
        len == IF first THEN p.total ELSE c.len
        all == Append(IF first \/ c.len = 0 THEN <<>> ELSE c.data, p.chunk) IN
    /\ ClientReceives({"DATA_FIRST", "DATA"})
    /\ IF ~c.running THEN UNCHANGED <<cl, toServer, got>>
       ELSE IF len > 0 /\ Len(all) > len
         THEN ClientCloses(p.id) /\ UNCHANGED got
       ELSE IF Len(all) >= len
         THEN /\ got' = [got EXCEPT ![c.h] = Append(@, all)]
              /\ cl' = [cl EXCEPT ![p.id].len = 0, ![p.id].data = <<>>]
              /\ UNCHANGED toServer
       ELSE /\ cl' = [cl EXCEPT ![p.id].len = len, ![p.id].data = all]
            /\ UNCHANGED <<toServer, got>>

\* drdynvc_process_close_request.
ClientCloseRequest ==
    /\ ClientReceives({"CLOSE"})
    /\ IF cl[Head(toClient).id].running
         THEN ClientCloses(Head(toClient).id) ELSE UNCHANGED <<cl, toServer>>
    /\ UNCHANGED got

\* dvcman_write_channel of a plugin: under the channel's lock, PDU by PDU.
\* The drdynvc thread does not take that lock to close the channel, so the
\* rest of a message may follow the close.
PluginWrites(id, n) ==
    LET h == cl[id].h  msg == Message(h, Len(sent[h]) + 1, n) IN
    /\ up /\ cl[id].running /\ cw[h] = <<>> /\ MayWrite
    /\ sent' = [sent EXCEPT ![h] = Append(@, msg)]
    /\ cw' = [cw EXCEPT ![h] = DataPdus(id, h, msg)]
    /\ UNCHANGED <<managerState, cl, wire, written, got, read>>

PluginPdu(h) ==
    /\ up /\ cw[h] # <<>>
    /\ toServer' = Append(toServer, Head(cw[h]))
    /\ cw' = [cw EXCEPT ![h] = Tail(@)]
    /\ UNCHANGED <<managerState, cl, toClient, ghosts>>

\* dvcman_close_channel_iface.
PluginCloses(id) ==
    /\ up /\ cl[id].running /\ cw[cl[id].h] = <<>>
    /\ ClientCloses(id)
    /\ UNCHANGED <<managerState, cw, toClient, ghosts>>

-----------------------------------------------------------------------------
OwnerStep(o) ==
    \/ OpenEx(o) \/ OpenRequest(o) \/ OpenGivesUp(o) \/ QueryReady(o)
    \/ Read(o) \/ CloseRequest(o) \/ RemoveChannel(o)
PeerThreadStep ==
    \/ ManagerOpen \/ CheckFileDescriptor
    \/ CapabilitiesResponse \/ UnknownChannel \/ LookUp
    \/ CreateResponse \/ DataIgnored \/ DataFirst \/ Data \/ CloseResponse
DrdynvcStep ==
    \/ ClientCapabilities \/ ClientData \/ ClientCloseRequest
    \/ \E accept \in BOOLEAN : ClientCreate(accept)

\* All is said and done: every serving thread has ended, no more channel
\* can be opened and nothing is under way.
Quiet ==
    /\ \A o \in Owners :
         owner[o].pc = "done" \/ (owner[o].pc = "open" /\ seq = MaxOpen)
    /\ vq \o toClient \o toServer = <<>> /\ peer = Idle
    /\ \A h \in Handles : cw[h] = <<>>
Done == (Quiet \/ ~up) /\ UNCHANGED managerVars

ManagerNext ==
    \/ \E o \in Owners : OwnerStep(o) \/ Stop(o) \/ Reopen(o)
    \/ \E w \in Writers, o \in Owners, n \in 1 .. MaxLen : WriteBegins(w, o, n)
    \/ \E w \in Writers : WritePdu(w)
    \/ PeerThreadStep \/ DrdynvcStep
    \/ \E id \in Handles, n \in 1 .. MaxLen : PluginWrites(id, n)
    \/ \E h \in Handles : PluginPdu(h)
    \/ \E id \in Handles : PluginCloses(id)
    \/ Done

ManagerSpec == ManagerInit /\ [][ManagerNext]_managerVars

(***************************************************************************)
(* Threads that have work get to do it: the peer's loop and the serving    *)
(* threads wake on their events or by timeout, a writer holds a lock only  *)
(* while it posts.  Nobody has to stop, reopen, write or close.            *)
(***************************************************************************)
FairManagerSpec ==
    /\ ManagerSpec
    /\ WF_managerVars(PeerThreadStep) /\ WF_managerVars(DrdynvcStep)
    /\ \A o \in Owners : WF_managerVars(OwnerStep(o))
    /\ WF_managerVars(\E w \in Writers : WritePdu(w))
    /\ WF_managerVars(\E h \in Handles : PluginPdu(h))

-----------------------------------------------------------------------------
(***************************************************************************)
(* Properties.                                                             *)
(***************************************************************************)
OpenStates == {"NONE", "SUCCEEDED", "FAILED", "CLOSED"}
OwnerPcs == {"open", "request", "wait", "read", "close", "remove", "done"}
Cmds == {"none", "CAPS", "CREATE", "CREATED", "REFUSED", "DATA_FIRST", "DATA",
         "CLOSE"}
Chunk(c) == c \in Nat \X Nat \X Nat \/ c = <<>>
PduOK(p) == /\ p.cmd \in Cmds /\ p.id \in 0 .. MaxOpen /\ p.gen \in 0 .. MaxOpen
            /\ p.total \in 0 .. MaxLen /\ Chunk(p.chunk)
MessageOK(m) == Len(m) <= MaxLen /\ \A i \in DOMAIN m : Chunk(m[i])

\* The state of the manager, of its threads, of the client and of the wire.
ManagerTypeOK ==
    /\ drdynvc \in {"NONE", "INITIALIZED", "READY"} /\ seq \in 0 .. MaxOpen
    /\ up \in BOOLEAN
    /\ \A h \in Handles :
         /\ ch[h].live \in BOOLEAN /\ ch[h].lock \in BOOLEAN
         /\ ch[h].id \in 0 .. MaxOpen /\ ch[h].open \in OpenStates
         /\ ch[h].closedIn \in OpenStates /\ ch[h].total \in 0 .. MaxLen
         /\ MessageOK(ch[h].buf) /\ \A i \in DOMAIN ch[h].q : MessageOK(ch[h].q[i])
    /\ \A o \in Owners : owner[o].pc \in OwnerPcs /\ owner[o].h \in 0 .. MaxOpen
    /\ \A w \in Writers : writer[w].h \in 0 .. MaxOpen
    /\ peer.pc \in {"loop", "use"} /\ PduOK(peer.pdu) /\ peer.dvc \in 0 .. MaxOpen
    /\ \A s \in {vq, toClient, toServer} : \A i \in DOMAIN s : PduOK(s[i])
    /\ \A id \in Handles : cl[id].running \in BOOLEAN /\ MessageOK(cl[id].data)

\* Two threads may write to one channel: the client's plugin still gets the
\* messages whole, one by one, in the order in which the writes took the
\* write lock (WTSVirtualChannelWrite).
ClientGetsWholeWrites ==
    \A h \in Handles : IsPrefix(got[h], written[h])

\* The messages a serving thread reads, or will find in its queue, are the
\* ones the plugin of this very channel wrote, whole and in order: data of
\* a closed channel that arrives late reaches no other channel, and nothing
\* comes behind the quit message.
OwnerReadsItsOwn ==
    \A h \in Handles :
        LET all == read[h] \o ch[h].q IN
        \A i \in DOMAIN all :
            \/ i \in DOMAIN sent[h] /\ all[i] = sent[h][i]
            \/ i = Len(all) /\ all[i] = Quit

\* No PDU of a client that keeps the protocol makes wts_read_drdynvc_data
\* fail, which would end the connection.
HonestClientStays == up

\* A channel is not left open at the client: once nothing about it is under
\* way, a channel the client runs and the server has freed is one that was
\* closed before the client's answer to its create request was read.
NoOrphan ==
    \A id \in Handles :
        LET h == cl[id].h
            underWay == vq \o toClient IN
        (/\ cl[id].running /\ ~ch[h].live
         /\ \A i \in DOMAIN underWay : underWay[i].id # id)
        => ch[h].closedIn = "NONE"

\* wtsvc.h says the functions of the API are thread-safe: the channel that
\* wts_read_drdynvc_pdu works on has not been freed.  It holds where the
\* peer's thread closes the channel; channels that close theirs in a thread
\* of their own (CloseOn = "OwnThread") break it.
ChannelInUseIsLive == peer.pc = "use" => ch[peer.dvc].live

\* When the client has closed a channel, its serving thread finds out and
\* closes its end: it does not wait forever for data.
ClientCloseEndsOwner ==
    \A h \in Handles : (ch[h].live /\ ch[h].open = "CLOSED") ~> ~ch[h].live

\* The plugin catches up with the server's writers: what was written to a
\* channel has reached it, unless a side closes the channel first.
WriteArrives ==
    \A h \in Handles :
        (got[h] # written[h])
        ~> (got[h] = written[h] \/ \A id \in Handles : cl[id].running => cl[id].h # h)

\* Types, and wts_read_drdynvc_data succeeds on whatever an honest client
\* sends.
ManagerInv == ManagerTypeOK /\ HonestClientStays

\* Messages of both directions arrive whole, in order and at the channel
\* they were written to (WTSVirtualChannelWrite, wts_read_drdynvc_data).
MessagesArriveWhole == ClientGetsWholeWrites /\ OwnerReadsItsOwn
=============================================================================
