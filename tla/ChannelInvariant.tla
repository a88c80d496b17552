-------------------------- MODULE ChannelInvariant --------------------------
(***************************************************************************)
(* The inductive invariant of the channel manager: what is on the way      *)
(* about a channel, read from the first PDU to the last, leads from the    *)
(* place where its reader is to the place where its writer is.  The PDUs   *)
(* of other channels are noise.                                            *)
(***************************************************************************)
EXTENDS ChannelManager, Streams

DataCmds == {"DATA_FIRST", "DATA"}
Chunks == (Nat \X Nat \X Nat) \cup {<<>>}

\* A PDU names its channel by an id that is the handle, too; only a message of
\* two chunks or more is announced.
PduRecords == [cmd : Cmds, id : 0 .. MaxOpen, gen : 0 .. MaxOpen,
               total : 0 .. MaxLen, chunk : Chunks]
Pdus ==
    {p \in PduRecords :
        /\ p.cmd # "none" /\ p.gen = p.id
        /\ p.cmd # "CAPS" => p.id \in Handles
        /\ p.cmd = "CAPS" => p = Pdu("CAPS", 0, 0)
        /\ p.cmd = "DATA_FIRST" => p.total > 1
        /\ p.cmd # "DATA_FIRST" => p.total = 0}

\* What a side writes: at least one chunk.
Writes == {m \in Seq(Chunks) : Len(m) \in 1 .. MaxLen}

\* A place in what is said about a channel: it is not created yet, it is open
\* and i chunks of the message after the m-th are said, or it is shut.
Places == [ph : {"none", "open", "shut"}, m : Nat, i : Nat]
Place(ph, m, i) == [ph |-> ph, m |-> m, i |-> i]

\* Is x the next PDU of the messages written to h, and where does it lead?
NextChunk(h, msgs, p, x) ==
    /\ p.m < Len(msgs) /\ p.i < Len(msgs[p.m + 1])
    /\ x = DataPdus(h, h, msgs[p.m + 1])[p.i + 1]
AfterChunk(msgs, p) ==
    IF p.i + 1 = Len(msgs[p.m + 1]) THEN Place("open", p.m + 1, 0)
    ELSE Place("open", p.m, p.i + 1)

\* The steps of what is said about h.  Data of a channel that is shut is
\* dropped.
Leads(h, msgs, p, x, r) ==
    \/ x.id # h /\ r = p
    \/ x.id = h /\ x.cmd \in {"CREATE", "CREATED"} /\ p.ph = "none" /\ r = Place("open", 0, 0)
    \/ x.id = h /\ x.cmd = "REFUSED" /\ p.ph = "none" /\ r = Place("shut", 0, 0)
    \/ x.id = h /\ x.cmd = "CLOSE" /\ p.ph = "open" /\ r = Place("shut", 0, 0)
    \/ x.id = h /\ x.cmd \in DataCmds /\ p.ph = "shut" /\ r = p
    \/ /\ x.id = h /\ x.cmd \in DataCmds /\ p.ph = "open"
       /\ NextChunk(h, msgs, p, x) /\ r = AfterChunk(msgs, p)
Carries(h, msgs) == {t \in Places \X Pdus \X Places : Leads(h, msgs, t[1], t[2], t[3])}

\* The writer is at e: left is what it has still to post of its last message.
Rest(h, msgs, left, e) ==
    IF left = <<>> THEN e.m = Len(msgs) /\ e.i = 0
    ELSE /\ e.m + 1 = Len(msgs) /\ Len(left) + e.i = Len(msgs[e.m + 1])
         /\ \A j \in DOMAIN left : left[j] = DataPdus(h, h, msgs[e.m + 1])[e.i + j]

\* The reader is at p: done is what it has, data the start of a message that
\* is len chunks long.
Prefix(done, msgs) ==
    Len(done) <= Len(msgs) /\ \A j \in 1 .. Len(done) : done[j] = msgs[j]
Partial(msgs, len, data, done, p) ==
    /\ p.m = Len(done) /\ Prefix(done, msgs)
    /\ len = 0 => p.i = 0
    /\ len > 0 =>
         /\ p.m < Len(msgs) /\ len = Len(msgs[p.m + 1]) /\ 0 < p.i /\ p.i < len
         /\ p.i = Len(data) /\ \A j \in 1 .. p.i : data[j] = msgs[p.m + 1][j]

-----------------------------------------------------------------------------
\* What is on the way, to the client and to the server.
Down == toClient \o vq
Up == IF peer.pc = "use" THEN <<peer.pdu>> \o toServer ELSE toServer

\* Types, part by part.
Channels == [live : BOOLEAN, id : 0 .. MaxOpen, open : OpenStates, total : 0 .. MaxLen,
             buf : Seq(Chunks), q : Seq(Seq(Chunks)), lock : BOOLEAN, closedIn : OpenStates]
Dvcs == [running : BOOLEAN, h : 0 .. MaxOpen, len : 0 .. MaxLen, data : Seq(Chunks)]
ChannelsOK ==
    /\ ch \in [Handles -> Channels]
    /\ \A h \in Handles :
         /\ Len(ch[h].buf) < ch[h].total \/ ch[h].buf = <<>>
         /\ \A i \in DOMAIN ch[h].q : Len(ch[h].q[i]) <= MaxLen
ThreadsOK ==
    /\ drdynvc \in {"NONE", "INITIALIZED", "READY"} /\ seq \in 0 .. MaxOpen
    /\ owner \in [Owners -> [pc : OwnerPcs, h : 0 .. MaxOpen]]
    /\ writer \in [Writers -> [h : 0 .. MaxOpen, left : Seq(Pdus)]]
    /\ peer = Idle \/ (/\ peer \in [pc : {"use"}, pdu : Pdus, dvc : Handles]
                       /\ peer.pdu.cmd # "CAPS" /\ peer.pdu.id = peer.dvc)
WireOK == vq \in Seq(Pdus) /\ toClient \in Seq(Pdus) /\ toServer \in Seq(Pdus)
PluginsOK ==
    /\ cl \in [Handles -> Dvcs] /\ cw \in [Handles -> Seq(Pdus)]
    /\ \A h \in Handles :
         /\ Len(cl[h].data) < cl[h].len \/ cl[h].data = <<>>
         /\ cl[h].running => cl[h].h = h
         /\ \A j \in DOMAIN cw[h] : cw[h][j].id = h /\ cw[h][j].cmd \in DataCmds
GhostsOK ==
    /\ written \in [Handles -> Seq(Writes)] /\ sent \in [Handles -> Seq(Writes)]
    /\ got \in [Handles -> Seq(Seq(Chunks))] /\ read \in [Handles -> Seq(Seq(Chunks))]
ManagerTypes == ChannelsOK /\ ThreadsOK /\ WireOK /\ PluginsOK /\ GhostsOK /\ up = TRUE

\* Ids are never given twice, and a channel is opened when drdynvc is ready.
IdsOK ==
    \A h \in Handles :
        /\ h <= seq => ch[h].id = h
        /\ h > seq => ch[h] = NoChannel
        /\ ch[h].live => drdynvc = "READY"

\* A thread that serves a channel has it to itself.
Serving == {"request", "wait", "read", "close", "remove"}
OwnersOK ==
    /\ \A o \in Owners : owner[o].pc \in Serving => owner[o].h \in 1 .. seq /\ ch[owner[o].h].live
    /\ \A o, u \in Owners :
         owner[o].pc \in Serving /\ owner[u].pc \in Serving /\ owner[o].h = owner[u].h => o = u

\* And so does a thread that writes: the channel is not closed under it.
WritersOK ==
    /\ \A w \in Writers :
         /\ writer[w].left = <<>> <=> writer[w].h = 0
         /\ writer[w].h # 0 =>
              /\ ch[writer[w].h].lock
              /\ \E o \in Owners : owner[o].pc \in {"read", "close"} /\ owner[o].h = writer[w].h
    /\ \A w, v \in Writers : writer[w].h # 0 /\ writer[w].h = writer[v].h => w = v

-----------------------------------------------------------------------------
\* Where the server is in what it says about h: of a channel it has not asked
\* for nothing is on the way.
Unrequested(h) == h > seq \/ \E o \in Owners : owner[o].pc = "request" /\ owner[o].h = h
Open(h) == \E o \in Owners : owner[o].pc \in {"wait", "read", "close"} /\ owner[o].h = h
ServerAt(h, b, e) ==
    /\ Unrequested(h) =>
         /\ e.ph = "none" /\ b.ph = "none" /\ written[h] = <<>>
         /\ \A i \in DOMAIN Down : Down[i].id # h
    /\ Open(h) =>
         /\ e.ph = "open"
         /\ \A w \in Writers : writer[w].h = h => Rest(h, written[h], writer[w].left, e)
         /\ (\A w \in Writers : writer[w].h # h) => Rest(h, written[h], <<>>, e)

\* Where the client is in what it has heard.
ClientAt(h, b) ==
    /\ b.ph = "none" =>
         /\ ~cl[h].running /\ ch[h].open = "NONE" /\ ch[h].closedIn = "NONE"
         /\ got[h] = <<>> /\ sent[h] = <<>> /\ cw[h] = <<>>
         /\ \A i \in DOMAIN Up : Up[i].id # h
    /\ cl[h].running =>
         b.ph = "open" /\ Partial(written[h], cl[h].len, cl[h].data, got[h], b)

\* Where the client is in what it says about h.
SaidAt(h, e) ==
    /\ cl[h].running => e.ph = "open" /\ Rest(h, sent[h], cw[h], e)
    /\ e.ph # "none" /\ ~cl[h].running => e.ph = "shut"

\* Where the server is in what it has heard.  A channel that was freed hears
\* no more, unless the peer's thread has it in hand.
Listens(h) == ch[h].live \/ (peer.pc = "use" /\ peer.dvc = h)
HeardAt(h, a) ==
    h > seq \/ Listens(h) =>
        /\ ch[h].open = "NONE" => a.ph = "none" /\ read[h] \o ch[h].q = <<>> /\ ch[h].total = 0
        /\ ch[h].open = "SUCCEEDED" =>
             a.ph = "open" /\ Partial(sent[h], ch[h].total, ch[h].buf, read[h] \o ch[h].q, a)
        /\ ch[h].open \in {"FAILED", "CLOSED"} => a.ph = "shut"

\* What is on the way about h, in both directions: the client answers a create
\* request, and says nothing of a channel before.
Talk(h, b, d, a, e) ==
    /\ ClientAt(h, b) /\ Linked(Places, Carries(h, written[h]), b, Down, d) /\ ServerAt(h, b, d)
    /\ HeardAt(h, a) /\ Linked(Places, Carries(h, sent[h]), a, Up, e) /\ SaidAt(h, e)
    /\ b.ph = "none" <=> e.ph = "none"
TalksOK == \A h \in Handles : \E b, d, a, e \in Places : Talk(h, b, d, a, e)

\* Once a channel has ended at the client, or the server has told it to end,
\* it does not come back.
EndsOK ==
    \A h \in Handles :
        cl[h].running =>
            /\ ch[h].open \in {"NONE", "SUCCEEDED"} /\ ch[h].closedIn \in {"NONE", "SUCCEEDED"}
            /\ \A i \in DOMAIN Up : Up[i].id = h => Up[i].cmd \notin {"REFUSED", "CLOSE"}
            /\ ch[h].closedIn = "SUCCEEDED" =>
                 \E i \in DOMAIN Down : Down[i].id = h /\ Down[i].cmd = "CLOSE"

\* What the client's plugin got, and the serving thread read, is a prefix.
ReadsOK == (\A h \in Handles : Prefix(got[h], written[h])) /\ OwnerReadsItsOwn

ManagerIndInv ==
    /\ ManagerTypes /\ IdsOK /\ OwnersOK /\ WritersOK /\ TalksOK /\ EndsOK /\ ReadsOK
=============================================================================
