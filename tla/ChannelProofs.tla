---------------------------- MODULE ChannelProofs ----------------------------
(***************************************************************************)
(* Proofs about the virtual channels of a server, for any number of        *)
(* serving and writing threads, channels and messages, and messages of any *)
(* length: messages arrive whole, in order and at their own channel, an    *)
(* honest client is kept, and no channel is left open at the client by a   *)
(* server that has closed it.                                              *)
(***************************************************************************)
EXTENDS ChannelInvariant, TLAPS

-----------------------------------------------------------------------------
(***************************************************************************)
(* Virtual channels: PDUs, messages and the places of what is said about a *)
(* channel.                                                                *)
(***************************************************************************)

(* Whether a PDU leads from a place to another one is a matter of Leads.   *)
LEMMA CarriesIs ==
    ASSUME NEW h, NEW msgs, NEW p \in Places, NEW x \in Pdus, NEW r \in Places
    PROVE  <<p, x, r>> \in Carries(h, msgs) <=> Leads(h, msgs, p, x, r)
<1>1. <<p, x, r>> \in Places \X Pdus \X Places
  OBVIOUS
<1>2. <<p, x, r>>[1] = p /\ <<p, x, r>>[2] = x /\ <<p, x, r>>[3] = r
  OBVIOUS
<1> QED BY <1>1, <1>2, Zenon DEF Carries

(* A place has a phase and two numbers.                                    *)
LEMMA PlaceIs ==
    \A ph \in {"none", "open", "shut"}, m \in Nat, i \in Nat :
        /\ Place(ph, m, i) \in Places
        /\ Place(ph, m, i).ph = ph /\ Place(ph, m, i).m = m /\ Place(ph, m, i).i = i
  BY DEF Place, Places

(* What a PDU's fields are.                                                *)
LEMMA PduIs ==
    \A x \in Pdus : /\ x.cmd \in Cmds \ {"none"} /\ x.id \in 0 .. MaxOpen /\ x.gen = x.id
                    /\ x.total \in 0 .. MaxLen /\ x.chunk \in Chunks
                    /\ x.cmd = "CAPS" => x = Pdu("CAPS", 0, 0) /\ x.id = 0
                    /\ x.cmd # "CAPS" => x.id \in Handles
                    /\ x.cmd = "DATA_FIRST" => x.total > 1
  BY DEF Pdus, PduRecords, Pdu, NoPdu

(* The fields of a PDU that is not data.                                   *)
LEMMA PduFields ==
    ASSUME NEW cmd \in Cmds, NEW h \in 0 .. MaxOpen
    PROVE  /\ Pdu(cmd, h, h) \in PduRecords /\ Pdu(cmd, h, h).cmd = cmd /\ Pdu(cmd, h, h).id = h
           /\ Pdu(cmd, h, h).gen = h /\ Pdu(cmd, h, h).total = 0
<1>1. 0 \in 0 .. MaxOpen /\ 0 \in 0 .. MaxLen /\ "none" \in Cmds /\ <<>> \in Chunks
  BY ManagerAssumption DEF Cmds, Chunks
<1>2. NoPdu \in PduRecords /\ NoPdu.total = 0
  BY <1>1 DEF NoPdu, PduRecords
<1> QED BY <1>2 DEF Pdu, PduRecords

(* The PDUs that are not data.                                             *)
LEMMA NewPdu ==
    ASSUME NEW cmd \in {"CREATE", "CREATED", "REFUSED", "CLOSE"}, NEW h \in Handles
    PROVE  /\ Pdu(cmd, h, h) \in Pdus
           /\ Pdu(cmd, h, h).cmd = cmd /\ Pdu(cmd, h, h).id = h
<1>1. h \in 0 .. MaxOpen /\ cmd \in Cmds
  BY ManagerAssumption DEF Handles, Cmds
<1> QED BY <1>1, PduFields DEF Pdus

(* The capabilities PDU belongs to no channel.                             *)
LEMMA CapsPdu == Pdu("CAPS", 0, 0) \in Pdus /\ Pdu("CAPS", 0, 0).cmd = "CAPS" /\ Pdu("CAPS", 0, 0).id = 0
<1>1. 0 \in 0 .. MaxOpen /\ "CAPS" \in Cmds
  BY ManagerAssumption DEF Cmds
<1> QED BY <1>1, PduFields DEF Pdus

(* The PDUs of a message: one for each chunk, the first of two or more     *)
(* tells the length.                                                       *)
LEMMA DataPdusAre ==
    ASSUME NEW h \in Handles, NEW msg \in Writes
    PROVE  /\ DataPdus(h, h, msg) \in Seq(Pdus) /\ Len(DataPdus(h, h, msg)) = Len(msg)
           /\ \A i \in 1 .. Len(msg) :
                LET x == DataPdus(h, h, msg)[i] IN
                /\ x \in Pdus /\ x.id = h /\ x.cmd \in DataCmds /\ x.chunk = msg[i]
                /\ x.cmd = "DATA_FIRST" <=> i = 1 /\ Len(msg) > 1
                /\ x.cmd = "DATA_FIRST" => x.total = Len(msg)
<1> DEFINE rec(i) == [cmd |-> IF i = 1 /\ Len(msg) > 1 THEN "DATA_FIRST" ELSE "DATA",
                      id |-> h, gen |-> h,
                      total |-> IF i = 1 /\ Len(msg) > 1 THEN Len(msg) ELSE 0,
                      chunk |-> msg[i]]
<1>1. DataPdus(h, h, msg) = [i \in 1 .. Len(msg) |-> rec(i)]
  BY DEF DataPdus
<1>2. Len(msg) \in 1 .. MaxLen /\ Len(msg) \in Nat /\ msg \in Seq(Chunks)
  BY DEF Writes
<1>3. \A i \in 1 .. Len(msg) : rec(i) \in Pdus
  <2> TAKE i \in 1 .. Len(msg)
  <2>1. msg[i] \in Chunks
    BY <1>2
  <2>2. h \in 0 .. MaxOpen /\ Len(msg) \in 0 .. MaxLen /\ 0 \in 0 .. MaxLen
    BY <1>2, ManagerAssumption DEF Handles
  <2>3. CASE i = 1 /\ Len(msg) > 1
    <3>1. rec(i) = [cmd |-> "DATA_FIRST", id |-> h, gen |-> h, total |-> Len(msg), chunk |-> msg[i]]
      BY <2>3
    <3> QED BY <3>1, <2>1, <2>2, <2>3 DEF Pdus, PduRecords, Cmds
  <2>4. CASE ~(i = 1 /\ Len(msg) > 1)
    <3>1. rec(i) = [cmd |-> "DATA", id |-> h, gen |-> h, total |-> 0, chunk |-> msg[i]]
      BY <2>4
    <3> QED BY <3>1, <2>1, <2>2, <2>4 DEF Pdus, PduRecords, Cmds
  <2> QED BY <2>3, <2>4
<1>4. \A i \in 1 .. Len(msg) :
        /\ rec(i).id = h /\ rec(i).cmd \in DataCmds /\ rec(i).chunk = msg[i]
        /\ rec(i).cmd = "DATA_FIRST" <=> i = 1 /\ Len(msg) > 1
        /\ rec(i).cmd = "DATA_FIRST" => rec(i).total = Len(msg)
  BY DEF DataCmds
<1> HIDE DEF rec
<1>5. DataPdus(h, h, msg) \in Seq(Pdus) /\ Len(DataPdus(h, h, msg)) = Len(msg)
  BY <1>1, <1>2, <1>3
<1>6. \A i \in 1 .. Len(msg) : DataPdus(h, h, msg)[i] = rec(i)
  BY <1>1
<1> QED BY <1>3, <1>4, <1>5, <1>6

(* A message of n chunks is one a side may write.                          *)
LEMMA MessageType ==
    ASSUME NEW h \in Handles, NEW k \in Nat, NEW n \in 1 .. MaxLen
    PROVE  Message(h, k, n) \in Writes
<1>1. n \in Nat /\ h \in Nat
  BY DEF Handles
<1>2. \A i \in 1 .. n : <<h, k, i>> \in Chunks
  BY <1>1 DEF Chunks
<1>3. Message(h, k, n) \in Seq(Chunks) /\ Len(Message(h, k, n)) = n
  BY <1>1, <1>2 DEF Message
<1> QED BY <1>3 DEF Writes

(* PDUs of other channels are noise.                                       *)
LEMMA Noisy ==
    ASSUME NEW h, NEW msgs, NEW p \in Places, NEW x \in Pdus, x.id # h
    PROVE  <<p, x, p>> \in Carries(h, msgs)
  BY CarriesIs DEF Leads

(* Writing one more message takes nothing away from what was said.         *)
LEMMA CarriesMore ==
    ASSUME NEW h, NEW msgs \in Seq(Writes), NEW m \in Writes
    PROVE  Carries(h, msgs) \subseteq Carries(h, Append(msgs, m))
<1> SUFFICES ASSUME NEW p \in Places, NEW x \in Pdus, NEW r \in Places, Leads(h, msgs, p, x, r)
             PROVE  Leads(h, Append(msgs, m), p, x, r)
  BY DEF Carries
<1>1. Len(Append(msgs, m)) = Len(msgs) + 1 /\ Len(msgs) \in Nat
      /\ \A j \in 1 .. Len(msgs) : Append(msgs, m)[j] = msgs[j]
  OBVIOUS
<1>2. p.m \in Nat /\ p.i \in Nat
  BY DEF Places
<1>3. ASSUME NextChunk(h, msgs, p, x)
      PROVE  /\ NextChunk(h, Append(msgs, m), p, x)
             /\ AfterChunk(Append(msgs, m), p) = AfterChunk(msgs, p)
  <2>1. p.m + 1 \in 1 .. Len(msgs)
    BY <1>1, <1>2, <1>3 DEF NextChunk
  <2>2. Append(msgs, m)[p.m + 1] = msgs[p.m + 1] /\ p.m < Len(Append(msgs, m))
    BY <2>1, <1>1, <1>2
  <2> QED BY <2>2, <1>3 DEF NextChunk, AfterChunk
<1> QED BY <1>3 DEF Leads

(* Each message that was written is one a side may write.                  *)
LEMMA WrittenIs ==
    ASSUME NEW msgs \in Seq(Writes), NEW k \in 1 .. Len(msgs)
    PROVE  msgs[k] \in Writes /\ msgs[k] \in Seq(Chunks) /\ Len(msgs[k]) \in 1 .. MaxLen
<1>1. msgs[k] \in Writes
  OBVIOUS
<1> QED BY <1>1 DEF Writes

(* A writer that has posted all begins with another message.               *)
LEMMA RestBegins ==
    ASSUME NEW h \in Handles, NEW msgs \in Seq(Writes), NEW m \in Writes, NEW e \in Places,
           Rest(h, msgs, <<>>, e)
    PROVE  Rest(h, Append(msgs, m), DataPdus(h, h, m), e) /\ DataPdus(h, h, m) # <<>>
<1>1. e.m = Len(msgs) /\ e.i = 0 /\ Len(msgs) \in Nat
  BY DEF Rest
<1>2. Append(msgs, m)[e.m + 1] = m /\ e.m + 1 = Len(Append(msgs, m))
  BY <1>1
<1>3. Len(m) \in 1 .. MaxLen /\ Len(DataPdus(h, h, m)) = Len(m) /\ DataPdus(h, h, m) \in Seq(Pdus)
  BY DataPdusAre DEF Writes
<1>4. DataPdus(h, h, m) # <<>>
  BY <1>3
<1>5. \A j \in DOMAIN DataPdus(h, h, m) : e.i + j = j
  BY <1>1, <1>3
<1> QED BY <1>1, <1>2, <1>3, <1>4, <1>5 DEF Rest

(* The next PDU a writer posts is the one that is due.                     *)
LEMMA RestGoesOn ==
    ASSUME NEW h \in Handles, NEW msgs \in Seq(Writes), NEW left \in Seq(Pdus), left # <<>>,
           NEW e \in Places, e.ph = "open", Rest(h, msgs, left, e)
    PROVE  /\ Head(left) \in Pdus /\ Head(left).id = h /\ Head(left).cmd \in DataCmds
           /\ \E f \in Places : /\ f.ph = "open" /\ <<e, Head(left), f>> \in Carries(h, msgs)
                                /\ Rest(h, msgs, Tail(left), f)
<1> DEFINE msg == msgs[e.m + 1]
<1>1. e.m \in Nat /\ e.i \in Nat /\ Len(msgs) \in Nat /\ Len(left) \in Nat \ {0}
  BY DEF Places
<1>2. e.m + 1 = Len(msgs) /\ Len(left) + e.i = Len(msg)
      /\ \A j \in DOMAIN left : left[j] = DataPdus(h, h, msg)[e.i + j]
  BY DEF Rest
<1>3. msg \in Writes /\ Len(msg) \in 1 .. MaxLen /\ Len(msg) \in Nat
  BY <1>1, <1>2, WrittenIs
<1>4. Head(left) = DataPdus(h, h, msg)[e.i + 1] /\ e.i + 1 \in 1 .. Len(msg)
  BY <1>1, <1>2, <1>3
<1> HIDE DEF msg
<1>5. Head(left) \in Pdus /\ Head(left).id = h /\ Head(left).cmd \in DataCmds
  BY <1>3, <1>4, DataPdusAre
<1>6. NextChunk(h, msgs, e, Head(left))
  BY <1>1, <1>2, <1>4 DEF NextChunk, msg
<1> DEFINE f == AfterChunk(msgs, e)
<1>7. f \in Places /\ f.ph = "open"
      /\ (e.i + 1 = Len(msg) => f.m = e.m + 1 /\ f.i = 0)
      /\ (e.i + 1 # Len(msg) => f.m = e.m /\ f.i = e.i + 1)
  BY <1>1 DEF AfterChunk, Place, Places, msg
<1>8. <<e, Head(left), f>> \in Carries(h, msgs)
  BY <1>5, <1>6, <1>7, CarriesIs DEF Leads
<1>9. Len(Tail(left)) = Len(left) - 1 /\ \A j \in 1 .. Len(left) - 1 : Tail(left)[j] = left[j + 1]
  BY <1>1
<1> HIDE DEF f
<1>10. Rest(h, msgs, Tail(left), f)
  <2>1. CASE e.i + 1 = Len(msg)
    <3>1. Tail(left) = <<>>
      BY <2>1, <1>1, <1>2
    <3> QED BY <3>1, <2>1, <1>7, <1>2 DEF Rest
  <2>2. CASE e.i + 1 # Len(msg)
    <3>1. Tail(left) # <<>> /\ Len(Tail(left)) + f.i = Len(msg)
      BY <2>2, <1>1, <1>2, <1>3, <1>7, <1>9, SMTT(30)
    <3>2. \A j \in DOMAIN Tail(left) : Tail(left)[j] = DataPdus(h, h, msg)[f.i + j]
      <4> TAKE j \in DOMAIN Tail(left)
      <4>1. j \in 1 .. Len(left) - 1 /\ j + 1 \in DOMAIN left
        BY <1>1, <1>9
      <4>2. f.i = e.i + 1
        BY <2>2, <1>7
      <4>3. e.i \in Nat /\ j \in Nat
        BY <4>1, <1>1
      <4>4. \A k \in Nat : (k + 1) + j = k + (j + 1)
        BY <4>3
      <4>5. (e.i + 1) + j = e.i + (j + 1)
        BY <4>3, <4>4
      <4> QED BY <4>1, <4>2, <4>5, <1>2, <1>9
    <3>3. f.m + 1 = Len(msgs) /\ msg = msgs[f.m + 1]
      BY <2>2, <1>2, <1>7 DEF msg
    <3> QED BY <3>1, <3>2, <3>3 DEF Rest
  <2> QED BY <2>1, <2>2
<1> QED BY <1>5, <1>7, <1>8, <1>10

(* A prefix is one of any longer sequence, too.                            *)
LEMMA PrefixMore ==
    ASSUME NEW done, Len(done) \in Nat, NEW msgs \in Seq(Writes), NEW m, Prefix(done, msgs)
    PROVE  Prefix(done, Append(msgs, m))
<1>1. Len(Append(msgs, m)) = Len(msgs) + 1 /\ Len(msgs) \in Nat
      /\ \A j \in 1 .. Len(msgs) : Append(msgs, m)[j] = msgs[j]
  OBVIOUS
<1> QED BY <1>1 DEF Prefix

(* And so is what a reader has.                                            *)
LEMMA PartialMore ==
    ASSUME NEW done \in Seq(Seq(Chunks)), NEW msgs \in Seq(Writes), NEW m, NEW p \in Places,
           NEW len, NEW data, Partial(msgs, len, data, done, p)
    PROVE  Partial(Append(msgs, m), len, data, done, p)
<1>1. Len(Append(msgs, m)) = Len(msgs) + 1 /\ Len(msgs) \in Nat
      /\ \A j \in 1 .. Len(msgs) : Append(msgs, m)[j] = msgs[j]
  OBVIOUS
<1>2. Prefix(done, Append(msgs, m))
  BY PrefixMore DEF Partial
<1>3. p.m \in Nat
  BY DEF Places
<1>4. p.m < Len(msgs) => Append(msgs, m)[p.m + 1] = msgs[p.m + 1] /\ p.m < Len(Append(msgs, m))
  BY <1>1, <1>3
<1> QED BY <1>2, <1>4 DEF Partial

(* What a reader makes of the next PDU: a message begins, goes on or is    *)
(* complete, and no more arrives than was announced.                       *)
LEMMA Reads ==
    ASSUME NEW h \in Handles, NEW msgs \in Seq(Writes), NEW p \in Places, NEW r \in Places,
           NEW x \in Pdus, x.id = h, x.cmd \in DataCmds, p.ph = "open",
           Leads(h, msgs, p, x, r), NEW len \in Nat, NEW data \in Seq(Chunks),
           NEW done \in Seq(Seq(Chunks)), Partial(msgs, len, data, done, p)
    PROVE  /\ r.ph = "open"
           /\ x.cmd = "DATA_FIRST" => Partial(msgs, x.total, <<x.chunk>>, done, r)
           /\ x.cmd = "DATA" /\ len = 0 => Partial(msgs, 0, <<>>, Append(done, <<x.chunk>>), r)
           /\ x.cmd = "DATA" /\ len > 0 =>
                /\ Len(data) + 1 <= len
                /\ Len(data) + 1 = len =>
                     Partial(msgs, 0, <<>>, Append(done, Append(data, x.chunk)), r)
                /\ Len(data) + 1 < len => Partial(msgs, len, Append(data, x.chunk), done, r)
<1>0. PICK msg : msg = msgs[p.m + 1]
  OBVIOUS
<1>1. NextChunk(h, msgs, p, x) /\ r = AfterChunk(msgs, p)
  BY DEF Leads, DataCmds
<1>2. p.m \in Nat /\ p.i \in Nat /\ Len(msgs) \in Nat /\ Len(done) \in Nat /\ Len(data) \in Nat
  BY DEF Places
<1>3. p.m + 1 \in 1 .. Len(msgs) /\ p.i + 1 \in 1 .. Len(msg) /\ msg \in Writes /\ Len(msg) \in Nat
      /\ msg \in Seq(Chunks)
  BY <1>0, <1>1, <1>2, WrittenIs, SMTT(30) DEF NextChunk
<1>4. x.chunk = msg[p.i + 1] /\ (x.cmd = "DATA_FIRST" <=> p.i + 1 = 1 /\ Len(msg) > 1)
      /\ (x.cmd = "DATA_FIRST" => x.total = Len(msg))
  BY <1>0, <1>1, <1>3, DataPdusAre, SMTT(30) DEF NextChunk
<1>5. r.ph = "open" /\ (p.i + 1 = Len(msg) => r.m = p.m + 1 /\ r.i = 0)
      /\ (p.i + 1 # Len(msg) => r.m = p.m /\ r.i = p.i + 1)
  BY <1>0, <1>1 DEF AfterChunk, Place
<1>6. p.m = Len(done) /\ Len(done) <= Len(msgs) /\ \A j \in 1 .. Len(done) : done[j] = msgs[j]
  BY DEF Partial, Prefix
<1>7. (len = 0 => p.i = 0)
      /\ (len > 0 => /\ len = Len(msg) /\ 0 < p.i /\ p.i < len
                     /\ p.i = Len(data) /\ \A j \in 1 .. p.i : data[j] = msg[j])
  BY <1>0 DEF Partial
<1>13. Len(msg) \in Nat /\ p.i + 1 <= Len(msg)
  BY <1>2, <1>3
<1>14. PICK n \in Nat : n = Len(msg)
  BY <1>13
<1>12. x.chunk \in Chunks
  BY PduIs
\* A message that is complete is one more of those written.
<1>8. ASSUME NEW all \in Seq(Chunks), Len(all) = Len(msg), \A j \in 1 .. Len(msg) : all[j] = msg[j],
             p.i + 1 = Len(msg)
      PROVE  Partial(msgs, 0, <<>>, Append(done, all), r)
  <2>1. all = msg
    BY <1>3, <1>8
  <2>2. Len(Append(done, all)) = Len(done) + 1
        /\ \A j \in 1 .. Len(done) + 1 : Append(done, all)[j] = IF j = Len(done) + 1 THEN all ELSE done[j]
    BY <1>2
  <2>3. \A j \in 1 .. Len(done) + 1 : Append(done, all)[j] = msgs[j]
    BY <2>1, <2>2, <1>0, <1>2, <1>6
  <2>4. Prefix(Append(done, all), msgs)
    BY <2>2, <2>3, <1>2, <1>3, <1>6 DEF Prefix
  <2> QED BY <2>2, <2>4, <1>5, <1>6, <1>8 DEF Partial
<1>9. ASSUME x.cmd = "DATA_FIRST" PROVE Partial(msgs, x.total, <<x.chunk>>, done, r)
  <2>1. p.i = 0 /\ Len(msg) > 1 /\ x.total = Len(msg) /\ x.chunk = msg[1]
    BY <1>9, <1>4, <1>2
  <2>5. p.i + 1 = 1 /\ p.i + 1 # Len(msg)
    <3>1. p.i + 1 = 1 /\ n > 1
      BY <2>1, <1>14
    <3>2. p.i + 1 # n
      BY <3>1
    <3> QED BY <3>1, <3>2, <1>14
  <2>2. r.m = p.m /\ r.i = 1
    BY <2>5, <1>5
  <2>3. Len(<<x.chunk>>) = 1 /\ \A j \in 1 .. 1 : <<x.chunk>>[j] = msg[j]
    BY <2>1
  <2>4. Prefix(done, msgs)
    BY DEF Partial
  <2> QED BY <2>1, <2>2, <2>3, <2>4, <1>2, <1>3, <1>6, <1>0 DEF Partial
<1>10. ASSUME x.cmd = "DATA", len = 0 PROVE Partial(msgs, 0, <<>>, Append(done, <<x.chunk>>), r)
  <2>1. p.i = 0 /\ Len(msg) = 1 /\ x.chunk = msg[1]
    <3>1. p.i = 0
      BY <1>10, <1>7
    <3>2. ~(p.i + 1 = 1 /\ Len(msg) > 1)
      BY <1>10, <1>4
    <3>3. p.i + 1 = 1
      BY <3>1
    <3>4. Len(msg) = 1
      <4>1. n = 1
        BY <3>2, <3>3, <1>13, <1>14
      <4> QED BY <4>1, <1>14
    <3>5. x.chunk = msg[p.i + 1]
      BY <1>4
    <3> QED BY <3>1, <3>3, <3>4, <3>5
  <2>2. <<x.chunk>> \in Seq(Chunks) /\ Len(<<x.chunk>>) = 1 /\ <<x.chunk>>[1] = msg[1]
    BY <2>1, <1>12
  <2>3. \A j \in 1 .. Len(msg) : <<x.chunk>>[j] = msg[j]
    BY <2>1, <2>2
  <2>4. p.i + 1 = Len(msg) /\ Len(<<x.chunk>>) = Len(msg)
    BY <2>1, <2>2
  <2> QED BY <2>2, <2>3, <2>4, <1>8
<1>11. ASSUME x.cmd = "DATA", len > 0
       PROVE  /\ Len(data) + 1 <= len
              /\ Len(data) + 1 = len => Partial(msgs, 0, <<>>, Append(done, Append(data, x.chunk)), r)
              /\ Len(data) + 1 < len => Partial(msgs, len, Append(data, x.chunk), done, r)
  <2>1. len = Len(msg) /\ p.i = Len(data) /\ 0 < p.i /\ p.i < len
    BY <1>11, <1>7
  <2>2. Append(data, x.chunk) \in Seq(Chunks) /\ Len(Append(data, x.chunk)) = Len(data) + 1
    BY <1>12
  <2>3. \A j \in 1 .. Len(data) + 1 :
          Append(data, x.chunk)[j] = IF j = Len(data) + 1 THEN x.chunk ELSE data[j]
    BY <1>2
  <2>4. \A j \in 1 .. Len(data) + 1 : Append(data, x.chunk)[j] = msg[j]
    BY <2>1, <2>3, <1>2, <1>4, <1>7, <1>11
  <2>5. ASSUME Len(data) + 1 = len PROVE Partial(msgs, 0, <<>>, Append(done, Append(data, x.chunk)), r)
    BY <2>5, <2>1, <2>2, <2>4, <1>8
  <2>6. ASSUME Len(data) + 1 < len PROVE Partial(msgs, len, Append(data, x.chunk), done, r)
    <3>1. r.m = p.m /\ r.i = Len(data) + 1
      BY <2>6, <2>1, <1>2, <1>5
    <3>2. Prefix(done, msgs)
      BY DEF Partial
    <3> QED BY <3>1, <3>2, <2>1, <2>2, <2>4, <2>6, <1>2, <1>3, <1>6, <1>0 DEF Partial
  <2> QED BY <2>1, <2>5, <2>6, <1>2
<1> QED BY <1>5, <1>9, <1>10, <1>11

(* Sequences: what an append, a move and a take do to two streams of which *)
(* one follows the other.                                                  *)
LEMMA JoinedAppend ==
    ASSUME NEW S, NEW q \in Seq(S), NEW r \in Seq(S), NEW x \in S
    PROVE  q \o Append(r, x) = Append(q \o r, x)
  OBVIOUS

(* Moving the first element of a stream to the end of the one before it    *)
(* changes nothing of the two joined.                                      *)
LEMMA JoinedMove ==
    ASSUME NEW S, NEW q \in Seq(S), NEW r \in Seq(S), r # <<>>
    PROVE  Append(q, Head(r)) \o Tail(r) = q \o r
  OBVIOUS

(* The first element of the first stream is the first of the two joined.   *)
LEMMA JoinedTake ==
    ASSUME NEW S, NEW q \in Seq(S), NEW r \in Seq(S), q # <<>>
    PROVE  q \o r # <<>> /\ Head(q \o r) = Head(q) /\ Tail(q \o r) = Tail(q) \o r
  OBVIOUS

(* One element before a stream.                                            *)
LEMMA JoinedOne ==
    ASSUME NEW S, NEW q \in Seq(S), NEW x \in S
    PROVE  /\ <<x>> \o q \in Seq(S) /\ <<x>> \o q # <<>> /\ Head(<<x>> \o q) = x /\ Tail(<<x>> \o q) = q
  OBVIOUS

(* A stream is its first element and the rest.                             *)
LEMMA JoinedAgain ==
    ASSUME NEW S, NEW q \in Seq(S), q # <<>>
    PROVE  <<Head(q)>> \o Tail(q) = q
  OBVIOUS

-----------------------------------------------------------------------------
(***************************************************************************)
(* Virtual channels: what is on the way, and what is done elsewhere.       *)
(***************************************************************************)

(* What is on the way are PDUs.                                            *)
LEMMA OnTheWay ==
    ASSUME ManagerTypes
    PROVE  Down \in Seq(Pdus) /\ Up \in Seq(Pdus)
<1>1. Down \in Seq(Pdus)
  BY DEF ManagerTypes, WireOK, Down
<1>2. CASE peer = Idle
  BY <1>1, <1>2 DEF ManagerTypes, WireOK, Up, Idle
<1>3. CASE peer \in [pc : {"use"}, pdu : Pdus, dvc : Handles]
  <2>1. peer.pdu \in Pdus
    BY <1>3
  <2> QED BY <2>1, <1>1, JoinedOne DEF ManagerTypes, WireOK, Up
<1> QED BY <1>1, <1>2, <1>3 DEF ManagerTypes, ThreadsOK

(* A PDU is put in the manager's queue.                                    *)
LEMMA DownAppends ==
    ASSUME ManagerTypes, NEW x \in Pdus, vq' = Append(vq, x), toClient' = toClient
    PROVE  Down' = Append(Down, x)
  BY JoinedAppend DEF ManagerTypes, WireOK, Down

(* A PDU goes from the manager's queue to the wire.                        *)
LEMMA DownMoves ==
    ASSUME ManagerTypes, vq # <<>>, toClient' = Append(toClient, Head(vq)), vq' = Tail(vq)
    PROVE  Down' = Down
  BY JoinedMove DEF ManagerTypes, WireOK, Down

(* The client takes a PDU.                                                 *)
LEMMA DownTakes ==
    ASSUME ManagerTypes, toClient # <<>>, toClient' = Tail(toClient), vq' = vq
    PROVE  Down # <<>> /\ Head(Down) = Head(toClient) /\ Down' = Tail(Down)
           /\ Head(toClient) \in Pdus
<1>1. Head(toClient) \in Pdus
  BY DEF ManagerTypes, WireOK
<1> QED BY <1>1, JoinedTake DEF ManagerTypes, WireOK, Down

(* The client sends a PDU.                                                 *)
LEMMA UpAppends ==
    ASSUME ManagerTypes, NEW x \in Pdus, toServer' = Append(toServer, x), peer' = peer
    PROVE  Up' = Append(Up, x)
<1>1. CASE peer.pc = "use"
  <2>1. peer \in [pc : {"use"}, pdu : Pdus, dvc : Handles]
    BY <1>1 DEF ManagerTypes, ThreadsOK, Idle
  <2>2. <<peer.pdu>> \in Seq(Pdus)
    BY <2>1
  <2> QED BY <1>1, <2>2, JoinedAppend DEF ManagerTypes, WireOK, Up
<1>2. CASE peer.pc # "use"
  BY <1>2 DEF Up
<1> QED BY <1>1, <1>2

(* The peer's thread looks up the channel of a PDU.                        *)
LEMMA UpLooksUp ==
    ASSUME ManagerTypes, toServer # <<>>, toServer' = Tail(toServer), peer.pc # "use",
           peer'.pc = "use", peer'.pdu = Head(toServer)
    PROVE  Up' = Up
  BY JoinedAgain DEF ManagerTypes, WireOK, Up

(* The peer's thread takes a PDU and is done with it.                      *)
LEMMA UpDrops ==
    ASSUME ManagerTypes, toServer # <<>>, toServer' = Tail(toServer), peer.pc # "use", peer' = peer
    PROVE  Up # <<>> /\ Head(Up) = Head(toServer) /\ Up' = Tail(Up) /\ Head(toServer) \in Pdus
<1>1. Head(toServer) \in Pdus
  BY DEF ManagerTypes, WireOK
<1> QED BY <1>1 DEF Up

(* The peer's thread is done with the PDU it has looked up.                *)
LEMMA UpHandled ==
    ASSUME ManagerTypes, peer.pc = "use", peer' = Idle, toServer' = toServer
    PROVE  /\ Up # <<>> /\ Head(Up) = peer.pdu /\ Up' = Tail(Up)
           /\ peer.pdu \in Pdus /\ peer.dvc \in Handles /\ peer.pdu.id = peer.dvc
           /\ peer.pdu.cmd # "CAPS"
<1>1. peer \in [pc : {"use"}, pdu : Pdus, dvc : Handles] /\ peer.pdu.id = peer.dvc /\ peer.pdu.cmd # "CAPS"
  BY DEF ManagerTypes, ThreadsOK, Idle
<1>2. peer'.pc # "use"
  BY DEF Idle
<1> QED BY <1>1, <1>2, JoinedOne DEF ManagerTypes, WireOK, Up

-----------------------------------------------------------------------------
\* Nothing of h is added to a stream or taken from it.
Quietly(h, q, r) ==
    \/ r = q
    \/ \E x \in Pdus : x.id # h /\ r = Append(q, x)
    \/ q # <<>> /\ Head(q).id # h /\ r = Tail(q)

(* Other channels' PDUs come and go without moving anything.               *)
LEMMA LinkedQuietly ==
    ASSUME NEW h, NEW msgs, NEW b \in Places, NEW d \in Places, NEW q \in Seq(Pdus), NEW r,
           Quietly(h, q, r), Linked(Places, Carries(h, msgs), b, q, d)
    PROVE  Linked(Places, Carries(h, msgs), b, r, d)
<1>1. CASE r = q
  BY <1>1
<1>2. ASSUME NEW x \in Pdus, x.id # h, r = Append(q, x)
      PROVE  Linked(Places, Carries(h, msgs), b, r, d)
  <2>1. <<d, x, d>> \in Carries(h, msgs)
    BY <1>2, Noisy
  <2> QED BY <1>2, <2>1, LinkedAppend
<1>3. CASE q # <<>> /\ Head(q).id # h /\ r = Tail(q)
  <2>1. PICK c \in Places : /\ <<b, Head(q), c>> \in Carries(h, msgs)
                            /\ Linked(Places, Carries(h, msgs), c, Tail(q), d)
    BY <1>3, LinkedTake
  <2>2. Head(q) \in Pdus
    BY <1>3
  <2>3. Leads(h, msgs, b, Head(q), c)
    BY <2>1, <2>2, CarriesIs
  <2>4. c = b
    BY <2>3, <1>3 DEF Leads
  <2> QED BY <2>1, <2>4, <1>3
<1> QED BY <1>1, <1>2, <1>3 DEF Quietly

(* And they are not of h.                                                  *)
LEMMA NoneQuietly ==
    ASSUME NEW h, NEW q \in Seq(Pdus), NEW r, Quietly(h, q, r), \A i \in DOMAIN q : q[i].id # h
    PROVE  \A i \in DOMAIN r : r[i].id # h
<1>1. ASSUME NEW x \in Pdus, x.id # h, r = Append(q, x)
      PROVE  \A i \in DOMAIN r : r[i].id # h
  <2>1. Len(q) \in Nat /\ DOMAIN r = 1 .. Len(q) + 1
        /\ \A i \in 1 .. Len(q) + 1 : r[i] = IF i = Len(q) + 1 THEN x ELSE q[i]
    BY <1>1
  <2> QED BY <2>1, <1>1
<1>2. CASE q # <<>> /\ r = Tail(q)
  <2>1. Len(q) \in Nat /\ DOMAIN r = 1 .. Len(q) - 1 /\ \A i \in 1 .. Len(q) - 1 : r[i] = q[i + 1]
    BY <1>2
  <2> QED BY <2>1
<1> QED BY <1>1, <1>2 DEF Quietly

(* Where the client is in what it hears depends on its channel, and on     *)
(* what it has sent.                                                       *)
LEMMA ClientAtStays ==
    ASSUME NEW h \in Handles, NEW b \in Places, ClientAt(h, b), Up \in Seq(Pdus),
           Quietly(h, Up, Up'), cl'[h] = cl[h], cw'[h] = cw[h], written'[h] = written[h],
           got'[h] = got[h], sent'[h] = sent[h], ch'[h].open = ch[h].open,
           ch'[h].closedIn = ch[h].closedIn \/ ch'[h].closedIn = ch[h].open
    PROVE  ClientAt(h, b)'
<1>1. ASSUME b.ph = "none" PROVE \A i \in DOMAIN Up' : Up'[i].id # h
  BY <1>1, NoneQuietly DEF ClientAt
<1> QED BY <1>1 DEF ClientAt

(* Where the server is in what it says depends on the threads that serve   *)
(* and write to the channel.                                               *)
LEMMA ServerAtStays ==
    ASSUME NEW h \in Handles, NEW b \in Places, NEW d \in Places, ServerAt(h, b, d),
           Down \in Seq(Pdus), Quietly(h, Down, Down'), written'[h] = written[h],
           Unrequested(h)' => Unrequested(h), Open(h)' => Open(h),
           \A w \in Writers : /\ writer'[w].h = h <=> writer[w].h = h
                              /\ writer[w].h = h => writer'[w].left = writer[w].left
    PROVE  ServerAt(h, b, d)'
<1>1. ASSUME Unrequested(h) PROVE \A i \in DOMAIN Down' : Down'[i].id # h
  BY <1>1, NoneQuietly DEF ServerAt
<1>2. ASSUME Unrequested(h)'
      PROVE  d.ph = "none" /\ b.ph = "none" /\ written'[h] = <<>> /\ \A i \in DOMAIN Down' : Down'[i].id # h
  BY <1>1, <1>2 DEF ServerAt
<1>3. ASSUME Open(h)'
      PROVE  /\ d.ph = "open"
             /\ \A w \in Writers : writer'[w].h = h => Rest(h, written'[h], writer'[w].left, d)
             /\ (\A w \in Writers : writer'[w].h # h) => Rest(h, written'[h], <<>>, d)
  BY <1>3 DEF ServerAt
<1> QED BY <1>2, <1>3 DEF ServerAt

(* Where the server is in what it hears depends on the channel.            *)
LEMMA HeardAtStays ==
    ASSUME NEW h \in Handles, NEW a \in Places, HeardAt(h, a),
           h > seq' \/ Listens(h)' => h > seq \/ Listens(h),
           sent'[h] = sent[h], ch'[h].open = ch[h].open, ch'[h].total = ch[h].total,
           ch'[h].buf = ch[h].buf, read'[h] \o ch'[h].q = read[h] \o ch[h].q
    PROVE  HeardAt(h, a)'
  BY DEF HeardAt

(* Where the client is in what it says depends on its channel.             *)
LEMMA SaidAtStays ==
    ASSUME NEW h \in Handles, NEW e \in Places, SaidAt(h, e), cl'[h] = cl[h], cw'[h] = cw[h],
           sent'[h] = sent[h]
    PROVE  SaidAt(h, e)'
  BY DEF SaidAt

\* Nothing is done to channel h that its streams could tell.
Elsewhere(h) ==
    /\ written'[h] = written[h] /\ got'[h] = got[h] /\ sent'[h] = sent[h]
    /\ cl'[h] = cl[h] /\ cw'[h] = cw[h]
    /\ ch'[h].open = ch[h].open /\ ch'[h].total = ch[h].total /\ ch'[h].buf = ch[h].buf
    /\ ch'[h].closedIn = ch[h].closedIn \/ ch'[h].closedIn = ch[h].open
    /\ read'[h] \o ch'[h].q = read[h] \o ch[h].q
    /\ Quietly(h, Down, Down') /\ Quietly(h, Up, Up')
    /\ Unrequested(h)' => Unrequested(h)
    /\ Open(h)' => Open(h)
    /\ h > seq' \/ Listens(h)' => h > seq \/ Listens(h)
    /\ \A w \in Writers : /\ writer'[w].h = h <=> writer[w].h = h
                          /\ writer[w].h = h => writer'[w].left = writer[w].left

(* What is said about a channel goes on where it was when something is     *)
(* done elsewhere.                                                         *)
LEMMA TalkElsewhere ==
    ASSUME ManagerTypes, NEW h \in Handles, Elsewhere(h),
           NEW b \in Places, NEW d \in Places, NEW a \in Places, NEW e \in Places,
           Talk(h, b, d, a, e)
    PROVE  Talk(h, b, d, a, e)'
<1>1. Down \in Seq(Pdus) /\ Up \in Seq(Pdus)
  BY OnTheWay
<1>2. Linked(Places, Carries(h, written[h]), b, Down', d)
  BY <1>1, LinkedQuietly DEF Talk, Elsewhere
<1>3. Linked(Places, Carries(h, sent[h]), a, Up', e)
  BY <1>1, LinkedQuietly DEF Talk, Elsewhere
<1>4. ClientAt(h, b)'
  BY <1>1, ClientAtStays DEF Talk, Elsewhere
<1>5. ServerAt(h, b, d)'
  BY <1>1, ServerAtStays DEF Talk, Elsewhere
<1>6. HeardAt(h, a)'
  BY HeardAtStays DEF Talk, Elsewhere
<1>7. SaidAt(h, e)'
  BY SaidAtStays DEF Talk, Elsewhere
<1>8. written'[h] = written[h] /\ sent'[h] = sent[h]
  BY DEF Elsewhere
<1>9. Linked(Places, Carries(h, written'[h]), b, Down', d)
  BY <1>2, <1>8
<1>10. Linked(Places, Carries(h, sent'[h]), a, Up', e)
  BY <1>3, <1>8
<1> QED BY <1>4, <1>5, <1>6, <1>7, <1>9, <1>10 DEF Talk

(* The unchanged variables of a step, one by one.                          *)
LEMMA WireUnchanged ==
    /\ UNCHANGED wire => UNCHANGED <<toClient, toServer>>
    /\ UNCHANGED ghosts => UNCHANGED <<written, got, sent, read>>
    /\ UNCHANGED drdynvcState => UNCHANGED <<cl, cw>>
    /\ UNCHANGED managerState => UNCHANGED <<drdynvc, seq, ch, vq, owner, writer, peer, up>>
  BY DEF wire, ghosts, drdynvcState, managerState

(* A serving thread goes on: its handle stays, and so do the others.       *)
LEMMA OwnerGoes ==
    ASSUME ManagerTypes, NEW o \in Owners, NEW pc \in OwnerPcs, Go(o, pc)
    PROVE  /\ owner' \in [Owners -> [pc : OwnerPcs, h : 0 .. MaxOpen]]
           /\ owner'[o].pc = pc
           /\ \A u \in Owners : owner'[u].h = owner[u].h /\ (u # o => owner'[u].pc = owner[u].pc)
  BY DEF ManagerTypes, ThreadsOK, Go

(* A thread that does not begin to serve a channel leaves the channels as  *)
(* they are.                                                               *)
LEMMA OwnerKeeps ==
    ASSUME ManagerTypes, NEW o \in Owners, NEW pc \in OwnerPcs \ {"request"}, Go(o, pc), seq' = seq,
           pc \in {"wait", "read", "close"} => owner[o].pc \in {"wait", "read", "close"}
    PROVE  \A h \in Handles : (Unrequested(h)' => Unrequested(h)) /\ (Open(h)' => Open(h))
<1> TAKE h \in Handles
<1>1. owner'[o].pc = pc /\ \A u \in Owners : owner'[u].h = owner[u].h /\ (u # o => owner'[u].pc = owner[u].pc)
  BY OwnerGoes
<1>2. Unrequested(h)' => Unrequested(h)
  BY <1>1 DEF Unrequested
<1>3. ASSUME Open(h)' PROVE Open(h)
  <2>1. PICK u \in Owners : owner'[u].pc \in {"wait", "read", "close"} /\ owner'[u].h = h
    BY <1>3 DEF Open
  <2>2. owner[u].pc \in {"wait", "read", "close"} /\ owner[u].h = h
    BY <2>1, <1>1
  <2> QED BY <2>2 DEF Open
<1> QED BY <1>2, <1>3

(* Nothing is added to a stream that does not change.                      *)
LEMMA StreamsStay ==
    /\ UNCHANGED <<vq, toClient>> => \A h : Quietly(h, Down, Down')
    /\ UNCHANGED <<peer, toServer>> => \A h : Quietly(h, Up, Up')
    /\ UNCHANGED writer => \A h, w : /\ writer'[w].h = h <=> writer[w].h = h
                                     /\ writer[w].h = h => writer'[w].left = writer[w].left
  BY DEF Down, Up, Quietly

(* The serving threads' steps that only they can tell.                     *)
LEMMA OwnersElsewhere ==
    ASSUME ManagerTypes, NEW o \in Owners,
           OpenGivesUp(o) \/ QueryReady(o) \/ Stop(o) \/ Reopen(o), NEW h \in Handles
    PROVE  Elsewhere(h)
<1>1. UNCHANGED <<drdynvc, seq, ch, vq, writer, peer, up, cl, cw, toClient, toServer, written, got, sent, read>>
  BY WireUnchanged DEF OpenGivesUp, QueryReady, Stop, Reopen
<1>2. PICK pc \in {"done", "read", "close", "open"} :
        Go(o, pc) /\ (pc \in {"read", "close"} => owner[o].pc \in {"wait", "read", "close"})
  BY DEF OpenGivesUp, QueryReady, Stop, Reopen, At
<1>3. pc \in OwnerPcs \ {"request"} /\ pc # "wait"
  BY DEF OwnerPcs
<1>4. (Unrequested(h)' => Unrequested(h)) /\ (Open(h)' => Open(h))
  BY <1>1, <1>2, <1>3, OwnerKeeps
<1>5. Listens(h)' => Listens(h)
  BY <1>1 DEF Listens
<1> QED BY <1>1, <1>4, <1>5, StreamsStay DEF Elsewhere

(* Reading a message takes it from the queue.                              *)
LEMMA ReadElsewhere ==
    ASSUME ManagerTypes, OwnersOK, NEW o \in Owners, Read(o), NEW h \in Handles
    PROVE  Elsewhere(h) /\ owner[o].h \in Handles
<1> DEFINE g == owner[o].h
<1>0. g \in Handles /\ owner[o].pc = "read"
  BY DEF OwnersOK, Read, At, Serving, Handles, ManagerTypes, ThreadsOK
<1>1. UNCHANGED <<drdynvc, seq, vq, writer, peer, up, cl, cw, toClient, toServer, written, got, sent>>
  BY WireUnchanged DEF Read
<1>2. CASE Head(ch[g].q) = Quit
  <2>1. Go(o, "close") /\ UNCHANGED <<ch, read>>
    BY <1>2 DEF Read
  <2>2. (Unrequested(h)' => Unrequested(h)) /\ (Open(h)' => Open(h))
    BY <1>0, <1>1, <2>1, OwnerKeeps DEF OwnerPcs
  <2>3. Listens(h)' => Listens(h)
    BY <1>1, <2>1 DEF Listens
  <2> QED BY <1>0, <1>1, <2>1, <2>2, <2>3, StreamsStay DEF Elsewhere
<1>3. CASE Head(ch[g].q) # Quit
  <2>1. /\ read' = [read EXCEPT ![g] = Append(read[g], Head(ch[g].q))]
        /\ ch' = [ch EXCEPT ![g].q = Tail(ch[g].q)] /\ UNCHANGED owner /\ ch[g].q # <<>>
    BY <1>3 DEF Read
  <2>2. ch[g].q \in Seq(Seq(Chunks)) /\ read[g] \in Seq(Seq(Chunks))
    BY <1>0 DEF ManagerTypes, ChannelsOK, Channels, GhostsOK
  <2>3. read'[h] \o ch'[h].q = read[h] \o ch[h].q
    <3>1. CASE h = g
      <4>1. read'[h] = Append(read[g], Head(ch[g].q)) /\ ch'[h].q = Tail(ch[g].q)
        BY <3>1, <2>1, <1>0 DEF ManagerTypes, ChannelsOK, Channels, GhostsOK
      <4>2. Append(read[g], Head(ch[g].q)) \o Tail(ch[g].q) = read[g] \o ch[g].q
        BY <2>1, <2>2, JoinedMove
      <4> QED BY <4>1, <4>2, <3>1
    <3>2. CASE h # g
      BY <3>2, <2>1 DEF ManagerTypes, ChannelsOK, GhostsOK
    <3> QED BY <3>1, <3>2
  <2>4. /\ ch'[h].open = ch[h].open /\ ch'[h].total = ch[h].total /\ ch'[h].buf = ch[h].buf
        /\ ch'[h].closedIn = ch[h].closedIn /\ ch'[h].live = ch[h].live
    BY <2>1, <1>0 DEF ManagerTypes, ChannelsOK, Channels
  <2>5. (Unrequested(h)' => Unrequested(h)) /\ (Open(h)' => Open(h))
    BY <1>1, <2>1 DEF Unrequested, Open
  <2>6. Listens(h)' => Listens(h)
    BY <1>1, <2>4 DEF Listens
  <2> HIDE DEF g
  <2> QED BY <1>0, <1>1, <2>3, <2>4, <2>5, <2>6, StreamsStay DEF Elsewhere, g
<1> QED BY <1>2, <1>3

(* Freeing a channel stops it from listening.                              *)
LEMMA RemoveElsewhere ==
    ASSUME ManagerTypes, OwnersOK, NEW o \in Owners, RemoveChannel(o), NEW h \in Handles
    PROVE  Elsewhere(h)
<1>0. owner[o].h \in Handles
  BY DEF OwnersOK, RemoveChannel, At, Serving, Handles, ManagerTypes, ThreadsOK
<1>1. UNCHANGED <<drdynvc, seq, vq, writer, peer, up, cl, cw, toClient, toServer, written, got, sent, read>>
      /\ Go(o, "done") /\ ch' = [ch EXCEPT ![owner[o].h].live = FALSE]
  BY WireUnchanged DEF RemoveChannel
<1>2. /\ ch'[h].open = ch[h].open /\ ch'[h].total = ch[h].total /\ ch'[h].buf = ch[h].buf
      /\ ch'[h].closedIn = ch[h].closedIn /\ (ch'[h].live => ch[h].live) /\ ch'[h].q = ch[h].q
  BY <1>0, <1>1 DEF ManagerTypes, ChannelsOK, Channels
<1>3. (Unrequested(h)' => Unrequested(h)) /\ (Open(h)' => Open(h))
  BY <1>1, OwnerKeeps DEF OwnerPcs
<1>4. Listens(h)' => Listens(h)
  BY <1>1, <1>2 DEF Listens
<1> QED BY <1>1, <1>2, <1>3, <1>4, StreamsStay DEF Elsewhere

(* What a new channel is like.                                             *)
LEMMA NewChannel ==
    ASSUME NEW k
    PROVE  LET c == [NoChannel EXCEPT !.live = TRUE, !.id = k] IN
           /\ c.live = TRUE /\ c.id = k /\ c.open = "NONE" /\ c.total = 0 /\ c.buf = <<>>
           /\ c.q = <<>> /\ c.lock = FALSE /\ c.closedIn = "NONE"
           /\ (k \in 0 .. MaxOpen => c \in Channels)
<1>1. 0 \in 0 .. MaxLen /\ <<>> \in Seq(Chunks) /\ <<>> \in Seq(Seq(Chunks)) /\ "NONE" \in OpenStates
  BY ManagerAssumption DEF OpenStates
<1> QED BY <1>1 DEF NoChannel, Channels

(* Opening a channel: nobody has heard of it yet.                          *)
LEMMA OpenElsewhere ==
    ASSUME ManagerTypes, IdsOK, NEW o \in Owners, OpenEx(o), NEW h \in Handles
    PROVE  Elsewhere(h)
<1>1. UNCHANGED <<drdynvc, vq, writer, peer, up, cl, cw, toClient, toServer, written, got, sent, read>>
      /\ seq' = seq + 1 /\ seq < MaxOpen /\ owner[o].pc = "open"
      /\ ch' = [ch EXCEPT ![seq + 1] = [NoChannel EXCEPT !.live = TRUE, !.id = NextId(seq)]]
      /\ owner' = [owner EXCEPT ![o] = [pc |-> "request", h |-> seq + 1]]
  BY WireUnchanged DEF OpenEx, At
<1>2. seq \in Nat /\ seq + 1 \in Handles /\ h \in Nat
  BY <1>1, ManagerAssumption DEF ManagerTypes, ThreadsOK, Handles
<1>3. /\ ch'[h].open = ch[h].open /\ ch'[h].total = ch[h].total /\ ch'[h].buf = ch[h].buf
      /\ ch'[h].closedIn = ch[h].closedIn /\ ch'[h].q = ch[h].q
      /\ (h # seq + 1 => ch'[h].live = ch[h].live)
  <2>1. CASE h = seq + 1
    <3>1. ch[h] = NoChannel
      BY <2>1, <1>2 DEF IdsOK
    <3>2. ch'[h] = [NoChannel EXCEPT !.live = TRUE, !.id = NextId(seq)]
      BY <2>1, <1>1, <1>2 DEF ManagerTypes, ChannelsOK
    <3> QED BY <2>1, <3>1, <3>2, NewChannel DEF NoChannel
  <2>2. CASE h # seq + 1
    BY <2>2, <1>1, <1>2 DEF ManagerTypes, ChannelsOK
  <2> QED BY <2>1, <2>2
<1>4. \A u \in Owners : u # o => owner'[u] = owner[u]
  BY <1>1 DEF ManagerTypes, ThreadsOK
<1>5. owner'[o].pc = "request" /\ owner'[o].h = seq + 1
  BY <1>1 DEF ManagerTypes, ThreadsOK
<1>6. Unrequested(h)' => Unrequested(h)
  BY <1>1, <1>2, <1>4, <1>5 DEF Unrequested
<1>7. Open(h)' => Open(h)
  BY <1>4, <1>5 DEF Open
<1>8. h > seq' \/ Listens(h)' => h > seq \/ Listens(h)
  BY <1>1, <1>2, <1>3 DEF Listens
<1> QED BY <1>1, <1>3, <1>6, <1>7, <1>8, StreamsStay DEF Elsewhere

(* The streams change and the channels do not.                             *)
LEMMA OnlyStreams ==
    ASSUME NEW h \in Handles, UNCHANGED <<seq, ch, owner, writer, cl, cw, written, got, sent, read>>,
           Quietly(h, Down, Down'), Quietly(h, Up, Up'),
           peer' = peer \/ (peer'.pc = "use" => ch[peer'.dvc].live)
    PROVE  Elsewhere(h)
<1>1. (Unrequested(h)' => Unrequested(h)) /\ (Open(h)' => Open(h))
  BY DEF Unrequested, Open
<1>2. Listens(h)' => Listens(h)
  BY DEF Listens
<1> QED BY <1>1, <1>2, StreamsStay DEF Elsewhere

(* The peer's thread: the capabilities, the wire and the look up.          *)
LEMMA PeerElsewhere ==
    ASSUME ManagerTypes, NEW h \in Handles,
           ManagerOpen \/ CheckFileDescriptor \/ CapabilitiesResponse \/ LookUp \/ ClientCapabilities
    PROVE  Elsewhere(h)
<1>0. Pdu("CAPS", 0, 0) \in Pdus /\ Pdu("CAPS", 0, 0).id # h
  BY CapsPdu DEF Handles
<1>1. CASE ManagerOpen
  <2>1. UNCHANGED <<seq, ch, owner, writer, cl, cw, written, got, sent, read, toClient, toServer, peer>>
        /\ vq' = Append(vq, Pdu("CAPS", 0, 0))
    BY <1>1, WireUnchanged DEF ManagerOpen
  <2>2. Quietly(h, Down, Down')
    BY <2>1, <1>0, DownAppends DEF Quietly
  <2> QED BY <2>1, <2>2, StreamsStay, OnlyStreams
<1>2. CASE CheckFileDescriptor
  <2>1. UNCHANGED <<seq, ch, owner, writer, cl, cw, written, got, sent, read, toServer, peer>>
        /\ vq # <<>> /\ toClient' = Append(toClient, Head(vq)) /\ vq' = Tail(vq)
    BY <1>2, WireUnchanged DEF CheckFileDescriptor
  <2>2. Quietly(h, Down, Down')
    BY <2>1, DownMoves DEF Quietly
  <2> QED BY <2>1, <2>2, StreamsStay, OnlyStreams
<1>3. CASE CapabilitiesResponse
  <2>1. UNCHANGED <<seq, ch, owner, writer, cl, cw, written, got, sent, read, toClient, vq, peer>>
        /\ peer.pc = "loop" /\ toServer # <<>> /\ toServer' = Tail(toServer)
        /\ Head(toServer) = Pdu("CAPS", 0, 0)
    BY <1>3, WireUnchanged DEF CapabilitiesResponse, Receive, InLoop
  <2>2. Quietly(h, Up, Up')
    BY <2>1, <1>0, UpDrops DEF Quietly
  <2> QED BY <2>1, <2>2, StreamsStay, OnlyStreams
<1>4. CASE LookUp
  <2>1. UNCHANGED <<seq, ch, owner, writer, cl, cw, written, got, sent, read, toClient, vq>>
        /\ peer.pc = "loop" /\ toServer # <<>> /\ toServer' = Tail(toServer)
        /\ \E g \in Named(Head(toServer)) : peer' = [pc |-> "use", pdu |-> Head(toServer), dvc |-> g]
    BY <1>4, WireUnchanged DEF LookUp, Receive, InLoop
  <2>2. peer'.pc = "use" /\ peer'.pdu = Head(toServer) /\ ch[peer'.dvc].live
    BY <2>1 DEF Named
  <2>3. Quietly(h, Up, Up')
    BY <2>1, <2>2, UpLooksUp DEF Quietly
  <2> QED BY <2>1, <2>2, <2>3, StreamsStay, OnlyStreams
<1>5. CASE ClientCapabilities
  <2>1. UNCHANGED <<seq, ch, owner, writer, cl, cw, written, got, sent, read, vq, peer>>
        /\ toClient # <<>> /\ toClient' = Tail(toClient) /\ Head(toClient).cmd = "CAPS"
        /\ toServer' = Append(toServer, Pdu("CAPS", 0, 0))
    BY <1>5, WireUnchanged DEF ClientCapabilities, ClientReceives
  <2>2. Head(toClient).id # h
    BY <2>1, DownTakes, PduIs DEF Handles
  <2>3. Quietly(h, Down, Down')
    BY <2>1, <2>2, DownTakes DEF Quietly
  <2>4. Quietly(h, Up, Up')
    BY <2>1, <1>0, UpAppends DEF Quietly
  <2> QED BY <2>1, <2>3, <2>4, OnlyStreams
<1> QED BY <1>1, <1>2, <1>3, <1>4, <1>5

-----------------------------------------------------------------------------
(***************************************************************************)
(* Virtual channels: the peer's thread, channel by channel.                *)
(***************************************************************************)

(* A PDU of a channel that is not in the table is dropped: the channel has *)
(* been freed, and hears no more.                                          *)
LEMMA UnknownTalks ==
    ASSUME ManagerTypes, IdsOK, UnknownChannel, NEW h \in Handles,
           NEW b \in Places, NEW d \in Places, NEW a \in Places, NEW e \in Places,
           Talk(h, b, d, a, e)
    PROVE  \E c \in Places : Talk(h, b, d, c, e)'
<1> DEFINE x == Head(toServer)
<1>1. UNCHANGED <<drdynvc, seq, ch, vq, owner, writer, peer, up, cl, cw, toClient, written, got, sent, read>>
      /\ peer.pc = "loop" /\ toServer # <<>> /\ toServer' = Tail(toServer)
      /\ x.cmd # "CAPS" /\ (drdynvc # "READY" \/ Named(x) = {})
  BY WireUnchanged DEF UnknownChannel, Receive, InLoop
<1>2. Up # <<>> /\ Head(Up) = x /\ Up' = Tail(Up) /\ x \in Pdus /\ Up \in Seq(Pdus)
  BY <1>1, UpDrops, OnTheWay
<1>3. CASE x.id # h
  <2>1. Quietly(h, Up, Up')
    BY <1>2, <1>3 DEF Quietly
  <2>2. Elsewhere(h)
    BY <1>1, <2>1, StreamsStay, OnlyStreams
  <2> QED BY <2>2, TalkElsewhere
<1>4. CASE x.id = h
  <2>1. PICK c \in Places : Linked(Places, Carries(h, sent[h]), c, Tail(Up), e)
    BY <1>2, LinkedTake DEF Talk
  <2>2. Up[1].id = h /\ 1 \in DOMAIN Up
    BY <1>2, <1>4
  <2>3. b.ph # "none"
    BY <2>2 DEF Talk, ClientAt
  <2>4. ~(h > seq)
    BY <2>3 DEF Talk, ServerAt, Unrequested
  <2>5. h \in Nat /\ seq \in Nat
    BY DEF Handles, ManagerTypes, ThreadsOK
  <2>6. ~ch[h].live
    BY <2>4, <2>5, <1>1, <1>4 DEF IdsOK, Named
  <2>7. ClientAt(h, b)'
    BY <2>3, <1>1 DEF Talk, ClientAt
  <2>8. HeardAt(h, c)'
    BY <2>4, <2>6, <1>1 DEF HeardAt, Listens
  <2>9. ServerAt(h, b, d)'
    BY <1>1 DEF Talk, ServerAt, Unrequested, Open, Down
  <2>10. SaidAt(h, e)'
    BY <1>1, SaidAtStays DEF Talk
  <2>11. Linked(Places, Carries(h, sent[h]), c, Up, e)'
    BY <2>1, <1>1, <1>2
  <2>12. Linked(Places, Carries(h, written[h]), b, Down, d)'
    BY <1>1 DEF Talk, Down
  <2>13. Talk(h, b, d, c, e)'
    BY <2>3, <2>7, <2>8, <2>9, <2>10, <2>11, <2>12 DEF Talk
  <2> QED BY <2>13
<1> QED BY <1>3, <1>4

(* A handler of the peer's thread works on the channel it has looked up,   *)
(* and on no other.                                                        *)
LEMMA HandleIs ==
    ASSUME ManagerTypes, NEW cmds, NEW rec, NEW keep, Handle(cmds, rec, keep)
    PROVE  /\ UNCHANGED <<drdynvc, seq, vq, owner, writer, cl, cw, toClient, toServer, written, got, sent, read>>
           /\ peer.pc = "use" /\ peer' = Idle /\ up' = keep /\ peer.pdu.cmd \in cmds
           /\ ch'[peer.dvc] = rec /\ \A h \in Handles : h # peer.dvc => ch'[h] = ch[h]
           /\ Up # <<>> /\ Head(Up) = peer.pdu /\ Up' = Tail(Up) /\ Up \in Seq(Pdus)
           /\ peer.pdu \in Pdus /\ peer.dvc \in Handles /\ peer.pdu.id = peer.dvc
           /\ ch' = [ch EXCEPT ![peer.dvc] = rec]
<1>1. UNCHANGED <<drdynvc, seq, vq, owner, writer, cl, cw, toClient, toServer, written, got, sent, read>>
      /\ peer.pc = "use" /\ peer' = Idle /\ up' = keep /\ peer.pdu.cmd \in cmds
      /\ ch' = [ch EXCEPT ![peer.dvc] = rec]
  BY WireUnchanged DEF Handle, InUse
<1>2. /\ Up # <<>> /\ Head(Up) = peer.pdu /\ Up' = Tail(Up) /\ Up \in Seq(Pdus)
      /\ peer.pdu \in Pdus /\ peer.dvc \in Handles /\ peer.pdu.id = peer.dvc
  BY <1>1, UpHandled, OnTheWay
<1>3. ch'[peer.dvc] = rec /\ \A h \in Handles : h # peer.dvc => ch'[h] = ch[h]
  BY <1>1, <1>2 DEF ManagerTypes, ChannelsOK
<1> QED BY <1>1, <1>2, <1>3

(* The other channels are left alone.                                      *)
LEMMA HandleElsewhere ==
    ASSUME ManagerTypes, NEW cmds, NEW rec, NEW keep, Handle(cmds, rec, keep),
           NEW h \in Handles, h # peer.dvc
    PROVE  Elsewhere(h)
<1>1. /\ UNCHANGED <<drdynvc, seq, vq, owner, writer, cl, cw, toClient, toServer, written, got, sent, read>>
      /\ peer.pc = "use" /\ peer' = Idle /\ ch'[h] = ch[h]
      /\ Up # <<>> /\ Head(Up) = peer.pdu /\ Up' = Tail(Up) /\ peer.pdu.id = peer.dvc
  BY HandleIs
<1>2. Quietly(h, Up, Up')
  BY <1>1 DEF Quietly
<1>3. (Unrequested(h)' => Unrequested(h)) /\ (Open(h)' => Open(h))
  BY <1>1 DEF Unrequested, Open
<1>4. peer'.pc # "use"
  BY <1>1 DEF Idle
<1>5. Listens(h)' => Listens(h)
  BY <1>1, <1>4 DEF Listens
<1> QED BY <1>1, <1>2, <1>3, <1>5, StreamsStay DEF Elsewhere

(* What is left to show of a handler: where the channel is in what it      *)
(* hears.                                                                  *)
LEMMA HandleTalks ==
    ASSUME ManagerTypes, NEW cmds, NEW rec, NEW keep, Handle(cmds, rec, keep),
           NEW h \in Handles, h = peer.dvc,
           NEW b \in Places, NEW d \in Places, NEW a \in Places, NEW e \in Places,
           Talk(h, b, d, a, e),
           \A c \in Places : Leads(h, sent[h], a, peer.pdu, c) => HeardAt(h, c)'
    PROVE  \E c \in Places : Leads(h, sent[h], a, peer.pdu, c) /\ Talk(h, b, d, c, e)'
<1>1. /\ UNCHANGED <<drdynvc, seq, vq, owner, writer, cl, cw, toClient, toServer, written, got, sent, read>>
      /\ peer.pc = "use" /\ peer' = Idle
      /\ Up # <<>> /\ Head(Up) = peer.pdu /\ Up' = Tail(Up) /\ peer.pdu.id = peer.dvc
      /\ Up \in Seq(Pdus) /\ peer.pdu \in Pdus
  BY HandleIs
<1>2. PICK c \in Places : /\ <<a, Head(Up), c>> \in Carries(h, sent[h])
                          /\ Linked(Places, Carries(h, sent[h]), c, Tail(Up), e)
  BY <1>1, LinkedTake DEF Talk
<1>3. HeardAt(h, c)'
  BY <1>1, <1>2, CarriesIs
<1>4. Up[1].id = h /\ 1 \in DOMAIN Up
  BY <1>1
<1>5. b.ph # "none"
  BY <1>4 DEF Talk, ClientAt
<1>6. ClientAt(h, b)'
  BY <1>5, <1>1 DEF Talk, ClientAt
<1>7. ServerAt(h, b, d)'
  BY <1>1 DEF Talk, ServerAt, Unrequested, Open, Down
<1>8. SaidAt(h, e)'
  BY <1>1, SaidAtStays DEF Talk
<1>9. Linked(Places, Carries(h, sent[h]), c, Up, e)'
  BY <1>1, <1>2
<1>10. Linked(Places, Carries(h, written[h]), b, Down, d)'
  BY <1>1 DEF Talk, Down
<1>11. Talk(h, b, d, c, e)'
  BY <1>3, <1>5, <1>6, <1>7, <1>8, <1>9, <1>10 DEF Talk
<1>12. Leads(h, sent[h], a, peer.pdu, c)
  BY <1>1, <1>2, CarriesIs
<1> QED BY <1>11, <1>12

(* The fields of a channel.                                                *)
LEMMA ChannelIs ==
    ASSUME ManagerTypes, NEW h \in Handles
    PROVE  /\ ch[h] \in Channels /\ ch[h].open \in OpenStates /\ ch[h].total \in 0 .. MaxLen
           /\ ch[h].total \in Nat /\ ch[h].closedIn \in OpenStates /\ ch[h].live \in BOOLEAN
           /\ ch[h].buf \in Seq(Chunks) /\ ch[h].q \in Seq(Seq(Chunks))
           /\ read[h] \in Seq(Seq(Chunks)) /\ got[h] \in Seq(Seq(Chunks))
           /\ sent[h] \in Seq(Writes) /\ written[h] \in Seq(Writes)
           /\ read[h] \o ch[h].q \in Seq(Seq(Chunks))
<1>1. ch[h] \in Channels
  BY DEF ManagerTypes, ChannelsOK
<1>2. /\ read[h] \in Seq(Seq(Chunks)) /\ got[h] \in Seq(Seq(Chunks))
      /\ sent[h] \in Seq(Writes) /\ written[h] \in Seq(Writes)
  BY DEF ManagerTypes, GhostsOK
<1>3. ch[h].q \in Seq(Seq(Chunks))
  BY <1>1 DEF Channels
<1>4. read[h] \o ch[h].q \in Seq(Seq(Chunks))
  BY <1>2, <1>3
<1> QED BY <1>1, <1>2, <1>3, <1>4 DEF Channels

(* The channel in use listens.                                             *)
LEMMA InUseListens ==
    ASSUME NEW h \in Handles, NEW a \in Places, peer.pc = "use", peer.dvc = h, HeardAt(h, a)
    PROVE  /\ ch[h].open = "NONE" => a.ph = "none" /\ read[h] \o ch[h].q = <<>> /\ ch[h].total = 0
           /\ ch[h].open = "SUCCEEDED" =>
                a.ph = "open" /\ Partial(sent[h], ch[h].total, ch[h].buf, read[h] \o ch[h].q, a)
           /\ ch[h].open \in {"FAILED", "CLOSED"} => a.ph = "shut"
  BY DEF HeardAt, Listens

(* wts_read_drdynvc_create_response: the channel is open, or shut.         *)
LEMMA CreateResponseTalks ==
    ASSUME ManagerTypes, CreateResponse, NEW h \in Handles, h = peer.dvc,
           NEW b \in Places, NEW d \in Places, NEW a \in Places, NEW e \in Places,
           Talk(h, b, d, a, e)
    PROVE  \E c \in Places : Talk(h, b, d, c, e)'
<1> DEFINE rec == [ch[peer.dvc] EXCEPT !.open = IF peer.pdu.cmd = "CREATED" THEN "SUCCEEDED" ELSE "FAILED"]
<1>1. Handle({"CREATED", "REFUSED"}, rec, TRUE)
  BY DEF CreateResponse
<1> HIDE DEF rec
<1>2. /\ UNCHANGED <<seq, sent, read>> /\ peer.pc = "use" /\ ch'[h] = rec
      /\ peer.pdu \in Pdus /\ peer.pdu.id = h /\ peer.pdu.cmd \in {"CREATED", "REFUSED"}
  BY <1>1, HandleIs
<1>3. /\ ch'[h].open = (IF peer.pdu.cmd = "CREATED" THEN "SUCCEEDED" ELSE "FAILED")
      /\ ch'[h].total = ch[h].total /\ ch'[h].buf = ch[h].buf /\ ch'[h].q = ch[h].q
  BY <1>2, ChannelIs DEF rec, Channels
<1>4. HeardAt(h, a)
  BY DEF Talk
<1>5. ASSUME NEW c \in Places, Leads(h, sent[h], a, peer.pdu, c) PROVE HeardAt(h, c)'
  <2>1. CASE peer.pdu.cmd = "CREATED"
    <3>1. a.ph = "none" /\ c = Place("open", 0, 0)
      BY <2>1, <1>2, <1>5 DEF Leads, DataCmds
    <3>2. ch[h].open = "NONE"
      BY <3>1, <1>2, <1>4, InUseListens, ChannelIs DEF OpenStates
    <3>3. read[h] \o ch[h].q = <<>> /\ ch[h].total = 0
      BY <3>2, <1>2, <1>4, InUseListens
    <3>4. c.ph = "open" /\ c.m = 0 /\ c.i = 0
      BY <3>1, PlaceIs
    <3>5. Len(sent[h]) \in Nat
      BY ChannelIs
    <3>6. Partial(sent[h], 0, ch[h].buf, <<>>, c)
      BY <3>4, <3>5 DEF Partial, Prefix
    <3> QED BY <1>2, <1>3, <2>1, <3>3, <3>4, <3>6 DEF HeardAt
  <2>2. CASE peer.pdu.cmd = "REFUSED"
    <3>1. c = Place("shut", 0, 0)
      BY <2>2, <1>2, <1>5 DEF Leads, DataCmds
    <3>2. c.ph = "shut" /\ ch'[h].open = "FAILED"
      BY <3>1, <2>2, <1>3, PlaceIs
    <3> QED BY <3>2 DEF HeardAt
  <2> QED BY <2>1, <2>2, <1>2
<1> QED BY <1>1, <1>5, HandleTalks

(* A data PDU of a channel that is not open: it is shut.                   *)
LEMMA DataIgnoredTalks ==
    ASSUME ManagerTypes, DataIgnored, NEW h \in Handles, h = peer.dvc,
           NEW b \in Places, NEW d \in Places, NEW a \in Places, NEW e \in Places,
           Talk(h, b, d, a, e)
    PROVE  \E c \in Places : Talk(h, b, d, c, e)'
<1>1. Handle({"DATA_FIRST", "DATA"}, ch[peer.dvc], TRUE) /\ ch[h].open # "SUCCEEDED"
  BY DEF DataIgnored
<1>2. /\ UNCHANGED <<seq, sent, read>> /\ peer.pc = "use" /\ ch'[h] = ch[h]
      /\ peer.pdu \in Pdus /\ peer.pdu.id = h /\ peer.pdu.cmd \in {"DATA_FIRST", "DATA"}
  BY <1>1, HandleIs
<1>3. HeardAt(h, a)
  BY DEF Talk
<1>4. ASSUME NEW c \in Places, Leads(h, sent[h], a, peer.pdu, c) PROVE HeardAt(h, c)'
  <2>1. a.ph # "none"
    BY <1>2, <1>4 DEF Leads
  <2>2. ch[h].open \in {"FAILED", "CLOSED"} /\ a.ph = "shut"
    BY <2>1, <1>1, <1>2, <1>3, InUseListens, ChannelIs DEF OpenStates
  <2>3. c = a
    BY <2>2, <1>2, <1>4 DEF Leads
  <2> QED BY <2>2, <2>3, <1>2 DEF HeardAt
<1> QED BY <1>1, <1>4, HandleTalks

(* wts_read_drdynvc_data_first: a message begins.                          *)
LEMMA DataFirstTalks ==
    ASSUME ManagerTypes, DataFirst, NEW h \in Handles, h = peer.dvc,
           NEW b \in Places, NEW d \in Places, NEW a \in Places, NEW e \in Places,
           Talk(h, b, d, a, e)
    PROVE  \E c \in Places : Talk(h, b, d, c, e)'
<1> DEFINE rec == [ch[peer.dvc] EXCEPT !.total = peer.pdu.total, !.buf = <<peer.pdu.chunk>>]
<1>0. Handle({"DATA_FIRST"}, rec, TRUE) /\ ch[peer.dvc].open = "SUCCEEDED"
  BY Zenon DEF DataFirst
<1> HIDE DEF rec
<1>1. Handle({"DATA_FIRST"}, rec, TRUE) /\ ch[h].open = "SUCCEEDED"
  BY <1>0
<1> HIDE DEF rec
<1>2. /\ UNCHANGED <<seq, sent, read>> /\ peer.pc = "use" /\ ch'[h] = rec
      /\ peer.pdu \in Pdus /\ peer.pdu.id = h /\ peer.pdu.cmd = "DATA_FIRST"
  <2>1. peer.pdu.cmd \in {"DATA_FIRST"} /\ peer.pc = "use" /\ ch'[peer.dvc] = rec
    BY <1>1, HandleIs, Zenon
  <2> QED BY <1>1, <2>1, HandleIs
<1>3. /\ ch'[h].open = "SUCCEEDED" /\ ch'[h].total = peer.pdu.total
      /\ ch'[h].buf = <<peer.pdu.chunk>> /\ ch'[h].q = ch[h].q
  BY <1>1, <1>2, ChannelIs DEF rec, Channels
<1>4. a.ph = "open" /\ Partial(sent[h], ch[h].total, ch[h].buf, read[h] \o ch[h].q, a)
  BY <1>1, <1>2, InUseListens DEF Talk
<1>5. ASSUME NEW c \in Places, Leads(h, sent[h], a, peer.pdu, c) PROVE HeardAt(h, c)'
  <2>1. c.ph = "open" /\ Partial(sent[h], peer.pdu.total, <<peer.pdu.chunk>>, read[h] \o ch[h].q, c)
    <3>1. peer.pdu.cmd \in DataCmds
      BY <1>2 DEF DataCmds
    <3>2. /\ sent[h] \in Seq(Writes) /\ ch[h].total \in Nat /\ ch[h].buf \in Seq(Chunks)
          /\ read[h] \o ch[h].q \in Seq(Seq(Chunks))
      BY ChannelIs
    <3>3. PICK msgs \in Seq(Writes), len \in Nat, data \in Seq(Chunks), done \in Seq(Seq(Chunks)) :
            msgs = sent[h] /\ len = ch[h].total /\ data = ch[h].buf /\ done = read[h] \o ch[h].q
      BY <3>2
    <3>4. PICK x \in Pdus : x = peer.pdu
      BY <1>2
    <3>5. x.id = h /\ x.cmd \in DataCmds /\ Leads(h, msgs, a, x, c) /\ Partial(msgs, len, data, done, a)
      BY <3>1, <3>3, <3>4, <1>2, <1>4, <1>5
    <3>6. c.ph = "open" /\ (x.cmd = "DATA_FIRST" => Partial(msgs, x.total, <<x.chunk>>, done, c))
      BY <3>5, <1>4, Reads
    <3> QED BY <3>3, <3>4, <3>6, <1>2
  <2> QED BY <2>1, <1>2, <1>3 DEF HeardAt
<1> QED BY <1>1, <1>5, HandleTalks

(* wts_read_drdynvc_close_response: the channel is shut.                   *)
LEMMA CloseResponseTalks ==
    ASSUME ManagerTypes, CloseResponse, NEW h \in Handles, h = peer.dvc,
           NEW b \in Places, NEW d \in Places, NEW a \in Places, NEW e \in Places,
           Talk(h, b, d, a, e)
    PROVE  /\ \E c \in Places : Talk(h, b, d, c, e)'
           /\ ch[h].open = "SUCCEEDED"
<1> DEFINE rec == [ch[peer.dvc] EXCEPT !.open = "CLOSED", !.q = Append(@, Quit)]
<1>1. Handle({"CLOSE"}, rec, TRUE)
  BY Zenon DEF CloseResponse
<1> HIDE DEF rec
<1>2. /\ UNCHANGED <<seq, sent, read>> /\ peer.pc = "use" /\ ch'[h] = rec
      /\ peer.pdu \in Pdus /\ peer.pdu.id = h /\ peer.pdu.cmd = "CLOSE"
      /\ Up # <<>> /\ Head(Up) = peer.pdu /\ Up \in Seq(Pdus)
  <2>1. peer.pdu.cmd \in {"CLOSE"} /\ peer.pc = "use" /\ ch'[peer.dvc] = rec
    BY <1>1, HandleIs, Zenon
  <2> QED BY <1>1, <2>1, HandleIs
<1>3. ch'[h].open = "CLOSED"
  BY <1>1, <1>2, ChannelIs DEF rec, Channels
<1>4. ASSUME NEW c \in Places, Leads(h, sent[h], a, peer.pdu, c)
      PROVE  HeardAt(h, c)' /\ a.ph = "open"
  <2>1. a.ph = "open" /\ c = Place("shut", 0, 0)
    BY <1>2, <1>4 DEF Leads, DataCmds
  <2>2. c.ph = "shut"
    BY <2>1, PlaceIs
  <2> QED BY <2>1, <2>2, <1>3 DEF HeardAt
<1>5. PICK c \in Places : <<a, Head(Up), c>> \in Carries(h, sent[h])
  BY <1>2, LinkedTake DEF Talk
<1>6. a.ph = "open"
  BY <1>2, <1>4, <1>5, CarriesIs
<1>7. ch[h].open = "SUCCEEDED"
  BY <1>2, <1>6, InUseListens, ChannelIs DEF OpenStates, Talk
<1>8. \E f \in Places : Talk(h, b, d, f, e)'
  BY <1>1, <1>4, HandleTalks
<1> QED BY <1>7, <1>8

(* wts_read_drdynvc_data: no more arrives than was announced, so it does   *)
(* not fail, and a message is queued when it is complete.                  *)
LEMMA DataIs ==
    ASSUME ManagerTypes, Data, NEW h \in Handles, h = peer.dvc
    PROVE  /\ \E rec \in Channels : Handle({"DATA"}, rec, TRUE)
           /\ peer.pdu.cmd = "DATA" /\ ch[h].open = "SUCCEEDED" /\ ch'[h] \in Channels
           /\ ch'[h].open = "SUCCEEDED" /\ ch'[h].closedIn = ch[h].closedIn /\ ch'[h].live = ch[h].live
           /\ ch'[h].id = ch[h].id /\ ch'[h].lock = ch[h].lock
           /\ ch[h].total = 0 =>
                /\ ch'[h].total = 0 /\ ch'[h].buf = <<>>
                /\ ch'[h].q = Append(ch[h].q, <<peer.pdu.chunk>>)
           /\ ch[h].total > 0 => Len(ch[h].buf) + 1 <= ch[h].total
           /\ ch[h].total > 0 /\ Len(ch[h].buf) + 1 = ch[h].total =>
                /\ ch'[h].total = 0 /\ ch'[h].buf = <<>>
                /\ ch'[h].q = Append(ch[h].q, Append(ch[h].buf, peer.pdu.chunk))
           /\ ch[h].total > 0 /\ Len(ch[h].buf) + 1 < ch[h].total =>
                /\ ch'[h].total = ch[h].total /\ ch'[h].q = ch[h].q
                /\ ch'[h].buf = Append(ch[h].buf, peer.pdu.chunk)
<1> DEFINE all == Reassembled(ch[peer.dvc])
           done == [ch[peer.dvc] EXCEPT !.q = Append(@, all), !.total = 0, !.buf = <<>>]
           more == [ch[peer.dvc] EXCEPT !.buf = all]
<1>1. /\ InUse /\ ch[peer.dvc].open = "SUCCEEDED"
      /\ IF ch[peer.dvc].total > 0 /\ Len(all) > ch[peer.dvc].total
           THEN Handle({"DATA"}, [ch[peer.dvc] EXCEPT !.total = 0], FALSE)
           ELSE Handle({"DATA"}, IF Completes(ch[peer.dvc]) THEN done ELSE more, TRUE)
  BY Zenon DEF Data
<1>2. peer \in [pc : {"use"}, pdu : Pdus, dvc : Handles]
  BY <1>1 DEF InUse, ManagerTypes, ThreadsOK, Idle
<1>3. peer.pdu \in Pdus /\ peer.pdu.chunk \in Chunks
  BY <1>2, PduIs
<1>4. /\ ch[h] \in Channels /\ ch[h].total \in 0 .. MaxLen /\ ch[h].buf \in Seq(Chunks)
      /\ ch[h].q \in Seq(Seq(Chunks)) /\ ch[h].total \in Nat
      /\ (Len(ch[h].buf) < ch[h].total \/ ch[h].buf = <<>>)
  BY ChannelIs DEF ManagerTypes, ChannelsOK
<1>5. all = (IF ch[h].total > 0 THEN Append(ch[h].buf, peer.pdu.chunk) ELSE <<peer.pdu.chunk>>)
  BY DEF Reassembled
<1>6. all \in Seq(Chunks) /\ Len(all) = (IF ch[h].total > 0 THEN Len(ch[h].buf) + 1 ELSE 1)
  BY <1>3, <1>4, <1>5
<1> HIDE DEF all
<1>7. PICK n \in Nat : n = Len(ch[h].buf)
  BY <1>4
<1>8. ch[h].total > 0 => n + 1 <= ch[h].total
  BY <1>4, <1>7
<1>9. Completes(ch[peer.dvc]) <=> (ch[h].total > 0 => n + 1 = ch[h].total)
  BY <1>4, <1>6, <1>7, <1>8 DEF Completes, all
<1>10. ~(ch[peer.dvc].total > 0 /\ Len(all) > ch[peer.dvc].total)
  BY <1>4, <1>6, <1>7, <1>8
<1> DEFINE rec == IF Completes(ch[peer.dvc]) THEN done ELSE more
<1>11. Handle({"DATA"}, rec, TRUE)
  BY <1>1, <1>10, Zenon
<1>12. 0 \in 0 .. MaxLen /\ Append(ch[h].q, all) \in Seq(Seq(Chunks)) /\ <<>> \in Seq(Chunks)
  BY <1>4, <1>6, ManagerAssumption
<1>13. /\ done \in Channels /\ more \in Channels
       /\ done.open = ch[h].open /\ done.closedIn = ch[h].closedIn /\ done.live = ch[h].live
       /\ done.id = ch[h].id /\ done.lock = ch[h].lock /\ done.total = 0 /\ done.buf = <<>>
       /\ done.q = Append(ch[h].q, all)
       /\ more.open = ch[h].open /\ more.closedIn = ch[h].closedIn /\ more.live = ch[h].live
       /\ more.id = ch[h].id /\ more.lock = ch[h].lock /\ more.total = ch[h].total /\ more.buf = all
       /\ more.q = ch[h].q
  BY <1>4, <1>6, <1>12 DEF Channels
<1> HIDE DEF done, more
<1>14. rec \in Channels
  BY <1>13
<1>15. Completes(ch[peer.dvc]) => rec = done
  OBVIOUS
<1>16. ~Completes(ch[peer.dvc]) => rec = more
  OBVIOUS
<1> HIDE DEF rec
<1>17. peer.pdu.cmd \in {"DATA"} /\ ch'[peer.dvc] = rec
  BY <1>11, HandleIs, Zenon
<1>20. \E r \in Channels : Handle({"DATA"}, r, TRUE)
  BY <1>11, <1>14
<1>21. peer.pdu.cmd = "DATA" /\ (ch[h].total > 0 => Len(ch[h].buf) + 1 <= ch[h].total)
  BY <1>7, <1>8, <1>17
<1>18. CASE Completes(ch[peer.dvc])
  <2>1. ch'[h] = done
    BY <1>15, <1>17, <1>18
  <2>2. ch[h].total > 0 => n + 1 = ch[h].total
    BY <1>9, <1>18
  <2>3. ch[h].open = "SUCCEEDED"
    BY <1>1
  <2>4. ch[h].total = 0 => all = <<peer.pdu.chunk>>
    BY <1>5
  <2>5. ch[h].total > 0 => all = Append(ch[h].buf, peer.pdu.chunk)
    BY <1>5
  <2>6. ch[h].total > 0 => ~(n + 1 < ch[h].total)
    BY <2>2, <1>4
  <2> QED BY <2>1, <2>2, <2>3, <2>4, <2>5, <2>6, <1>7, <1>13, <1>20, <1>21
<1>19. CASE ~Completes(ch[peer.dvc])
  <2>1. ch'[h] = more
    BY <1>16, <1>17, <1>19
  <2>2. ch[h].total > 0 /\ n + 1 < ch[h].total
    BY <1>4, <1>8, <1>9, <1>19
  <2>3. ch[h].open = "SUCCEEDED"
    BY <1>1
  <2>4. all = Append(ch[h].buf, peer.pdu.chunk)
    BY <1>5, <2>2
  <2>5. ch[h].total # 0 /\ n + 1 # ch[h].total
    BY <2>2, <1>4
  <2> QED BY <2>1, <2>2, <2>3, <2>4, <2>5, <1>7, <1>13, <1>20, <1>21
<1> QED BY <1>18, <1>19

(* A message is queued behind those that were read and those that wait.    *)
LEMMA QueueAppend ==
    ASSUME NEW q \in Seq(Seq(Chunks)), NEW r \in Seq(Seq(Chunks)), NEW x \in Seq(Chunks)
    PROVE  q \o Append(r, x) = Append(q \o r, x)
<1>1. PICK S : S = Seq(Chunks)
  OBVIOUS
<1>2. q \in Seq(S) /\ r \in Seq(S) /\ x \in S
  BY <1>1
<1> QED BY <1>2, JoinedAppend

(* And what was announced is what was written.                             *)
LEMMA DataTalks ==
    ASSUME ManagerTypes, Data, NEW h \in Handles, h = peer.dvc,
           NEW b \in Places, NEW d \in Places, NEW a \in Places, NEW e \in Places,
           Talk(h, b, d, a, e)
    PROVE  \E c \in Places : /\ Talk(h, b, d, c, e)'
                             /\ Partial(sent[h], ch'[h].total, ch'[h].buf, read[h] \o ch'[h].q, c)
<1>1. PICK rec \in Channels : Handle({"DATA"}, rec, TRUE)
  BY DataIs
<1>2. /\ UNCHANGED <<seq, sent, read>> /\ peer.pc = "use" /\ peer.pdu \in Pdus /\ peer.pdu.id = h
      /\ Up # <<>> /\ Head(Up) = peer.pdu /\ Up' = Tail(Up) /\ Up \in Seq(Pdus)
  BY <1>1, HandleIs
<1>3. peer.pdu.cmd = "DATA" /\ peer.pdu.cmd \in DataCmds /\ ch[h].open = "SUCCEEDED" /\ ch'[h].open = "SUCCEEDED"
  BY DataIs DEF DataCmds
<1>4. a.ph = "open" /\ Partial(sent[h], ch[h].total, ch[h].buf, read[h] \o ch[h].q, a)
  BY <1>2, <1>3, InUseListens DEF Talk
<1>5. /\ sent[h] \in Seq(Writes) /\ ch[h].total \in Nat /\ ch[h].buf \in Seq(Chunks)
      /\ read[h] \o ch[h].q \in Seq(Seq(Chunks)) /\ read[h] \in Seq(Seq(Chunks)) /\ ch[h].q \in Seq(Seq(Chunks))
  BY ChannelIs
<1>6. PICK msgs \in Seq(Writes), len \in Nat, data \in Seq(Chunks), done \in Seq(Seq(Chunks)), x \in Pdus :
        /\ msgs = sent[h] /\ len = ch[h].total /\ data = ch[h].buf /\ done = read[h] \o ch[h].q
        /\ x = peer.pdu
  BY <1>2, <1>5
<1>7. x.id = h /\ x.cmd = "DATA" /\ x.cmd \in DataCmds /\ Partial(msgs, len, data, done, a)
  BY <1>2, <1>3, <1>4, <1>6
<1>8. ASSUME NEW c \in Places, Leads(h, sent[h], a, peer.pdu, c)
      PROVE  /\ HeardAt(h, c)'
             /\ Partial(sent[h], ch'[h].total, ch'[h].buf, read[h] \o ch'[h].q, c)
  <2>1. Leads(h, msgs, a, x, c)
    BY <1>6, <1>8
  <2>2. /\ c.ph = "open"
        /\ len = 0 => Partial(msgs, 0, <<>>, Append(done, <<x.chunk>>), c)
        /\ len > 0 =>
             /\ Len(data) + 1 = len => Partial(msgs, 0, <<>>, Append(done, Append(data, x.chunk)), c)
             /\ Len(data) + 1 < len => Partial(msgs, len, Append(data, x.chunk), done, c)
    BY <2>1, <1>4, <1>7, Reads
  <2>3. x.chunk \in Chunks
    BY PduIs
  <2>4. Partial(sent[h], ch'[h].total, ch'[h].buf, read[h] \o ch'[h].q, c)
    <3>1. CASE len = 0
      <4>1. ch'[h].total = 0 /\ ch'[h].buf = <<>> /\ ch'[h].q = Append(ch[h].q, <<x.chunk>>)
        BY <3>1, <1>6, DataIs
      <4>2. <<x.chunk>> \in Seq(Chunks)
        BY <2>3
      <4>3. read[h] \o Append(ch[h].q, <<x.chunk>>) = Append(done, <<x.chunk>>)
        <5>1. read[h] \o Append(ch[h].q, <<x.chunk>>) = Append(read[h] \o ch[h].q, <<x.chunk>>)
          BY <4>2, <1>5, QueueAppend, ZenonT(40)
        <5> QED BY <5>1, <1>6, Zenon
      <4> QED BY <3>1, <4>1, <4>3, <2>2, <1>6
    <3>2. CASE len > 0 /\ Len(data) + 1 = len
      <4>1. ch'[h].total = 0 /\ ch'[h].buf = <<>> /\ ch'[h].q = Append(ch[h].q, Append(data, x.chunk))
        BY <3>2, <1>6, DataIs
      <4>2. Append(data, x.chunk) \in Seq(Chunks)
        BY <2>3
      <4>3. read[h] \o Append(ch[h].q, Append(data, x.chunk)) = Append(done, Append(data, x.chunk))
        <5>1. PICK all \in Seq(Chunks) : all = Append(data, x.chunk)
          BY <4>2
        <5>2. read[h] \o Append(ch[h].q, all) = Append(read[h] \o ch[h].q, all)
          BY <1>5, QueueAppend, ZenonT(40)
        <5> QED BY <5>1, <5>2, <1>6, Zenon
      <4> QED BY <3>2, <4>1, <4>3, <2>2, <1>6
    <3>3. CASE len > 0 /\ Len(data) + 1 < len
      <4>1. ch'[h].total = len /\ ch'[h].buf = Append(data, x.chunk) /\ ch'[h].q = ch[h].q
        BY <3>3, <1>6, DataIs
      <4> QED BY <3>3, <4>1, <2>2, <1>6
    <3>4. len > 0 => Len(data) + 1 <= len
      BY <1>6, DataIs
    <3>5. PICK n \in Nat : n = Len(data)
      OBVIOUS
    <3>7. len > 0 => n + 1 <= len
      BY <3>4, <3>5
    <3>6. len = 0 \/ (len > 0 /\ n + 1 = len) \/ (len > 0 /\ n + 1 < len)
      BY <3>7
    <3> QED BY <3>1, <3>2, <3>3, <3>5, <3>6
  <2>5. HeardAt(h, c)'
    BY <2>2, <2>4, <1>2, <1>3 DEF HeardAt
  <2> QED BY <2>4, <2>5
<1>9. PICK c \in Places : Leads(h, sent[h], a, peer.pdu, c) /\ Talk(h, b, d, c, e)'
  <2>1. \A c \in Places : Leads(h, sent[h], a, peer.pdu, c) => HeardAt(h, c)'
    BY <1>8
  <2> QED BY <2>1, <1>1, HandleTalks
<1>10. Partial(sent[h], ch'[h].total, ch'[h].buf, read[h] \o ch'[h].q, c)
  BY <1>8, <1>9
<1> QED BY <1>9, <1>10

-----------------------------------------------------------------------------
(***************************************************************************)
(* Virtual channels: the serving and the writing threads, channel by       *)
(* channel.                                                                *)
(***************************************************************************)

(* The channel that a thread serves: it is in the table, and no other      *)
(* thread serves it.                                                       *)
LEMMA ServedIs ==
    ASSUME ManagerTypes, IdsOK, OwnersOK, NEW o \in Owners, owner[o].pc \in Serving
    PROVE  /\ owner[o].h \in Handles /\ owner[o].h \in Nat /\ owner[o].h <= seq /\ owner[o].h # 0
           /\ ch[owner[o].h].id = owner[o].h /\ ch[owner[o].h].live
           /\ \A u \in Owners : owner[u].pc \in Serving /\ owner[u].h = owner[o].h => u = o
<1>1. owner[o].h \in 1 .. seq /\ ch[owner[o].h].live
  BY DEF OwnersOK
<1>2. seq \in 0 .. MaxOpen /\ MaxOpen \in Nat
  BY ManagerAssumption DEF ManagerTypes, ThreadsOK
<1>3. owner[o].h \in Handles /\ owner[o].h \in Nat /\ owner[o].h <= seq /\ owner[o].h # 0
  BY <1>1, <1>2 DEF Handles
<1>4. ch[owner[o].h].id = owner[o].h
  BY <1>3 DEF IdsOK
<1> QED BY <1>1, <1>3, <1>4 DEF OwnersOK

(* A create request goes into the manager's queue.                         *)
LEMMA OpenRequestTalks ==
    ASSUME ManagerTypes, IdsOK, OwnersOK, WritersOK, NEW o \in Owners, OpenRequest(o), NEW h \in Handles,
           NEW b \in Places, NEW d \in Places, NEW a \in Places, NEW e \in Places,
           Talk(h, b, d, a, e)
    PROVE  \E c \in Places : Talk(h, b, c, a, e)'
<1> DEFINE g == owner[o].h
           x == Pdu("CREATE", g, g)
<1>1. owner[o].pc = "request" /\ owner[o].pc \in Serving
  BY DEF OpenRequest, At, Serving
<1>2. /\ g \in Handles /\ g \in Nat /\ g <= seq /\ g # 0 /\ ch[g].id = g
      /\ \A u \in Owners : owner[u].pc \in Serving /\ owner[u].h = g => u = o
  BY <1>1, ServedIs
<1>3. /\ UNCHANGED <<drdynvc, seq, ch, writer, peer, up, cl, cw, toClient, toServer, written, got, sent, read>>
      /\ Go(o, "wait") /\ vq' = Append(vq, x)
  BY <1>2, WireUnchanged DEF OpenRequest
<1>4. x \in Pdus /\ x.id = g /\ x.cmd = "CREATE"
  BY <1>2, NewPdu
<1>5. Down' = Append(Down, x) /\ Down \in Seq(Pdus)
  BY <1>3, <1>4, DownAppends, OnTheWay
<1>6. owner'[o].pc = "wait" /\ \A u \in Owners : owner'[u].h = owner[u].h /\ (u # o => owner'[u].pc = owner[u].pc)
  BY <1>3, OwnerGoes DEF OwnerPcs
<1> HIDE DEF x
<1>7. Unrequested(h)' => Unrequested(h)
  BY <1>3, <1>6 DEF Unrequested
<1>8. CASE h # g
  <2>1. Quietly(h, Down, Down') /\ Quietly(h, Up, Up')
    BY <1>3, <1>4, <1>5, <1>8, StreamsStay DEF Quietly
  <2>2. Open(h)' => Open(h)
    BY <1>6, <1>8 DEF Open
  <2>3. Listens(h)' => Listens(h)
    BY <1>3 DEF Listens
  <2>4. Elsewhere(h)
    BY <1>3, <1>7, <2>1, <2>2, <2>3, StreamsStay DEF Elsewhere
  <2> QED BY <2>4, TalkElsewhere
<1>9. CASE h = g
  <2>1. Unrequested(h)
    BY <1>1, <1>9 DEF Unrequested
  <2>2. d.ph = "none" /\ b.ph = "none" /\ written[h] = <<>>
    BY <2>1 DEF Talk, ServerAt
  <2> DEFINE c == Place("open", 0, 0)
  <2>3. c \in Places /\ c.ph = "open" /\ c.m = 0 /\ c.i = 0
    BY PlaceIs
  <2>4. <<d, x, c>> \in Carries(h, written[h])
    BY <2>2, <2>3, <1>4, <1>9, CarriesIs, ZenonT(40) DEF Leads
  <2> HIDE DEF c
  <2>5. Linked(Places, Carries(h, written[h]), b, Append(Down, x), c)
    BY <2>3, <2>4, <1>5, LinkedAppend DEF Talk
  <2>6. ~Unrequested(h)'
    <3>1. ~(h > seq')
      BY <1>2, <1>3, <1>9 DEF ManagerTypes, ThreadsOK
    <3>2. ASSUME NEW u \in Owners, owner'[u].pc = "request", owner'[u].h = h PROVE FALSE
      <4>1. owner[u].pc \in Serving /\ owner[u].h = g /\ u # o
        BY <3>2, <1>6, <1>9 DEF Serving
      <4> QED BY <4>1, <1>2
    <3> QED BY <3>1, <3>2 DEF Unrequested
  <2>7. \A w \in Writers : writer'[w].h # h
    <3>1. ASSUME NEW w \in Writers, writer[w].h = h PROVE FALSE
      <4>1. PICK u \in Owners : owner[u].pc \in {"read", "close"} /\ owner[u].h = writer[w].h
        BY <3>1, <1>2, <1>9 DEF WritersOK
      <4>2. owner[u].pc \in Serving /\ owner[u].h = g
        BY <4>1, <3>1, <1>9 DEF Serving
      <4> QED BY <4>1, <4>2, <1>1, <1>2
    <3> QED BY <3>1, <1>3
  <2>8. Rest(h, written'[h], <<>>, c)
    BY <2>2, <2>3, <1>3 DEF Rest
  <2>9. ServerAt(h, b, c)'
    BY <2>3, <2>6, <2>7, <2>8 DEF ServerAt
  <2>10. ClientAt(h, b)'
    BY <1>3 DEF Talk, ClientAt, Up
  <2>11. HeardAt(h, a)' /\ SaidAt(h, e)'
    BY <1>3 DEF Talk, HeardAt, Listens, SaidAt
  <2>12. Linked(Places, Carries(h, written[h]), b, Down, c)'
    BY <2>5, <1>3, <1>5
  <2>13. Linked(Places, Carries(h, sent[h]), a, Up, e)'
    BY <1>3 DEF Talk, Up
  <2>14. Talk(h, b, c, a, e)'
    BY <2>9, <2>10, <2>11, <2>12, <2>13 DEF Talk
  <2> QED BY <2>3, <2>14
<1> QED BY <1>8, <1>9

(* A close request goes into the manager's queue, of a channel the client  *)
(* has accepted.                                                           *)
LEMMA CloseRequestTalks ==
    ASSUME ManagerTypes, IdsOK, OwnersOK, WritersOK, NEW o \in Owners, CloseRequest(o), NEW h \in Handles,
           NEW b \in Places, NEW d \in Places, NEW a \in Places, NEW e \in Places,
           Talk(h, b, d, a, e)
    PROVE  \E c \in Places : Talk(h, b, c, a, e)'
<1> DEFINE g == owner[o].h
           x == Pdu("CLOSE", g, g)
<1>1. owner[o].pc = "close" /\ owner[o].pc \in Serving
  BY DEF CloseRequest, At, Serving
<1>2. /\ g \in Handles /\ g \in Nat /\ g <= seq /\ g # 0 /\ ch[g].id = g
      /\ \A u \in Owners : owner[u].pc \in Serving /\ owner[u].h = g => u = o
  BY <1>1, ServedIs
<1>3. /\ UNCHANGED <<drdynvc, seq, writer, peer, up, cl, cw, toClient, toServer, written, got, sent, read>>
      /\ Go(o, "remove") /\ ch' = [ch EXCEPT ![g].closedIn = ch[g].open]
      /\ vq' = IF ch[g].open = "SUCCEEDED" THEN Append(vq, x) ELSE vq
  BY <1>2, WireUnchanged DEF CloseRequest
<1>4. x \in Pdus /\ x.id = g /\ x.cmd = "CLOSE"
  BY <1>2, NewPdu
<1> HIDE DEF x
<1>5. /\ ch'[h].open = ch[h].open /\ ch'[h].total = ch[h].total /\ ch'[h].buf = ch[h].buf
      /\ (ch'[h].closedIn = ch[h].closedIn \/ ch'[h].closedIn = ch[h].open)
      /\ ch'[h].q = ch[h].q /\ ch'[h].live = ch[h].live
  BY <1>2, <1>3, ChannelIs DEF Channels, ManagerTypes, ChannelsOK
<1>6. owner'[o].pc = "remove" /\ \A u \in Owners : owner'[u].h = owner[u].h /\ (u # o => owner'[u].pc = owner[u].pc)
  BY <1>3, OwnerGoes DEF OwnerPcs
<1>7. (Unrequested(h)' => Unrequested(h)) /\ (Open(h)' => Open(h))
  BY <1>3, OwnerKeeps DEF OwnerPcs
<1>8. CASE h # g \/ ch[g].open # "SUCCEEDED"
  <2>1. Quietly(h, Down, Down')
    <3>1. CASE ch[g].open = "SUCCEEDED"
      BY <3>1, <1>3, <1>4, <1>8, DownAppends DEF Quietly
    <3>2. CASE ch[g].open # "SUCCEEDED"
      BY <3>2, <1>3, StreamsStay
    <3> QED BY <3>1, <3>2
  <2>2. Listens(h)' => Listens(h)
    BY <1>3, <1>5 DEF Listens
  <2>3. Elsewhere(h)
    BY <1>3, <1>5, <1>7, <2>1, <2>2, StreamsStay DEF Elsewhere
  <2> QED BY <2>3, TalkElsewhere
<1>9. CASE h = g /\ ch[g].open = "SUCCEEDED"
  <2>1. Open(h)
    BY <1>1, <1>9 DEF Open
  <2>2. d.ph = "open"
    BY <2>1 DEF Talk, ServerAt
  <2> DEFINE c == Place("shut", 0, 0)
  <2>3. c \in Places /\ c.ph = "shut"
    BY PlaceIs
  <2>4. <<d, x, c>> \in Carries(h, written[h])
    BY <2>2, <2>3, <1>4, <1>9, CarriesIs DEF Leads
  <2> HIDE DEF c
  <2>5. Down' = Append(Down, x) /\ Down \in Seq(Pdus)
    BY <1>3, <1>4, <1>9, DownAppends, OnTheWay
  <2>6. Linked(Places, Carries(h, written[h]), b, Append(Down, x), c)
    BY <2>3, <2>4, <2>5, LinkedAppend DEF Talk
  <2>7. b.ph # "none"
    BY <1>9 DEF Talk, ClientAt
  <2>8. ~Unrequested(h)
    BY <2>2 DEF Talk, ServerAt
  <2>9. ~Open(h)'
    <3>1. ASSUME NEW u \in Owners, owner'[u].pc \in {"wait", "read", "close"}, owner'[u].h = h PROVE FALSE
      <4>1. owner[u].pc \in Serving /\ owner[u].h = g /\ u # o
        BY <3>1, <1>6, <1>9 DEF Serving
      <4> QED BY <4>1, <1>2
    <3> QED BY <3>1 DEF Open
  <2>10. ServerAt(h, b, c)'
    BY <2>8, <2>9, <1>7 DEF ServerAt
  <2>11. ClientAt(h, b)'
    BY <2>7, <1>3 DEF Talk, ClientAt
  <2>12. HeardAt(h, a)' /\ SaidAt(h, e)'
    BY <1>3, <1>5 DEF Talk, HeardAt, Listens, SaidAt
  <2>13. Linked(Places, Carries(h, written[h]), b, Down, c)'
    BY <2>5, <2>6, <1>3
  <2>14. Linked(Places, Carries(h, sent[h]), a, Up, e)'
    BY <1>3 DEF Talk, Up
  <2>15. Talk(h, b, c, a, e)'
    BY <2>10, <2>11, <2>12, <2>13, <2>14 DEF Talk
  <2> QED BY <2>3, <2>15
<1> QED BY <1>8, <1>9

(* What a write changes: the lock of the channel, and the thread that      *)
(* writes.                                                                 *)
LEMMA WriteBeginsIs ==
    ASSUME ManagerTypes, IdsOK, OwnersOK, WritersOK, NEW w \in Writers, NEW o \in Owners, NEW n \in 1 .. MaxLen,
           WriteBegins(w, o, n)
    PROVE  LET g == owner[o].h  msg == Message(g, Len(written[g]) + 1, n) IN
           /\ UNCHANGED <<drdynvc, seq, vq, owner, peer, up, cl, cw, toClient, toServer, got, sent, read>>
           /\ g \in Handles /\ owner[o].pc = "read" /\ writer[w].h = 0 /\ msg \in Writes
           /\ \A v \in Writers : writer[v].h # g
           /\ ch' = [ch EXCEPT ![g].lock = TRUE]
           /\ written' = [written EXCEPT ![g] = Append(written[g], msg)]
           /\ writer' = [writer EXCEPT ![w] = [h |-> g, left |-> DataPdus(g, g, msg)]]
           /\ ~Unrequested(g)
<1> DEFINE g == owner[o].h
           msg == Message(g, Len(written[g]) + 1, n)
<1>1. owner[o].pc = "read" /\ owner[o].pc \in Serving
  BY DEF WriteBegins, At, Serving
<1>2. /\ g \in Handles /\ ch[g].id = g /\ g # 0 /\ g <= seq /\ g \in Nat
      /\ \A u \in Owners : owner[u].pc \in Serving /\ owner[u].h = g => u = o
  BY <1>1, ServedIs
<1>3. /\ UNCHANGED <<drdynvc, seq, vq, owner, peer, up, cl, cw, toClient, toServer, got, sent, read>>
      /\ writer[w] = NoWrite /\ ~ch[g].lock
      /\ ch' = [ch EXCEPT ![g].lock = TRUE]
      /\ written' = [written EXCEPT ![g] = Append(written[g], msg)]
      /\ writer' = [writer EXCEPT ![w] = [h |-> g, left |-> DataPdus(g, g, msg)]]
  BY <1>2, WireUnchanged DEF WriteBegins
<1>4. Len(written[g]) + 1 \in Nat
  BY <1>2, ChannelIs
<1>5. msg \in Writes
  BY <1>2, <1>4, MessageType
<1>6. writer[w].h = 0
  BY <1>3 DEF NoWrite
<1>7. \A v \in Writers : writer[v].h # g
  BY <1>2, <1>3 DEF WritersOK
<1>8. ~Unrequested(g)
  <2>1. ~(g > seq)
    BY <1>2 DEF ManagerTypes, ThreadsOK
  <2>2. ASSUME NEW u \in Owners, owner[u].pc = "request", owner[u].h = g PROVE FALSE
    <3>1. owner[u].pc \in Serving
      BY <2>2 DEF Serving
    <3> QED BY <3>1, <2>2, <1>1, <1>2
  <2> QED BY <2>1, <2>2 DEF Unrequested
<1> HIDE DEF msg
<1> QED BY <1>1, <1>2, <1>3, <1>5, <1>6, <1>7, <1>8 DEF msg

(* A write begins: its PDUs are the rest.                                  *)
LEMMA WriteBeginsTalks ==
    ASSUME ManagerTypes, IdsOK, OwnersOK, WritersOK, NEW w \in Writers, NEW o \in Owners, NEW n \in 1 .. MaxLen,
           WriteBegins(w, o, n), NEW h \in Handles,
           NEW b \in Places, NEW d \in Places, NEW a \in Places, NEW e \in Places,
           Talk(h, b, d, a, e)
    PROVE  Talk(h, b, d, a, e)'
<1> DEFINE g == owner[o].h
<1>1. PICK msg \in Writes :
           /\ UNCHANGED <<drdynvc, seq, vq, owner, peer, up, cl, cw, toClient, toServer, got, sent, read>>
           /\ g \in Handles /\ owner[o].pc = "read" /\ writer[w].h = 0
           /\ \A v \in Writers : writer[v].h # g
           /\ ch' = [ch EXCEPT ![g].lock = TRUE]
           /\ written' = [written EXCEPT ![g] = Append(written[g], msg)]
           /\ writer' = [writer EXCEPT ![w] = [h |-> g, left |-> DataPdus(g, g, msg)]]
           /\ ~Unrequested(g)
  BY WriteBeginsIs
<1>2. /\ ch'[h].open = ch[h].open /\ ch'[h].total = ch[h].total /\ ch'[h].buf = ch[h].buf
      /\ ch'[h].closedIn = ch[h].closedIn /\ ch'[h].q = ch[h].q /\ ch'[h].live = ch[h].live
  BY <1>1, ChannelIs DEF Channels, ManagerTypes, ChannelsOK
<1>3. /\ writer'[w].h = g /\ writer'[w].left = DataPdus(g, g, msg)
      /\ \A v \in Writers : v # w => writer'[v] = writer[v]
  BY <1>1 DEF ManagerTypes, ThreadsOK
<1>4. (Unrequested(h)' => Unrequested(h)) /\ (Open(h)' => Open(h))
  BY <1>1 DEF Unrequested, Open
<1>5. Listens(h)' => Listens(h)
  BY <1>1, <1>2 DEF Listens
<1>6. CASE h # g
  <2>1. written'[h] = written[h]
    BY <1>1, <1>6 DEF ManagerTypes, GhostsOK
  <2>2. \A v \in Writers : /\ writer'[v].h = h <=> writer[v].h = h
                           /\ writer[v].h = h => writer'[v].left = writer[v].left
    BY <1>1, <1>3, <1>6 DEF Handles
  <2>3. Elsewhere(h)
    BY <1>1, <1>2, <1>4, <1>5, <2>1, <2>2, StreamsStay DEF Elsewhere
  <2> QED BY <2>3, TalkElsewhere
<1>7. CASE h = g
  <2>1. written'[h] = Append(written[h], msg) /\ written[h] \in Seq(Writes)
    BY <1>1, <1>7, ChannelIs DEF ManagerTypes, GhostsOK
  <2>2. Open(h)
    BY <1>1, <1>7 DEF Open
  <2>3. d.ph = "open" /\ Rest(h, written[h], <<>>, d)
    BY <1>1, <1>7, <2>2 DEF Talk, ServerAt
  <2>4. Rest(h, Append(written[h], msg), DataPdus(h, h, msg), d)
    BY <2>1, <2>3, RestBegins
  <2>5. \A v \in Writers : writer'[v].h = h => Rest(h, written'[h], writer'[v].left, d)
    BY <2>1, <2>4, <1>1, <1>3, <1>7
  <2>6. ServerAt(h, b, d)'
    BY <2>3, <2>5, <1>1, <1>3, <1>4, <1>7 DEF ServerAt
  <2>7. Linked(Places, Carries(h, Append(written[h], msg)), b, Down, d)
    BY <2>1, CarriesMore, LinkedMore DEF Talk
  <2>8. Down' = Down /\ Up' = Up
    BY <1>1 DEF Down, Up
  <2>9. ClientAt(h, b)'
    <3>1. got[h] \in Seq(Seq(Chunks))
      BY ChannelIs
    <3>2. cl[h].running => b.ph = "open" /\ Partial(Append(written[h], msg), cl[h].len, cl[h].data, got[h], b)
      BY <2>1, <3>1, PartialMore DEF Talk, ClientAt
    <3> QED BY <3>2, <2>1, <2>8, <1>1, <1>2 DEF Talk, ClientAt
  <2>10. HeardAt(h, a)' /\ SaidAt(h, e)'
    BY <1>1, <1>2 DEF Talk, HeardAt, Listens, SaidAt
  <2>11. Linked(Places, Carries(h, written[h]), b, Down, d)'
    BY <2>1, <2>7, <2>8
  <2>12. Linked(Places, Carries(h, sent[h]), a, Up, e)'
    BY <1>1, <2>8 DEF Talk
  <2> QED BY <2>6, <2>9, <2>10, <2>11, <2>12 DEF Talk
<1> QED BY <1>6, <1>7

(* The last of a sequence.                                                 *)
LEMMA OneLeft ==
    ASSUME NEW S, NEW q \in Seq(S), q # <<>>
    PROVE  Tail(q) \in Seq(S) /\ (Len(q) = 1 <=> Tail(q) = <<>>) /\ (Len(q) > 1 <=> Tail(q) # <<>>)
<1>1. Tail(q) \in Seq(S) /\ Len(Tail(q)) = Len(q) - 1 /\ Len(q) >= 1
  OBVIOUS
<1>2. PICK n \in Nat : n = Len(q)
  OBVIOUS
<1>3. Tail(q) = <<>> <=> n - 1 = 0
  BY <1>1, <1>2
<1> QED BY <1>1, <1>2, <1>3

(* What posting a PDU changes.                                             *)
LEMMA WritePduIs ==
    ASSUME ManagerTypes, WritersOK, TalksOK, NEW w \in Writers, WritePdu(w)
    PROVE  LET g == writer[w].h  left == writer[w].left IN
           /\ UNCHANGED <<drdynvc, seq, owner, peer, up, cl, cw, toClient, toServer, written, got, sent, read>>
           /\ g \in Handles /\ Open(g) /\ left \in Seq(Pdus) /\ left # <<>>
           /\ vq' = Append(vq, Head(left)) /\ Down' = Append(Down, Head(left))
           /\ Head(left) \in Pdus /\ Head(left).id = g /\ Head(left).cmd \in DataCmds
           /\ \A v \in Writers : v # w => writer'[v] = writer[v] /\ writer[v].h # g
           /\ Tail(left) = <<>> => writer'[w] = NoWrite
           /\ Tail(left) # <<>> => writer'[w].h = g /\ writer'[w].left = Tail(left)
           /\ \A h \in Handles : h # g => ch'[h] = ch[h]
           /\ ch'[g].lock = (Tail(left) # <<>>)
           /\ \A h \in Handles :
                /\ ch'[h].open = ch[h].open /\ ch'[h].total = ch[h].total /\ ch'[h].buf = ch[h].buf
                /\ ch'[h].closedIn = ch[h].closedIn /\ ch'[h].q = ch[h].q /\ ch'[h].live = ch[h].live
                /\ ch'[h].id = ch[h].id
           /\ ch' \in [Handles -> Channels] /\ writer' \in [Writers -> [h : 0 .. MaxOpen, left : Seq(Pdus)]]
<1> DEFINE g == writer[w].h
           left == writer[w].left
<1>1. writer[w] \in [h : 0 .. MaxOpen, left : Seq(Pdus)]
  BY DEF ManagerTypes, ThreadsOK
<1>2. left \in Seq(Pdus) /\ g \in 0 .. MaxOpen
  BY <1>1
<1>3. /\ UNCHANGED <<drdynvc, seq, owner, peer, up, cl, cw, toClient, toServer, written, got, sent, read>>
      /\ left # <<>> /\ vq' = Append(vq, Head(left))
      /\ ch' = [ch EXCEPT ![g].lock = (Len(left) > 1)]
  BY WireUnchanged DEF WritePdu
<1>4. writer' = [writer EXCEPT ![w] = IF Len(left) = 1 THEN NoWrite ELSE [writer[w] EXCEPT !.left = Tail(left)]]
  BY DEF WritePdu
<1>5. g \in Handles
  BY <1>2, <1>3, ManagerAssumption DEF WritersOK, Handles
<1>6. PICK o \in Owners : owner[o].pc \in {"read", "close"} /\ owner[o].h = g
  BY <1>5 DEF WritersOK, Handles
<1>7. Open(g)
  BY <1>6 DEF Open
<1>8. PICK b, d, a, e \in Places : Talk(g, b, d, a, e)
  BY <1>5 DEF TalksOK
<1>9. d.ph = "open" /\ Rest(g, written[g], left, d)
  BY <1>7, <1>8 DEF Talk, ServerAt
<1>10. written[g] \in Seq(Writes)
  BY <1>5, ChannelIs
<1>11. Head(left) \in Pdus /\ Head(left).id = g /\ Head(left).cmd \in DataCmds
  <2>1. PICK msgs \in Seq(Writes), rest \in Seq(Pdus), k \in Handles : msgs = written[g] /\ rest = left /\ k = g
    BY <1>2, <1>5, <1>10
  <2>2. Rest(k, msgs, rest, d) /\ rest # <<>>
    BY <2>1, <1>3, <1>9
  <2>3. Head(rest) \in Pdus /\ Head(rest).id = k /\ Head(rest).cmd \in DataCmds
    BY <2>2, <1>9, RestGoesOn
  <2> QED BY <2>1, <2>3
<1>12. Down' = Append(Down, Head(left))
  BY <1>3, <1>11, DownAppends
<1>13. \A v \in Writers : v # w => writer'[v] = writer[v] /\ writer[v].h # g
  <2>1. \A v \in Writers : v # w => writer'[v] = writer[v]
    BY <1>4 DEF ManagerTypes, ThreadsOK
  <2>2. \A v \in Writers : v # w => writer[v].h # g
    BY <1>5 DEF WritersOK, Handles
  <2> QED BY <2>1, <2>2
<1>14. Tail(left) \in Seq(Pdus) /\ (Len(left) = 1 <=> Tail(left) = <<>>) /\ (Len(left) > 1 <=> Tail(left) # <<>>)
  BY <1>2, <1>3, OneLeft
<1> HIDE DEF left, g
<1>15. writer'[w] = IF Len(left) = 1 THEN NoWrite ELSE [writer[w] EXCEPT !.left = Tail(left)]
  BY <1>4 DEF ManagerTypes, ThreadsOK
<1>16. Tail(left) = <<>> => writer'[w] = NoWrite
  BY <1>14, <1>15
<1>17. Tail(left) # <<>> => writer'[w] = [writer[w] EXCEPT !.left = Tail(left)]
  BY <1>14, <1>15
<1>18. Tail(left) # <<>> => writer'[w].h = g /\ writer'[w].left = Tail(left)
  BY <1>1, <1>17 DEF g
<1>19. NoWrite \in [h : 0 .. MaxOpen, left : Seq(Pdus)]
  <2>1. 0 \in 0 .. MaxOpen /\ <<>> \in Seq(Pdus)
    BY ManagerAssumption
  <2> QED BY <2>1 DEF NoWrite
<1>20. writer'[w] \in [h : 0 .. MaxOpen, left : Seq(Pdus)]
  BY <1>1, <1>14, <1>16, <1>17, <1>19
<1>21. writer' \in [Writers -> [h : 0 .. MaxOpen, left : Seq(Pdus)]]
  BY <1>4, <1>13, <1>20 DEF ManagerTypes, ThreadsOK
<1>22. PICK on \in BOOLEAN : on = (Len(left) > 1)
  <2>1. CASE Len(left) > 1
    <3>1. TRUE = (Len(left) > 1)
      BY <2>1
    <3> QED BY <3>1
  <2>2. CASE ~(Len(left) > 1)
    <3>1. FALSE = (Len(left) > 1)
      BY <2>2
    <3> QED BY <3>1
  <2> QED BY <2>1, <2>2
<1>23. ch' = [ch EXCEPT ![g].lock = on]
  BY <1>3, <1>22
<1>24. ch \in [Handles -> Channels]
  BY DEF ManagerTypes, ChannelsOK
<1>25. ch' \in [Handles -> Channels] /\ ch'[g].lock = on /\ \A h \in Handles : h # g => ch'[h] = ch[h]
  BY <1>5, <1>23, <1>24 DEF Channels
<1>26. \A h \in Handles :
                /\ ch'[h].open = ch[h].open /\ ch'[h].total = ch[h].total /\ ch'[h].buf = ch[h].buf
                /\ ch'[h].closedIn = ch[h].closedIn /\ ch'[h].q = ch[h].q /\ ch'[h].live = ch[h].live
                /\ ch'[h].id = ch[h].id
  BY <1>5, <1>23, <1>24 DEF Channels
<1>27. ch'[g].lock = (Tail(left) # <<>>)
  BY <1>14, <1>22, <1>25
<1> QED BY <1>2, <1>3, <1>5, <1>7, <1>11, <1>12, <1>13, <1>16, <1>18, <1>21, <1>25, <1>26, <1>27 DEF left, g

(* A PDU of a message is posted: it is the one that is due.                *)
LEMMA WritePduTalks ==
    ASSUME ManagerTypes, WritersOK, TalksOK, NEW w \in Writers, WritePdu(w), NEW h \in Handles,
           NEW b \in Places, NEW d \in Places, NEW a \in Places, NEW e \in Places,
           Talk(h, b, d, a, e)
    PROVE  \E c \in Places : Talk(h, b, c, a, e)'
<1> DEFINE g == writer[w].h
           left == writer[w].left
<1>1. /\ UNCHANGED <<drdynvc, seq, owner, peer, up, cl, cw, toClient, toServer, written, got, sent, read>>
      /\ g \in Handles /\ Open(g) /\ left \in Seq(Pdus) /\ left # <<>>
      /\ Down' = Append(Down, Head(left)) /\ Head(left) \in Pdus /\ Head(left).id = g
      /\ \A v \in Writers : v # w => writer'[v] = writer[v] /\ writer[v].h # g
      /\ Tail(left) = <<>> => writer'[w] = NoWrite
      /\ Tail(left) # <<>> => writer'[w].h = g /\ writer'[w].left = Tail(left)
      /\ ch'[h].open = ch[h].open /\ ch'[h].total = ch[h].total /\ ch'[h].buf = ch[h].buf
      /\ ch'[h].closedIn = ch[h].closedIn /\ ch'[h].q = ch[h].q /\ ch'[h].live = ch[h].live
  BY WritePduIs
<1>2. (Unrequested(h)' => Unrequested(h)) /\ (Open(h)' => Open(h))
  BY <1>1 DEF Unrequested, Open
<1>3. Listens(h)' => Listens(h)
  BY <1>1 DEF Listens
<1>4. NoWrite.h = 0 /\ 0 \notin Handles
  BY DEF NoWrite, Handles
<1> HIDE DEF g, left
<1>5. CASE h # g
  <2>1. Quietly(h, Down, Down') /\ Quietly(h, Up, Up')
    BY <1>1, <1>5, StreamsStay DEF Quietly
  <2>2. \A v \in Writers : /\ writer'[v].h = h <=> writer[v].h = h
                           /\ writer[v].h = h => writer'[v].left = writer[v].left
    <3>1. writer[w].h # h /\ writer'[w].h # h
      BY <1>1, <1>4, <1>5 DEF g
    <3> QED BY <3>1, <1>1
  <2>3. Elsewhere(h)
    BY <1>1, <1>2, <1>3, <2>1, <2>2 DEF Elsewhere
  <2> QED BY <2>3, TalkElsewhere
<1>6. CASE h = g
  <2>1. written[h] \in Seq(Writes) /\ Down \in Seq(Pdus)
    BY ChannelIs, OnTheWay
  <2>2. d.ph = "open" /\ Rest(h, written[h], left, d)
    BY <1>1, <1>6 DEF Talk, ServerAt, g, left
  <2>3. PICK f \in Places : /\ f.ph = "open" /\ <<d, Head(left), f>> \in Carries(h, written[h])
                            /\ Rest(h, written[h], Tail(left), f)
    BY <2>1, <2>2, <1>1, RestGoesOn
  <2>4. Linked(Places, Carries(h, written[h]), b, Append(Down, Head(left)), f)
    BY <2>1, <2>3, LinkedAppend DEF Talk
  <2>5. ~Unrequested(h)
    BY <2>2 DEF Talk, ServerAt
  <2>6. \A v \in Writers : writer'[v].h = h => Rest(h, written'[h], writer'[v].left, f)
    BY <1>1, <1>4, <1>6, <2>3, ZenonT(40)
  <2>7. (\A v \in Writers : writer'[v].h # h) => Rest(h, written'[h], <<>>, f)
    BY <1>1, <1>6, <2>3
  <2>8. ServerAt(h, b, f)'
    BY <1>2, <2>3, <2>5, <2>6, <2>7 DEF ServerAt
  <2>9. ClientAt(h, b)'
    BY <1>1 DEF Talk, ClientAt, Up
  <2>10. HeardAt(h, a)' /\ SaidAt(h, e)'
    BY <1>1 DEF Talk, HeardAt, Listens, SaidAt
  <2>11. Linked(Places, Carries(h, written[h]), b, Down, f)'
    BY <2>4, <1>1
  <2>12. Linked(Places, Carries(h, sent[h]), a, Up, e)'
    BY <1>1 DEF Talk, Up
  <2>13. Talk(h, b, f, a, e)'
    BY <2>8, <2>9, <2>10, <2>11, <2>12 DEF Talk
  <2> QED BY <2>13
<1> QED BY <1>5, <1>6

-----------------------------------------------------------------------------
(* What the client takes from the wire.                                    *)
LEMMA ClientTakes ==
    ASSUME ManagerTypes, NEW cmds, ClientReceives(cmds)
    PROVE  LET x == Head(toClient) IN
           /\ UNCHANGED <<drdynvc, seq, ch, vq, owner, writer, peer, up, cw, written, sent, read>>
           /\ toClient # <<>> /\ toClient' = Tail(toClient) /\ x \in Pdus /\ x.cmd \in cmds
           /\ Down # <<>> /\ Head(Down) = x /\ Down' = Tail(Down) /\ Down \in Seq(Pdus) /\ Up \in Seq(Pdus)
           /\ x.gen = x.id /\ ("CAPS" \notin cmds => x.id \in Handles)
<1>1. /\ UNCHANGED <<drdynvc, seq, ch, vq, owner, writer, peer, up, cw, written, sent, read>>
      /\ toClient # <<>> /\ toClient' = Tail(toClient) /\ Head(toClient).cmd \in cmds
  BY WireUnchanged DEF ClientReceives
<1>2. Head(toClient) \in Pdus /\ Down # <<>> /\ Head(Down) = Head(toClient) /\ Down' = Tail(Down)
  BY <1>1, DownTakes
<1>3. Head(toClient).gen = Head(toClient).id /\ (Head(toClient).cmd # "CAPS" => Head(toClient).id \in Handles)
  BY <1>2, PduIs
<1> QED BY <1>1, <1>2, <1>3, OnTheWay

(* And what it leaves alone.                                               *)
LEMMA ClientElsewhere ==
    ASSUME ManagerTypes, NEW cmds, ClientReceives(cmds), NEW h \in Handles, Head(toClient).id # h,
           cl'[h] = cl[h], got'[h] = got[h], Quietly(h, Up, Up')
    PROVE  Elsewhere(h)
<1>1. /\ UNCHANGED <<drdynvc, seq, ch, vq, owner, writer, peer, up, cw, written, sent, read>>
      /\ Down # <<>> /\ Head(Down) = Head(toClient) /\ Down' = Tail(Down)
  BY ClientTakes
<1>2. Quietly(h, Down, Down')
  BY <1>1 DEF Quietly
<1>3. (Unrequested(h)' => Unrequested(h)) /\ (Open(h)' => Open(h))
  BY <1>1 DEF Unrequested, Open
<1>4. Listens(h)' => Listens(h)
  BY <1>1 DEF Listens
<1> QED BY <1>1, <1>2, <1>3, <1>4, StreamsStay DEF Elsewhere

(* What is left to show of a PDU the client takes: where the client is.    *)
LEMMA ClientTalks ==
    ASSUME ManagerTypes, NEW cmds, ClientReceives(cmds), NEW h \in Handles, Head(toClient).id = h,
           NEW b \in Places, NEW d \in Places, NEW a \in Places, NEW e \in Places,
           Talk(h, b, d, a, e)
    PROVE  /\ ~Unrequested(h)
           /\ \E c \in Places :
                /\ Leads(h, written[h], b, Head(toClient), c)
                /\ \A f \in Places :
                     /\ ClientAt(h, c)' /\ Linked(Places, Carries(h, sent[h]), a, Up', f) /\ SaidAt(h, f)'
                     /\ (c.ph = "none" <=> f.ph = "none")
                     => Talk(h, c, d, a, f)'
<1>1. /\ UNCHANGED <<drdynvc, seq, ch, vq, owner, writer, peer, up, cw, written, sent, read>>
      /\ Down # <<>> /\ Head(Down) = Head(toClient) /\ Down' = Tail(Down) /\ Down \in Seq(Pdus)
      /\ Head(toClient) \in Pdus
  BY ClientTakes
<1>2. PICK c \in Places : /\ <<b, Head(Down), c>> \in Carries(h, written[h])
                          /\ Linked(Places, Carries(h, written[h]), c, Tail(Down), d)
  BY <1>1, LinkedTake DEF Talk
<1>3. Leads(h, written[h], b, Head(toClient), c)
  BY <1>1, <1>2, CarriesIs
<1>4. Down[1].id = h /\ 1 \in DOMAIN Down
  BY <1>1
<1>5. ~Unrequested(h)
  BY <1>4 DEF Talk, ServerAt
<1>6. ASSUME NEW f \in Places, ClientAt(h, c)', Linked(Places, Carries(h, sent[h]), a, Up', f), SaidAt(h, f)',
             c.ph = "none" <=> f.ph = "none"
      PROVE  Talk(h, c, d, a, f)'
  <2>1. ~Unrequested(h)' /\ (Open(h)' => Open(h))
    BY <1>1, <1>5 DEF Unrequested, Open
  <2>2. ServerAt(h, c, d)'
    BY <1>1, <2>1 DEF Talk, ServerAt
  <2>3. HeardAt(h, a)'
    BY <1>1 DEF Talk, HeardAt, Listens
  <2>4. Linked(Places, Carries(h, written[h]), c, Down, d)'
    BY <1>1, <1>2
  <2>5. Linked(Places, Carries(h, sent[h]), a, Up, f)'
    BY <1>1, <1>6
  <2> QED BY <2>2, <2>3, <2>4, <2>5, <1>6 DEF Talk
<1> QED BY <1>3, <1>5, <1>6

-----------------------------------------------------------------------------
(***************************************************************************)
(* Virtual channels: the client and its plugins, channel by channel.       *)
(***************************************************************************)

(* The fields of a channel at the client.                                  *)
LEMMA DvcIs ==
    ASSUME ManagerTypes, NEW h \in Handles
    PROVE  /\ cl[h] \in Dvcs /\ cl[h].running \in BOOLEAN /\ cl[h].h \in 0 .. MaxOpen
           /\ cl[h].len \in Nat /\ cl[h].len \in 0 .. MaxLen /\ cl[h].data \in Seq(Chunks)
           /\ (cl[h].running => cl[h].h = h) /\ cw[h] \in Seq(Pdus)
  BY DEF ManagerTypes, PluginsOK, Dvcs

(* A channel the client has just accepted, and one it has none of.         *)
LEMMA NewDvc ==
    /\ \A g \in 0 .. MaxOpen :
         LET c == [NoDvc EXCEPT !.running = TRUE, !.h = g] IN
         c \in Dvcs /\ c.running = TRUE /\ c.h = g /\ c.len = 0 /\ c.data = <<>>
    /\ NoDvc \in Dvcs /\ NoDvc.running = FALSE /\ NoDvc.len = 0 /\ NoDvc.data = <<>> /\ NoDvc.h = 0
<1>1. 0 \in 0 .. MaxLen /\ 0 \in 0 .. MaxOpen /\ <<>> \in Seq(Chunks)
  BY ManagerAssumption
<1> QED BY <1>1 DEF NoDvc, Dvcs

(* drdynvc_process_create_request: what it changes.                        *)
LEMMA ClientCreateIs ==
    ASSUME ManagerTypes, TalksOK, NEW accept \in BOOLEAN, ClientCreate(accept)
    PROVE  LET g == Head(toClient).id IN
           /\ ClientReceives({"CREATE"}) /\ g \in Handles /\ Head(toClient).cmd = "CREATE" /\ UNCHANGED got
           /\ ~cl[g].running
           /\ cl' \in [Handles -> Dvcs] /\ \A h \in Handles : h # g => cl'[h] = cl[h]
           /\ \/ /\ cl'[g].running /\ cl'[g].h = g /\ cl'[g].len = 0 /\ cl'[g].data = <<>>
                 /\ toServer' = Append(toServer, Pdu("CREATED", g, g))
                 /\ Up' = Append(Up, Pdu("CREATED", g, g))
              \/ /\ cl' = cl /\ toServer' = Append(toServer, Pdu("REFUSED", g, g))
                 /\ Up' = Append(Up, Pdu("REFUSED", g, g))
<1> DEFINE g == Head(toClient).id
           new == [NoDvc EXCEPT !.running = TRUE, !.h = g]
           ok == accept /\ ~cl[g].running
<1>1. ClientReceives({"CREATE"}) /\ UNCHANGED got
  BY DEF ClientCreate
<1>2. Head(toClient) \in Pdus /\ Head(toClient).cmd \in {"CREATE"} /\ UNCHANGED peer
      /\ Head(toClient).gen = g /\ ("CAPS" \notin {"CREATE"} => g \in Handles)
  BY <1>1, ClientTakes
<1>3. g \in Handles /\ Head(toClient).cmd = "CREATE"
  BY <1>2
<1>4. PICK b, d, a, e \in Places : Talk(g, b, d, a, e)
  BY <1>3 DEF TalksOK
<1>5. PICK c \in Places : Leads(g, written[g], b, Head(toClient), c)
  BY <1>1, <1>3, <1>4, ClientTalks
<1>6. b.ph = "none"
  BY <1>3, <1>5 DEF Leads, DataCmds
<1>7. ~cl[g].running
  BY <1>4, <1>6 DEF Talk, ClientAt
<1>8. cl' = (IF ok THEN [cl EXCEPT ![g] = [NoDvc EXCEPT !.running = TRUE, !.h = Head(toClient).gen]] ELSE cl)
      /\ toServer' = Append(toServer, Pdu(IF ok THEN "CREATED" ELSE "REFUSED", g, Head(toClient).gen))
  BY Zenon DEF ClientCreate
<1>9. cl' = (IF ok THEN [cl EXCEPT ![g] = new] ELSE cl)
      /\ toServer' = Append(toServer, Pdu(IF ok THEN "CREATED" ELSE "REFUSED", g, g))
  BY <1>2, <1>8, Zenon
<1>10. new \in Dvcs /\ new.running = TRUE /\ new.h = g /\ new.len = 0 /\ new.data = <<>>
  <2>1. g \in 0 .. MaxOpen
    BY <1>3, ManagerAssumption DEF Handles
  <2> HIDE DEF g
  <2> QED BY <2>1, NewDvc
<1>11. cl \in [Handles -> Dvcs]
  BY DEF ManagerTypes, PluginsOK
<1> HIDE DEF new, g
<1>12. CASE ok
  <2>1. cl' = [cl EXCEPT ![g] = new] /\ toServer' = Append(toServer, Pdu("CREATED", g, g))
    BY <1>9, <1>12
  <2>2. cl' \in [Handles -> Dvcs] /\ cl'[g] = new /\ \A h \in Handles : h # g => cl'[h] = cl[h]
    BY <2>1, <1>3, <1>10, <1>11
  <2>3. Up' = Append(Up, Pdu("CREATED", g, g))
    BY <2>1, <1>2, <1>3, NewPdu, UpAppends
  <2> QED BY <2>1, <2>2, <2>3, <1>1, <1>3, <1>7, <1>10 DEF g
<1>13. CASE ~ok
  <2>1. cl' = cl /\ toServer' = Append(toServer, Pdu("REFUSED", g, g))
    BY <1>9, <1>13
  <2>2. Up' = Append(Up, Pdu("REFUSED", g, g))
    BY <2>1, <1>2, <1>3, NewPdu, UpAppends
  <2> QED BY <2>1, <2>2, <1>1, <1>3, <1>7, <1>11 DEF g
<1> QED BY <1>12, <1>13

(* drdynvc_process_create_request: the client answers.                     *)
LEMMA ClientCreateTalks ==
    ASSUME ManagerTypes, TalksOK, NEW accept \in BOOLEAN, ClientCreate(accept), NEW h \in Handles,
           NEW b \in Places, NEW d \in Places, NEW a \in Places, NEW e \in Places,
           Talk(h, b, d, a, e)
    PROVE  \E c, f \in Places : Talk(h, c, d, a, f)'
<1> DEFINE g == Head(toClient).id
<1>1. /\ ClientReceives({"CREATE"}) /\ g \in Handles /\ Head(toClient).cmd = "CREATE" /\ UNCHANGED got
      /\ \A k \in Handles : k # g => cl'[k] = cl[k]
  BY ClientCreateIs
<1>2. PICK x \in {Pdu("CREATED", g, g), Pdu("REFUSED", g, g)} :
        /\ Up' = Append(Up, x)
        /\ x = Pdu("CREATED", g, g) => cl'[g].running /\ cl'[g].h = g /\ cl'[g].len = 0 /\ cl'[g].data = <<>>
        /\ x = Pdu("REFUSED", g, g) => cl' = cl
  <2>1. Pdu("CREATED", g, g) # Pdu("REFUSED", g, g)
    BY <1>1, NewPdu
  <2> QED BY <2>1, ClientCreateIs
<1>3. x \in Pdus /\ x.id = g /\ (x = Pdu("CREATED", g, g) => x.cmd = "CREATED") /\ (x = Pdu("REFUSED", g, g) => x.cmd = "REFUSED")
  BY <1>1, NewPdu
<1>4. CASE h # g
  <2>1. Quietly(h, Up, Up')
    BY <1>2, <1>3, <1>4 DEF Quietly
  <2>2. Elsewhere(h)
    BY <2>1, <1>1, <1>4, ClientElsewhere
  <2> QED BY <2>2, TalkElsewhere
<1>5. CASE h = g
  <2>1. PICK c \in Places :
          /\ Leads(h, written[h], b, Head(toClient), c)
          /\ \A f \in Places :
               /\ ClientAt(h, c)' /\ Linked(Places, Carries(h, sent[h]), a, Up', f) /\ SaidAt(h, f)'
               /\ (c.ph = "none" <=> f.ph = "none")
               => Talk(h, c, d, a, f)'
    BY <1>1, <1>5, ClientTalks
  <2>2. b.ph = "none" /\ c = Place("open", 0, 0)
    BY <2>1, <1>1, <1>5 DEF Leads, DataCmds
  <2>3. c.ph = "open" /\ c.m = 0 /\ c.i = 0
    BY <2>2, PlaceIs
  <2>4. e.ph = "none" /\ ~cl[h].running /\ got[h] = <<>> /\ sent[h] = <<>> /\ cw[h] = <<>>
    BY <2>2 DEF Talk, ClientAt
  <2>5. Up \in Seq(Pdus) /\ UNCHANGED <<cw, written, sent>> /\ written[h] \in Seq(Writes)
    BY <1>1, ClientTakes, ChannelIs
  <2> DEFINE f == Place(IF x.cmd = "CREATED" THEN "open" ELSE "shut", 0, 0)
  <2>6. f \in Places /\ f.ph = (IF x.cmd = "CREATED" THEN "open" ELSE "shut") /\ f.m = 0 /\ f.i = 0
    <3>1. CASE x.cmd = "CREATED"
      <4>1. f = Place("open", 0, 0)
        BY <3>1
      <4> QED BY <4>1, <3>1, PlaceIs
    <3>2. CASE x.cmd # "CREATED"
      <4>1. f = Place("shut", 0, 0)
        BY <3>2
      <4> QED BY <4>1, <3>2, PlaceIs
    <3> QED BY <3>1, <3>2
  <2>7. <<e, x, f>> \in Carries(h, sent[h])
    <3>1. Leads(h, sent[h], e, x, f)
      BY <1>2, <1>3, <1>5, <2>4 DEF Leads
    <3> QED BY <3>1, <2>6, <1>3, CarriesIs
  <2> HIDE DEF f
  <2>8. Linked(Places, Carries(h, sent[h]), a, Up', f)
    BY <2>5, <2>6, <2>7, <1>2, LinkedAppend DEF Talk
  <2>9. ClientAt(h, c)' /\ SaidAt(h, f)'
    <3>1. CASE x = Pdu("CREATED", g, g)
      <4>1. cl'[h].running /\ cl'[h].len = 0 /\ f.ph = "open"
        BY <3>1, <1>2, <1>3, <1>5, <2>6
      <4>2. Len(written[h]) \in Nat
        BY <2>5
      <4>3. Partial(written'[h], 0, cl'[h].data, got'[h], c)
        BY <4>2, <1>1, <2>3, <2>4, <2>5 DEF Partial, Prefix
      <4>4. ClientAt(h, c)'
        BY <4>1, <4>3, <2>3 DEF ClientAt
      <4>5. Rest(h, sent'[h], cw'[h], f)
        BY <2>4, <2>5, <2>6 DEF Rest
      <4> QED BY <4>1, <4>4, <4>5 DEF SaidAt
    <3>2. CASE x = Pdu("REFUSED", g, g)
      <4>1. ~cl'[h].running /\ f.ph = "shut"
        BY <3>2, <1>2, <1>3, <2>4, <2>6
      <4> QED BY <4>1, <2>3 DEF ClientAt, SaidAt
    <3> QED BY <3>1, <3>2, <1>2
  <2>10. Talk(h, c, d, a, f)'
    BY <2>1, <2>3, <2>6, <2>8, <2>9
  <2> QED BY <2>6, <2>10
<1> QED BY <1>4, <1>5

(* drdynvc_process_data: no more arrives than was announced, so the client *)
(* does not close the channel; a message that is complete goes to the      *)
(* plugin.                                                                 *)
LEMMA ClientDataIs ==
    ASSUME ManagerTypes, ClientData
    PROVE  LET x == Head(toClient)  g == x.id IN
           /\ ClientReceives({"DATA_FIRST", "DATA"}) /\ g \in Handles /\ x \in Pdus /\ x.cmd \in DataCmds
           /\ UNCHANGED toServer /\ Up' = Up
           /\ cl' \in [Handles -> Dvcs] /\ got' \in [Handles -> Seq(Seq(Chunks))]
           /\ \A h \in Handles : h # g => cl'[h] = cl[h] /\ got'[h] = got[h]
           /\ cl'[g].running = cl[g].running /\ cl'[g].h = cl[g].h
           /\ ~cl[g].running => UNCHANGED <<cl, got>>
           /\ cl[g].running =>
                \/ /\ x.cmd = "DATA_FIRST"
                   /\ cl'[g].len = x.total /\ cl'[g].data = <<x.chunk>> /\ got'[g] = got[g]
                \/ /\ x.cmd = "DATA" /\ cl[g].len = 0
                   /\ cl'[g].len = 0 /\ cl'[g].data = <<>> /\ got'[g] = Append(got[g], <<x.chunk>>)
                \/ /\ x.cmd = "DATA" /\ cl[g].len > 0 /\ Len(cl[g].data) + 1 = cl[g].len
                   /\ cl'[g].len = 0 /\ cl'[g].data = <<>>
                   /\ got'[g] = Append(got[g], Append(cl[g].data, x.chunk))
                \/ /\ x.cmd = "DATA" /\ cl[g].len > 0 /\ Len(cl[g].data) + 1 < cl[g].len
                   /\ cl'[g].len = cl[g].len /\ cl'[g].data = Append(cl[g].data, x.chunk) /\ got'[g] = got[g]
<1> DEFINE x == Head(toClient)
           g == x.id
           first == x.cmd = "DATA_FIRST"
           len == IF first THEN x.total ELSE cl[g].len
           all == Append(IF first \/ cl[g].len = 0 THEN <<>> ELSE cl[g].data, x.chunk)
<1>1. /\ ClientReceives({"DATA_FIRST", "DATA"})
      /\ IF ~cl[g].running THEN UNCHANGED <<cl, toServer, got>>
         ELSE IF len > 0 /\ Len(all) > len
           THEN ClientCloses(g) /\ UNCHANGED got
         ELSE IF Len(all) >= len
           THEN /\ got' = [got EXCEPT ![cl[g].h] = Append(@, all)]
                /\ cl' = [cl EXCEPT ![g].len = 0, ![g].data = <<>>]
                /\ UNCHANGED toServer
         ELSE /\ cl' = [cl EXCEPT ![g].len = len, ![g].data = all]
              /\ UNCHANGED <<toServer, got>>
  BY Zenon DEF ClientData
<1>2. x \in Pdus /\ x.cmd \in {"DATA_FIRST", "DATA"} /\ UNCHANGED peer
      /\ ("CAPS" \notin {"DATA_FIRST", "DATA"} => g \in Handles)
  BY <1>1, ClientTakes
<1>3. g \in Handles /\ x.cmd \in DataCmds /\ x.chunk \in Chunks /\ x.total \in Nat /\ x.total \in 0 .. MaxLen
      /\ (first => x.total > 1)
  <2>1. g \in Handles /\ x.cmd \in DataCmds
    BY <1>2 DEF DataCmds
  <2>2. x.chunk \in Chunks /\ x.total \in 0 .. MaxLen /\ (first => x.total > 1)
    BY <1>2, PduIs
  <2> QED BY <2>1, <2>2
<1>4. /\ cl[g] \in Dvcs /\ cl[g].len \in Nat /\ cl[g].len \in 0 .. MaxLen /\ cl[g].data \in Seq(Chunks)
      /\ (cl[g].running => cl[g].h = g) /\ cl[g].running \in BOOLEAN
      /\ (Len(cl[g].data) < cl[g].len \/ cl[g].data = <<>>)
  BY <1>3, DvcIs DEF ManagerTypes, PluginsOK
<1>5. PICK n \in Nat : n = Len(cl[g].data)
  BY <1>4
<1>6. cl[g].len > 0 => n + 1 <= cl[g].len
  BY <1>4, <1>5
<1>7. /\ first \/ cl[g].len = 0 => all = <<x.chunk>>
      /\ ~(first \/ cl[g].len = 0) => all = Append(cl[g].data, x.chunk)
  <2>1. Append(<<>>, x.chunk) = <<x.chunk>>
    BY <1>3
  <2>2. first \/ cl[g].len = 0 => all = Append(<<>>, x.chunk)
    BY Zenon
  <2>3. ~(first \/ cl[g].len = 0) => all = Append(cl[g].data, x.chunk)
    BY Zenon
  <2> HIDE DEF all, first, x, g
  <2> QED BY <2>1, <2>2, <2>3
<1>8. /\ all \in Seq(Chunks) /\ len \in Nat /\ len \in 0 .. MaxLen
      /\ first \/ cl[g].len = 0 => Len(all) = 1
      /\ ~(first \/ cl[g].len = 0) => Len(all) = n + 1
  BY <1>3, <1>4, <1>5, <1>7
<1>9. (first => len = x.total) /\ (~first => len = cl[g].len)
  OBVIOUS
<1>10. cl \in [Handles -> Dvcs] /\ got \in [Handles -> Seq(Seq(Chunks))] /\ got[g] \in Seq(Seq(Chunks))
  BY <1>3 DEF ManagerTypes, PluginsOK, GhostsOK
<1> HIDE DEF all, len
<1>11. PICK k \in Nat : k = Len(all)
  BY <1>8
<1>12. ~(len > 0 /\ k > len) /\ (k >= len <=> ~first /\ (cl[g].len > 0 => n + 1 = cl[g].len))
  BY <1>3, <1>4, <1>6, <1>8, <1>9, <1>11
<1>13. 0 \in 0 .. MaxLen /\ <<>> \in Seq(Chunks)
  BY ManagerAssumption
<1>14. first \/ x.cmd = "DATA"
  BY <1>2
<1>15. UNCHANGED toServer
  BY <1>1, <1>11, <1>12
<1>16. Up' = Up
  BY <1>2, <1>15 DEF Up
<1>17. CASE ~cl[g].running
  <2>1. UNCHANGED <<cl, got>>
    BY <1>1, <1>17
  <2> HIDE DEF x, g
  <2> QED BY <2>1, <1>1, <1>2, <1>3, <1>10, <1>15, <1>16, <1>17 DEF x, g
<1>18. CASE cl[g].running /\ k >= len
  <2>1. got' = [got EXCEPT ![g] = Append(got[g], all)] /\ cl' = [cl EXCEPT ![g].len = 0, ![g].data = <<>>]
    BY <1>1, <1>4, <1>11, <1>12, <1>18
  <2>2. Append(got[g], all) \in Seq(Seq(Chunks))
    BY <1>8, <1>10
  <2> HIDE DEF g, x
  <2>3. /\ got' \in [Handles -> Seq(Seq(Chunks))] /\ got'[g] = Append(got[g], all)
        /\ \A h \in Handles : h # g => got'[h] = got[h]
    BY <2>1, <2>2, <1>3, <1>10
  <2>4. /\ cl' \in [Handles -> Dvcs] /\ \A h \in Handles : h # g => cl'[h] = cl[h]
        /\ cl'[g].len = 0 /\ cl'[g].data = <<>> /\ cl'[g].running = cl[g].running /\ cl'[g].h = cl[g].h
    BY <2>1, <1>3, <1>10, <1>13 DEF Dvcs
  <2>5. x.cmd = "DATA" /\ (cl[g].len > 0 => n + 1 = cl[g].len)
    BY <1>12, <1>14, <1>18
  <2>6. CASE cl[g].len = 0
    <3>1. got'[g] = Append(got[g], <<x.chunk>>)
      BY <2>3, <2>6, <1>7
    <3> QED BY <3>1, <2>3, <2>4, <2>5, <2>6, <1>1, <1>2, <1>3, <1>15, <1>16, <1>18 DEF x, g
  <2>7. CASE cl[g].len > 0
    <3>1. got'[g] = Append(got[g], Append(cl[g].data, x.chunk))
      BY <2>3, <2>5, <2>7, <1>4, <1>7
    <3>2. Len(cl[g].data) + 1 = cl[g].len
      BY <2>5, <2>7, <1>5
    <3>3. cl[g].running /\ x.cmd = "DATA" /\ cl[g].len > 0
      BY <2>5, <2>7, <1>18
    <3> QED BY <3>1, <3>2, <3>3, <2>3, <2>4, <1>1, <1>2, <1>3, <1>15, <1>16 DEF x, g
  <2>8. cl[g].len = 0 \/ cl[g].len > 0
    BY <1>4
  <2> QED BY <2>6, <2>7, <2>8
<1>19. CASE cl[g].running /\ ~(k >= len)
  <2>1. got' = got /\ cl' = [cl EXCEPT ![g].len = len, ![g].data = all]
    BY <1>1, <1>11, <1>12, <1>19
  <2> HIDE DEF g, x
  <2>2. /\ cl' \in [Handles -> Dvcs] /\ \A h \in Handles : h # g => cl'[h] = cl[h]
        /\ cl'[g].len = len /\ cl'[g].data = all /\ cl'[g].running = cl[g].running /\ cl'[g].h = cl[g].h
    BY <2>1, <1>3, <1>8, <1>10 DEF Dvcs
  <2>3. CASE first
    <3>1. cl'[g].len = x.total /\ cl'[g].data = <<x.chunk>> /\ got'[g] = got[g]
      BY <2>1, <2>2, <2>3, <1>7, <1>9
    <3> QED BY <3>1, <2>1, <2>2, <2>3, <1>1, <1>2, <1>3, <1>10, <1>15, <1>16, <1>19 DEF x, g
  <2>4. CASE ~first
    <3>1. cl[g].len > 0 /\ n + 1 < cl[g].len
      BY <2>4, <1>4, <1>6, <1>12, <1>19
    <3>2. Len(cl[g].data) + 1 < cl[g].len
      BY <3>1, <1>5
    <3>3. cl'[g].len = cl[g].len /\ cl'[g].data = Append(cl[g].data, x.chunk) /\ got'[g] = got[g]
      BY <2>1, <2>2, <2>4, <3>1, <1>4, <1>7, <1>9
    <3>4. x.cmd = "DATA"
      BY <1>14, <2>4
    <3> QED BY <3>1, <3>2, <3>3, <3>4, <2>1, <2>2, <1>1, <1>2, <1>3, <1>10, <1>15, <1>16, <1>19 DEF x, g
  <2> QED BY <2>3, <2>4
<1> QED BY <1>17, <1>18, <1>19

(* What the client's plugin gets is what was written.                      *)
LEMMA ClientDataTalks ==
    ASSUME ManagerTypes, ClientData, NEW h \in Handles,
           NEW b \in Places, NEW d \in Places, NEW a \in Places, NEW e \in Places,
           Talk(h, b, d, a, e)
    PROVE  \E c \in Places : /\ Talk(h, c, d, a, e)'
                             /\ h = Head(toClient).id /\ cl[h].running => Prefix(got'[h], written[h])
<1> DEFINE y == Head(toClient)
<1>1. /\ ClientReceives({"DATA_FIRST", "DATA"}) /\ y.id \in Handles /\ y \in Pdus /\ y.cmd \in DataCmds
      /\ Up' = Up /\ \A k \in Handles : k # y.id => cl'[k] = cl[k] /\ got'[k] = got[k]
  BY ClientDataIs
<1>2. CASE h # y.id
  <2>1. Elsewhere(h)
    BY <1>1, <1>2, ClientElsewhere DEF Quietly
  <2> QED BY <2>1, <1>2, TalkElsewhere
<1>3. CASE h = y.id
  <2>1. PICK c \in Places :
          /\ Leads(h, written[h], b, y, c)
          /\ \A f \in Places :
               /\ ClientAt(h, c)' /\ Linked(Places, Carries(h, sent[h]), a, Up', f) /\ SaidAt(h, f)'
               /\ (c.ph = "none" <=> f.ph = "none")
               => Talk(h, c, d, a, f)'
    BY <1>1, <1>3, ClientTalks
  <2>2. b.ph # "none" /\ c.ph # "none" /\ (b.ph = "open" => c.ph = "open")
    <3>1. (b.ph = "shut" /\ c = b) \/ (b.ph = "open" /\ c = AfterChunk(written[h], b))
      BY <2>1, <1>1, <1>3 DEF Leads, DataCmds
    <3>2. CASE b.ph = "shut" /\ c = b
      BY <3>2
    <3>3. CASE b.ph = "open" /\ c = AfterChunk(written[h], b)
      <4>1. c.ph = "open"
        BY <3>3 DEF AfterChunk, Place
      <4> QED BY <3>3, <4>1
    <3> QED BY <3>1, <3>2, <3>3
  <2>3. Linked(Places, Carries(h, sent[h]), a, Up', e) /\ e.ph # "none"
    BY <1>1, <2>2 DEF Talk
  <2>4. UNCHANGED <<ch, cw, written, sent>> /\ cl'[h].running = cl[h].running
    <3>1. cl'[h].running = cl[h].running
      BY <1>3, ClientDataIs
    <3>2. UNCHANGED <<ch, cw, written, sent>>
      BY <1>1, ClientTakes
    <3> QED BY <3>1, <3>2
  <2>5. SaidAt(h, e)'
    BY <2>4 DEF Talk, SaidAt
  <2>6. CASE ~cl[h].running
    <3>1. ClientAt(h, c)'
      BY <2>2, <2>4, <2>6 DEF ClientAt
    <3> QED BY <3>1, <2>1, <2>2, <2>3, <2>5, <2>6
  <2>7. CASE cl[h].running
    <3>1. b.ph = "open" /\ Partial(written[h], cl[h].len, cl[h].data, got[h], b)
      BY <2>7 DEF Talk, ClientAt
    <3>2. PICK msgs \in Seq(Writes), len \in Nat, data \in Seq(Chunks), done \in Seq(Seq(Chunks)), x \in Pdus :
            msgs = written[h] /\ len = cl[h].len /\ data = cl[h].data /\ done = got[h] /\ x = y
      BY <1>1, DvcIs, ChannelIs
    <3>3. x.id = h /\ x.cmd \in DataCmds /\ Partial(msgs, len, data, done, b) /\ Leads(h, msgs, b, x, c)
      BY <1>1, <1>3, <2>1, <3>1, <3>2
    <3>4. /\ c.ph = "open"
          /\ x.cmd = "DATA_FIRST" => Partial(msgs, x.total, <<x.chunk>>, done, c)
          /\ x.cmd = "DATA" /\ len = 0 => Partial(msgs, 0, <<>>, Append(done, <<x.chunk>>), c)
          /\ x.cmd = "DATA" /\ len > 0 =>
               /\ Len(data) + 1 = len => Partial(msgs, 0, <<>>, Append(done, Append(data, x.chunk)), c)
               /\ Len(data) + 1 < len => Partial(msgs, len, Append(data, x.chunk), done, c)
      BY <3>1, <3>3, Reads
    <3>5. \/ /\ x.cmd = "DATA_FIRST"
             /\ cl'[h].len = x.total /\ cl'[h].data = <<x.chunk>> /\ got'[h] = done
          \/ /\ x.cmd = "DATA" /\ len = 0
             /\ cl'[h].len = 0 /\ cl'[h].data = <<>> /\ got'[h] = Append(done, <<x.chunk>>)
          \/ /\ x.cmd = "DATA" /\ len > 0 /\ Len(data) + 1 = len
             /\ cl'[h].len = 0 /\ cl'[h].data = <<>>
             /\ got'[h] = Append(done, Append(data, x.chunk))
          \/ /\ x.cmd = "DATA" /\ len > 0 /\ Len(data) + 1 < len
             /\ cl'[h].len = len /\ cl'[h].data = Append(data, x.chunk) /\ got'[h] = done
      BY <3>2, <1>3, <2>7, ClientDataIs
    <3>6. Partial(msgs, cl'[h].len, cl'[h].data, got'[h], c)
      BY <3>4, <3>5
    <3>7. Prefix(got'[h], written[h])
      BY <3>2, <3>6 DEF Partial
    <3>8. ClientAt(h, c)'
      BY <3>2, <3>4, <3>6, <2>4 DEF ClientAt
    <3> QED BY <3>7, <3>8, <2>1, <2>2, <2>3, <2>5
  <2> QED BY <2>6, <2>7
<1> QED BY <1>2, <1>3

(* dvcman_channel_close: what it changes.                                  *)
LEMMA ClientClosesIs ==
    ASSUME ManagerTypes, NEW g \in Handles, cl[g].running, ClientCloses(g), UNCHANGED peer
    PROVE  /\ cl' \in [Handles -> Dvcs] /\ cl'[g] = NoDvc /\ \A h \in Handles : h # g => cl'[h] = cl[h]
           /\ toServer' = Append(toServer, Pdu("CLOSE", g, g)) /\ Up' = Append(Up, Pdu("CLOSE", g, g))
           /\ Pdu("CLOSE", g, g) \in Pdus /\ Pdu("CLOSE", g, g).id = g /\ Pdu("CLOSE", g, g).cmd = "CLOSE"
<1>1. cl' = [cl EXCEPT ![g] = NoDvc] /\ toServer' = Append(toServer, Pdu("CLOSE", g, g))
  BY DvcIs DEF ClientCloses
<1>2. Pdu("CLOSE", g, g) \in Pdus /\ Pdu("CLOSE", g, g).id = g /\ Pdu("CLOSE", g, g).cmd = "CLOSE"
  BY NewPdu
<1>3. Up' = Append(Up, Pdu("CLOSE", g, g))
  BY <1>1, <1>2, UpAppends
<1>4. cl \in [Handles -> Dvcs] /\ NoDvc \in Dvcs
  BY NewDvc DEF ManagerTypes, PluginsOK
<1> QED BY <1>1, <1>2, <1>3, <1>4

(* What the client says ends with the close.                               *)
LEMMA ClientClosesSays ==
    ASSUME ManagerTypes, NEW h \in Handles, cl[h].running, ClientCloses(h), UNCHANGED peer,
           NEW b \in Places, NEW d \in Places, NEW a \in Places, NEW e \in Places,
           Talk(h, b, d, a, e)
    PROVE  \E f \in Places : f.ph = "shut" /\ Linked(Places, Carries(h, sent[h]), a, Up', f) /\ SaidAt(h, f)'
<1> DEFINE x == Pdu("CLOSE", h, h)
           f == Place("shut", 0, 0)
<1>1. Up' = Append(Up, x) /\ x \in Pdus /\ x.id = h /\ x.cmd = "CLOSE" /\ cl'[h] = NoDvc
  BY ClientClosesIs
<1>2. f \in Places /\ f.ph = "shut"
  BY PlaceIs
<1>3. e.ph = "open"
  BY DEF Talk, SaidAt
<1>4. <<e, x, f>> \in Carries(h, sent[h])
  BY <1>1, <1>2, <1>3, CarriesIs DEF Leads
<1> HIDE DEF x, f
<1>5. Linked(Places, Carries(h, sent[h]), a, Up', f)
  BY <1>1, <1>2, <1>4, OnTheWay, LinkedAppend DEF Talk
<1>6. SaidAt(h, f)'
  BY <1>1, <1>2, NewDvc DEF SaidAt
<1> QED BY <1>2, <1>5, <1>6

(* drdynvc_process_close_request.                                          *)
LEMMA ClientCloseRequestTalks ==
    ASSUME ManagerTypes, ClientCloseRequest, NEW h \in Handles,
           NEW b \in Places, NEW d \in Places, NEW a \in Places, NEW e \in Places,
           Talk(h, b, d, a, e)
    PROVE  \E c, f \in Places : Talk(h, c, d, a, f)'
<1> DEFINE g == Head(toClient).id
<1>1. /\ ClientReceives({"CLOSE"}) /\ UNCHANGED got
      /\ cl[g].running => ClientCloses(g)
      /\ ~cl[g].running => UNCHANGED <<cl, toServer>>
  BY DEF ClientCloseRequest
<1>2. /\ UNCHANGED <<ch, cw, written, sent, peer>> /\ Head(toClient).cmd \in {"CLOSE"}
      /\ ("CAPS" \notin {"CLOSE"} => g \in Handles)
  BY <1>1, ClientTakes
<1>3. g \in Handles /\ Head(toClient).cmd = "CLOSE"
  BY <1>2
<1>4. CASE h # g
  <2>1. cl'[h] = cl[h] /\ Quietly(h, Up, Up')
    <3>1. CASE cl[g].running
      BY <3>1, <1>1, <1>2, <1>3, <1>4, ClientClosesIs DEF Quietly
    <3>2. CASE ~cl[g].running
      BY <3>2, <1>1, <1>2, StreamsStay
    <3> QED BY <3>1, <3>2
  <2>2. Elsewhere(h)
    BY <2>1, <1>1, <1>4, ClientElsewhere
  <2> QED BY <2>2, TalkElsewhere
<1>5. CASE h = g
  <2>1. PICK c \in Places :
          /\ Leads(h, written[h], b, Head(toClient), c)
          /\ \A f \in Places :
               /\ ClientAt(h, c)' /\ Linked(Places, Carries(h, sent[h]), a, Up', f) /\ SaidAt(h, f)'
               /\ (c.ph = "none" <=> f.ph = "none")
               => Talk(h, c, d, a, f)'
    BY <1>1, <1>5, ClientTalks
  <2>2. b.ph = "open" /\ c = Place("shut", 0, 0)
    BY <2>1, <1>3, <1>5 DEF Leads, DataCmds
  <2>3. c.ph = "shut"
    BY <2>2, PlaceIs
  <2>4. CASE cl[h].running
    <3>1. PICK f \in Places : f.ph = "shut" /\ Linked(Places, Carries(h, sent[h]), a, Up', f) /\ SaidAt(h, f)'
      BY <2>4, <1>1, <1>2, <1>5, ClientClosesSays
    <3>2. ~cl'[h].running
      BY <2>4, <1>1, <1>2, <1>5, ClientClosesIs, NewDvc
    <3>3. ClientAt(h, c)'
      BY <3>2, <2>3 DEF ClientAt
    <3>4. Talk(h, c, d, a, f)'
      BY <3>1, <3>3, <2>1, <2>3
    <3> QED BY <3>4
  <2>5. CASE ~cl[h].running
    <3>1. cl' = cl /\ Up' = Up
      BY <2>5, <1>1, <1>2, <1>5 DEF Up
    <3>2. ClientAt(h, c)'
      BY <3>1, <2>3, <2>5 DEF ClientAt
    <3>3. SaidAt(h, e)'
      BY <3>1, <1>2 DEF Talk, SaidAt
    <3>4. Linked(Places, Carries(h, sent[h]), a, Up', e) /\ e.ph # "none"
      BY <3>1, <2>2 DEF Talk
    <3>5. Talk(h, c, d, a, e)'
      BY <3>2, <3>3, <3>4, <2>1, <2>3
    <3> QED BY <3>5
  <2> QED BY <2>4, <2>5
<1> QED BY <1>4, <1>5

(* A plugin of the client works on its channel, and the other streams      *)
(* cannot tell.                                                            *)
LEMMA PluginElsewhere ==
    ASSUME NEW h \in Handles, UNCHANGED <<drdynvc, seq, ch, vq, owner, writer, peer, up, toClient, written, got, read>>,
           cl'[h] = cl[h], cw'[h] = cw[h], sent'[h] = sent[h], Quietly(h, Up, Up')
    PROVE  Elsewhere(h)
<1>1. (Unrequested(h)' => Unrequested(h)) /\ (Open(h)' => Open(h)) /\ (Listens(h)' => Listens(h))
  BY DEF Unrequested, Open, Listens
<1> QED BY <1>1, StreamsStay DEF Elsewhere

(* And what the server says does not change by it.                         *)
LEMMA PluginKeeps ==
    ASSUME NEW h \in Handles, UNCHANGED <<drdynvc, seq, ch, vq, owner, writer, peer, up, toClient, written, got, read>>,
           NEW b \in Places, NEW d \in Places, NEW a \in Places, NEW e \in Places,
           Talk(h, b, d, a, e)
    PROVE  ServerAt(h, b, d)' /\ Linked(Places, Carries(h, written[h]), b, Down, d)'
           /\ (sent' = sent => HeardAt(h, a)')
<1>1. Down' = Down
  BY DEF Down
<1>2. ServerAt(h, b, d)'
  BY <1>1 DEF Talk, ServerAt, Unrequested, Open
<1>3. Linked(Places, Carries(h, written[h]), b, Down, d)'
  BY <1>1 DEF Talk
<1>4. sent' = sent => HeardAt(h, a)'
  BY DEF Talk, HeardAt, Listens
<1> QED BY <1>2, <1>3, <1>4

(* dvcman_write_channel: what it changes.                                  *)
LEMMA PluginWritesIs ==
    ASSUME ManagerTypes, NEW g \in Handles, NEW n \in 1 .. MaxLen, PluginWrites(g, n)
    PROVE  \E msg \in Writes :
             /\ UNCHANGED <<drdynvc, seq, ch, vq, owner, writer, peer, up, cl, toClient, toServer, written, got, read>>
             /\ cl[g].running /\ cl[g].h = g /\ cw[g] = <<>>
             /\ sent' = [sent EXCEPT ![g] = Append(sent[g], msg)]
             /\ cw' = [cw EXCEPT ![g] = DataPdus(g, g, msg)]
<1> DEFINE msg == Message(g, Len(sent[g]) + 1, n)
<1>1. cl[g].running /\ cl[g].h = g
  BY DvcIs DEF PluginWrites
<1>2. /\ UNCHANGED <<drdynvc, seq, ch, vq, owner, writer, peer, up, cl, toClient, toServer, written, got, read>>
      /\ cw[g] = <<>> /\ sent' = [sent EXCEPT ![g] = Append(sent[g], msg)]
      /\ cw' = [cw EXCEPT ![g] = DataPdus(g, g, msg)]
  BY <1>1, WireUnchanged DEF PluginWrites
<1>3. Len(sent[g]) + 1 \in Nat
  BY ChannelIs
<1>4. msg \in Writes
  BY <1>3, MessageType
<1> QED BY <1>1, <1>2, <1>4

(* A plugin begins to write: its PDUs are the rest.                        *)
LEMMA PluginWritesTalks ==
    ASSUME ManagerTypes, NEW g \in Handles, NEW n \in 1 .. MaxLen, PluginWrites(g, n), NEW h \in Handles,
           NEW b \in Places, NEW d \in Places, NEW a \in Places, NEW e \in Places,
           Talk(h, b, d, a, e)
    PROVE  Talk(h, b, d, a, e)'
<1>1. PICK msg \in Writes :
        /\ UNCHANGED <<drdynvc, seq, ch, vq, owner, writer, peer, up, cl, toClient, toServer, written, got, read>>
        /\ cl[g].running /\ cl[g].h = g /\ cw[g] = <<>>
        /\ sent' = [sent EXCEPT ![g] = Append(sent[g], msg)]
        /\ cw' = [cw EXCEPT ![g] = DataPdus(g, g, msg)]
  BY PluginWritesIs
<1>2. Up' = Up
  BY <1>1 DEF Up
<1>3. CASE h # g
  <2>1. cw'[h] = cw[h] /\ sent'[h] = sent[h]
    BY <1>1, <1>3 DEF ManagerTypes, GhostsOK, PluginsOK
  <2>2. Elsewhere(h)
    BY <2>1, <1>1, <1>2, PluginElsewhere DEF Quietly
  <2> QED BY <2>2, TalkElsewhere
<1>4. CASE h = g
  <2>1. sent'[h] = Append(sent[h], msg) /\ cw'[h] = DataPdus(h, h, msg) /\ sent[h] \in Seq(Writes)
    BY <1>1, <1>4, ChannelIs DEF ManagerTypes, GhostsOK, PluginsOK
  <2>2. e.ph = "open" /\ Rest(h, sent[h], <<>>, e) /\ b.ph = "open"
    BY <1>1, <1>4 DEF Talk, SaidAt, ClientAt
  <2>3. Rest(h, Append(sent[h], msg), DataPdus(h, h, msg), e)
    BY <2>1, <2>2, RestBegins
  <2>4. SaidAt(h, e)'
    BY <2>1, <2>2, <2>3, <1>1, <1>4 DEF SaidAt
  <2>5. ClientAt(h, b)'
    BY <1>1, <2>2 DEF Talk, ClientAt
  <2>6. HeardAt(h, a)'
    <3>1. read[h] \o ch[h].q \in Seq(Seq(Chunks))
      BY ChannelIs
    <3>2. Partial(sent[h], ch[h].total, ch[h].buf, read[h] \o ch[h].q, a)
          => Partial(Append(sent[h], msg), ch[h].total, ch[h].buf, read[h] \o ch[h].q, a)
      BY <2>1, <3>1, PartialMore
    <3> QED BY <3>2, <2>1, <1>1 DEF Talk, HeardAt, Listens
  <2>7. Linked(Places, Carries(h, Append(sent[h], msg)), a, Up, e)
    BY <2>1, CarriesMore, LinkedMore DEF Talk
  <2>8. Linked(Places, Carries(h, sent[h]), a, Up, e)'
    BY <2>1, <2>7, <1>2
  <2> QED BY <2>2, <2>4, <2>5, <2>6, <2>8, <1>1, PluginKeeps DEF Talk
<1> QED BY <1>3, <1>4

(* A PDU of the plugin's message goes to the wire, and of one whose        *)
(* channel has been closed meanwhile.                                      *)
LEMMA PluginPduTalks ==
    ASSUME ManagerTypes, NEW g \in Handles, PluginPdu(g), NEW h \in Handles,
           NEW b \in Places, NEW d \in Places, NEW a \in Places, NEW e \in Places,
           Talk(h, b, d, a, e)
    PROVE  \E f \in Places : Talk(h, b, d, a, f)'
<1> DEFINE x == Head(cw[g])
<1>1. /\ UNCHANGED <<drdynvc, seq, ch, vq, owner, writer, peer, up, cl, toClient, written, got, sent, read>>
      /\ cw[g] # <<>> /\ toServer' = Append(toServer, x) /\ cw' = [cw EXCEPT ![g] = Tail(cw[g])]
  BY WireUnchanged DEF PluginPdu
<1>2. cw[g] \in Seq(Pdus)
  BY DvcIs
<1>3. x \in Pdus /\ x = cw[g][1] /\ 1 \in DOMAIN cw[g]
  BY <1>1, <1>2
<1>4. x.id = g /\ x.cmd \in DataCmds
  BY <1>3 DEF ManagerTypes, PluginsOK
<1>5. Up' = Append(Up, x) /\ Up \in Seq(Pdus)
  BY <1>1, <1>3, UpAppends, OnTheWay
<1> HIDE DEF x
<1>6. CASE h # g
  <2>1. cw'[h] = cw[h]
    BY <1>1, <1>6 DEF ManagerTypes, PluginsOK
  <2>2. Elsewhere(h)
    BY <2>1, <1>1, <1>3, <1>4, <1>5, <1>6, PluginElsewhere DEF Quietly
  <2> QED BY <2>2, TalkElsewhere
<1>7. CASE h = g
  <2>1. cw'[h] = Tail(cw[h])
    BY <1>1, <1>7 DEF ManagerTypes, PluginsOK
  <2>2. b.ph # "none" /\ e.ph # "none"
    BY <1>1, <1>7 DEF Talk, ClientAt
  <2>3. PICK f \in Places : /\ <<e, x, f>> \in Carries(h, sent[h]) /\ f.ph = e.ph
                            /\ cl[h].running => Rest(h, sent[h], Tail(cw[h]), f)
    <3>1. CASE cl[h].running
      <4>1. e.ph = "open" /\ Rest(h, sent[h], cw[h], e) /\ sent[h] \in Seq(Writes)
        BY <3>1, ChannelIs DEF Talk, SaidAt
      <4>2. PICK f \in Places : f.ph = "open" /\ <<e, Head(cw[h]), f>> \in Carries(h, sent[h])
                                /\ Rest(h, sent[h], Tail(cw[h]), f)
        <5>1. PICK msgs \in Seq(Writes), left \in Seq(Pdus) : msgs = sent[h] /\ left = cw[h]
          BY <4>1, <1>2, <1>7
        <5>2. left # <<>> /\ Rest(h, msgs, left, e)
          BY <5>1, <4>1, <1>1, <1>7
        <5>3. \E f \in Places : f.ph = "open" /\ <<e, Head(left), f>> \in Carries(h, msgs)
                                /\ Rest(h, msgs, Tail(left), f)
          BY <5>2, <4>1, RestGoesOn
        <5> QED BY <5>1, <5>3
      <4> QED BY <4>1, <4>2, <1>7 DEF x
    <3>2. CASE ~cl[h].running
      <4>1. e.ph = "shut"
        BY <3>2, <2>2 DEF Talk, SaidAt
      <4>2. <<e, x, e>> \in Carries(h, sent[h])
        BY <4>1, <1>3, <1>4, <1>7, CarriesIs DEF Leads
      <4> QED BY <3>2, <4>2
    <3> QED BY <3>1, <3>2
  <2>4. Linked(Places, Carries(h, sent[h]), a, Append(Up, x), f)
    BY <2>3, <1>5, LinkedAppend DEF Talk
  <2>5. SaidAt(h, f)'
    BY <2>1, <2>3, <1>1 DEF Talk, SaidAt
  <2>6. ClientAt(h, b)'
    BY <2>2, <1>1 DEF Talk, ClientAt
  <2>7. Linked(Places, Carries(h, sent[h]), a, Up, f)'
    BY <2>4, <1>1, <1>5
  <2>8. Talk(h, b, d, a, f)'
    BY <2>2, <2>3, <2>5, <2>6, <2>7, <1>1, PluginKeeps DEF Talk
  <2> QED BY <2>8
<1> QED BY <1>6, <1>7

(* dvcman_close_channel_iface.                                             *)
LEMMA PluginClosesTalks ==
    ASSUME ManagerTypes, NEW g \in Handles, PluginCloses(g), NEW h \in Handles,
           NEW b \in Places, NEW d \in Places, NEW a \in Places, NEW e \in Places,
           Talk(h, b, d, a, e)
    PROVE  \E f \in Places : Talk(h, b, d, a, f)'
<1>1. /\ UNCHANGED <<drdynvc, seq, ch, vq, owner, writer, peer, up, cw, toClient, written, got, sent, read>>
      /\ cl[g].running /\ ClientCloses(g)
  BY WireUnchanged DEF PluginCloses
<1>2. CASE h # g
  <2>1. cl'[h] = cl[h] /\ Quietly(h, Up, Up')
    BY <1>1, <1>2, ClientClosesIs DEF Quietly
  <2>2. Elsewhere(h)
    BY <2>1, <1>1, PluginElsewhere
  <2> QED BY <2>2, TalkElsewhere
<1>3. CASE h = g
  <2>1. PICK f \in Places : f.ph = "shut" /\ Linked(Places, Carries(h, sent[h]), a, Up', f) /\ SaidAt(h, f)'
    BY <1>1, <1>3, ClientClosesSays
  <2>2. b.ph = "open"
    BY <1>1, <1>3 DEF Talk, ClientAt
  <2>3. ~cl'[h].running
    BY <1>1, <1>3, ClientClosesIs, NewDvc
  <2>4. ClientAt(h, b)'
    BY <2>2, <2>3 DEF ClientAt
  <2>5. Linked(Places, Carries(h, sent[h]), a, Up, f)'
    BY <2>1, <1>1
  <2>6. Talk(h, b, d, a, f)'
    BY <2>1, <2>2, <2>4, <2>5, <1>1, PluginKeeps DEF Talk
  <2> QED BY <2>6
<1> QED BY <1>2, <1>3

(* The handlers of the peer's thread.                                      *)
LEMMA HandlersTalk ==
    ASSUME ManagerTypes, CreateResponse \/ DataIgnored \/ DataFirst \/ Data \/ CloseResponse, NEW h \in Handles,
           NEW b \in Places, NEW d \in Places, NEW a \in Places, NEW e \in Places,
           Talk(h, b, d, a, e)
    PROVE  \E c \in Places : Talk(h, b, d, c, e)'
<1>1. CASE h = peer.dvc
  <2>1. CASE CreateResponse
    BY <1>1, <2>1, CreateResponseTalks
  <2>2. CASE DataIgnored
    BY <1>1, <2>2, DataIgnoredTalks
  <2>3. CASE DataFirst
    BY <1>1, <2>3, DataFirstTalks
  <2>4. CASE Data
    BY <1>1, <2>4, DataTalks
  <2>5. CASE CloseResponse
    BY <1>1, <2>5, CloseResponseTalks
  <2> QED BY <2>1, <2>2, <2>3, <2>4, <2>5
<1>2. CASE h # peer.dvc
  <2>1. \E cmds, rec, keep : Handle(cmds, rec, keep)
    BY Zenon DEF CreateResponse, DataIgnored, DataFirst, Data, CloseResponse
  <2>2. Elsewhere(h)
    BY <1>2, <2>1, HandleElsewhere
  <2> QED BY <2>2, TalkElsewhere
<1> QED BY <1>1, <1>2

(* What is on the way about a channel leads from its reader to its writer, *)
(* before and after each step.                                             *)
LEMMA TalkSteps ==
    ASSUME ManagerTypes, IdsOK, OwnersOK, WritersOK, TalksOK, ManagerNext, NEW h \in Handles
    PROVE  \E b, d, a, e \in Places : Talk(h, b, d, a, e)'
<1>1. PICK b, d, a, e \in Places : Talk(h, b, d, a, e)
  BY DEF TalksOK
<1>2. ASSUME NEW o \in Owners, OwnerStep(o) \/ Stop(o) \/ Reopen(o)
      PROVE  \E c \in Places : Talk(h, b, c, a, e)'
  <2>1. CASE OpenEx(o)
    BY <2>1, <1>1, OpenElsewhere, TalkElsewhere
  <2>2. CASE OpenRequest(o)
    BY <2>2, <1>1, OpenRequestTalks
  <2>3. CASE OpenGivesUp(o) \/ QueryReady(o) \/ Stop(o) \/ Reopen(o)
    BY <2>3, <1>1, OwnersElsewhere, TalkElsewhere
  <2>4. CASE Read(o)
    BY <2>4, <1>1, ReadElsewhere, TalkElsewhere
  <2>5. CASE CloseRequest(o)
    BY <2>5, <1>1, CloseRequestTalks
  <2>6. CASE RemoveChannel(o)
    BY <2>6, <1>1, RemoveElsewhere, TalkElsewhere
  <2> QED BY <2>1, <2>2, <2>3, <2>4, <2>5, <2>6, <1>2 DEF OwnerStep
<1>3. ASSUME NEW w \in Writers, NEW o \in Owners, NEW n \in 1 .. MaxLen, WriteBegins(w, o, n)
      PROVE  Talk(h, b, d, a, e)'
  BY <1>1, <1>3, WriteBeginsTalks
<1>4. ASSUME NEW w \in Writers, WritePdu(w)
      PROVE  \E c \in Places : Talk(h, b, c, a, e)'
  BY <1>1, <1>4, WritePduTalks
<1>5. CASE PeerThreadStep
  <2>1. CASE ManagerOpen \/ CheckFileDescriptor \/ CapabilitiesResponse \/ LookUp
    BY <2>1, <1>1, PeerElsewhere, TalkElsewhere
  <2>2. CASE UnknownChannel
    BY <2>2, <1>1, UnknownTalks
  <2>3. CASE CreateResponse \/ DataIgnored \/ DataFirst \/ Data \/ CloseResponse
    BY <2>3, <1>1, HandlersTalk
  <2> QED BY <2>1, <2>2, <2>3, <1>5 DEF PeerThreadStep
<1>6. CASE DrdynvcStep
  <2>1. CASE ClientCapabilities
    BY <2>1, <1>1, PeerElsewhere, TalkElsewhere
  <2>2. CASE ClientData
    BY <2>2, <1>1, ClientDataTalks
  <2>3. CASE ClientCloseRequest
    BY <2>3, <1>1, ClientCloseRequestTalks
  <2>4. ASSUME NEW accept \in BOOLEAN, ClientCreate(accept)
        PROVE  \E c, f \in Places : Talk(h, c, d, a, f)'
    BY <2>4, <1>1, ClientCreateTalks
  <2> QED BY <2>1, <2>2, <2>3, <2>4, <1>6 DEF DrdynvcStep
<1>7. ASSUME NEW g \in Handles, NEW n \in 1 .. MaxLen, PluginWrites(g, n)
      PROVE  Talk(h, b, d, a, e)'
  BY <1>1, <1>7, PluginWritesTalks
<1>8. ASSUME NEW g \in Handles, PluginPdu(g)
      PROVE  \E f \in Places : Talk(h, b, d, a, f)'
  BY <1>1, <1>8, PluginPduTalks
<1>9. ASSUME NEW g \in Handles, PluginCloses(g)
      PROVE  \E f \in Places : Talk(h, b, d, a, f)'
  BY <1>1, <1>9, PluginClosesTalks
<1>10. CASE Done
  <2>1. UNCHANGED <<drdynvc, seq, ch, vq, owner, writer, peer, up, cl, cw, toClient, toServer, written, got, sent, read>>
    BY <1>10 DEF Done, managerVars, managerState, drdynvcState
  <2>2. Quietly(h, Down, Down') /\ Quietly(h, Up, Up')
    BY <2>1, StreamsStay
  <2>3. Elsewhere(h)
    BY <2>1, <2>2, OnlyStreams
  <2> QED BY <2>3, <1>1, TalkElsewhere
<1> QED BY <1>2, <1>3, <1>4, <1>5, <1>6, <1>7, <1>8, <1>9, <1>10 DEF ManagerNext

-----------------------------------------------------------------------------
(***************************************************************************)
(* Virtual channels: types.                                                *)
(***************************************************************************)

(* A channel is written back.                                              *)
LEMMA ChannelSet ==
    ASSUME ManagerTypes, NEW g \in Handles, NEW rec \in Channels, ch' = [ch EXCEPT ![g] = rec],
           Len(rec.buf) < rec.total \/ rec.buf = <<>>, \A i \in DOMAIN rec.q : Len(rec.q[i]) <= MaxLen
    PROVE  ChannelsOK'
<1>1. ch' \in [Handles -> Channels] /\ ch'[g] = rec /\ \A h \in Handles : h # g => ch'[h] = ch[h]
  BY DEF ManagerTypes, ChannelsOK
<1>2. \A h \in Handles : /\ Len(ch[h].buf) < ch[h].total \/ ch[h].buf = <<>>
                         /\ \A i \in DOMAIN ch[h].q : Len(ch[h].q[i]) <= MaxLen
  BY DEF ManagerTypes, ChannelsOK
<1> QED BY <1>1, <1>2 DEF ChannelsOK

(* Or its message stays as it is.                                          *)
LEMMA ChannelsKept ==
    ASSUME ManagerTypes, ch' \in [Handles -> Channels],
           \A h \in Handles : ch'[h].buf = ch[h].buf /\ ch'[h].total = ch[h].total /\ ch'[h].q = ch[h].q
    PROVE  ChannelsOK'
  BY DEF ManagerTypes, ChannelsOK

(* A message is queued.                                                    *)
LEMMA QueueBound ==
    ASSUME NEW q \in Seq(Seq(Chunks)), NEW m \in Seq(Chunks), Len(m) <= MaxLen,
           \A i \in DOMAIN q : Len(q[i]) <= MaxLen
    PROVE  Append(q, m) \in Seq(Seq(Chunks)) /\ \A i \in DOMAIN Append(q, m) : Len(Append(q, m)[i]) <= MaxLen
<1>1. PICK S : S = Seq(Chunks)
  OBVIOUS
<1>2. q \in Seq(S) /\ m \in S
  BY <1>1
<1>3. /\ Append(q, m) \in Seq(S) /\ DOMAIN Append(q, m) = 1 .. Len(q) + 1 /\ DOMAIN q = 1 .. Len(q)
      /\ \A i \in 1 .. Len(q) + 1 : Append(q, m)[i] = IF i = Len(q) + 1 THEN m ELSE q[i]
  BY <1>2
<1>4. ASSUME NEW i \in DOMAIN Append(q, m) PROVE Len(Append(q, m)[i]) <= MaxLen
  <2>1. PICK n \in Nat : n = Len(q)
    OBVIOUS
  <2>2. i \in 1 .. n + 1
    BY <2>1, <1>3
  <2>3. CASE i = n + 1
    BY <2>1, <2>3, <1>3
  <2>4. CASE i # n + 1
    <3>1. i \in 1 .. n
      BY <2>2, <2>4
    <3>2. i \in DOMAIN q /\ Append(q, m)[i] = q[i]
      BY <3>1, <2>1, <2>2, <2>4, <1>3
    <3> QED BY <3>2
  <2> QED BY <2>3, <2>4
<1> QED BY <1>1, <1>3, <1>4

(* What a handler of the peer's thread leaves.                             *)
LEMMA HandlerLeaves ==
    ASSUME ManagerTypes, CreateResponse \/ DataIgnored \/ DataFirst \/ Data \/ CloseResponse
    PROVE  LET g == peer.dvc  cmd == peer.pdu.cmd IN
           /\ UNCHANGED <<drdynvc, seq, vq, owner, writer, cl, cw, toClient, toServer, written, got, sent, read>>
           /\ peer.pc = "use" /\ peer' = Idle /\ up' = TRUE /\ g \in Handles /\ ChannelsOK'
           /\ Up # <<>> /\ Head(Up) = peer.pdu /\ Up' = Tail(Up) /\ Up \in Seq(Pdus) /\ peer.pdu.id = g
           /\ \A h \in Handles : h # g => ch'[h] = ch[h]
           /\ ch'[g].live = ch[g].live /\ ch'[g].id = ch[g].id /\ ch'[g].lock = ch[g].lock
           /\ ch'[g].closedIn = ch[g].closedIn
           /\ \/ ch'[g].open = ch[g].open
              \/ cmd = "CREATED" /\ ch'[g].open = "SUCCEEDED"
              \/ cmd = "REFUSED" /\ ch'[g].open = "FAILED"
              \/ cmd = "CLOSE" /\ ch'[g].open = "CLOSED"
<1> DEFINE g == peer.dvc
<1>1. PICK cmds, rec, keep : Handle(cmds, rec, keep)
  BY Zenon DEF CreateResponse, DataIgnored, DataFirst, Data, CloseResponse
<1>2. /\ UNCHANGED <<drdynvc, seq, vq, owner, writer, cl, cw, toClient, toServer, written, got, sent, read>>
      /\ peer.pc = "use" /\ peer' = Idle
      /\ Up # <<>> /\ Head(Up) = peer.pdu /\ Up' = Tail(Up) /\ Up \in Seq(Pdus)
      /\ peer.pdu \in Pdus /\ g \in Handles /\ peer.pdu.id = g
      /\ \A h \in Handles : h # g => ch'[h] = ch[h]
  BY <1>1, HandleIs
<1>3. /\ ch[g] \in Channels /\ (Len(ch[g].buf) < ch[g].total \/ ch[g].buf = <<>>)
      /\ ch[g].total \in 0 .. MaxLen /\ ch[g].total \in Nat /\ ch[g].buf \in Seq(Chunks)
      /\ ch[g].q \in Seq(Seq(Chunks)) /\ \A i \in DOMAIN ch[g].q : Len(ch[g].q[i]) <= MaxLen
  BY <1>2, ChannelIs DEF ManagerTypes, ChannelsOK
<1>4. peer.pdu.chunk \in Chunks /\ peer.pdu.total \in 0 .. MaxLen
      /\ (peer.pdu.cmd = "DATA_FIRST" => peer.pdu.total > 1)
  BY <1>2, PduIs
<1> DEFINE Goal ==
           /\ up' = TRUE /\ ChannelsOK'
           /\ ch'[g].live = ch[g].live /\ ch'[g].id = ch[g].id /\ ch'[g].lock = ch[g].lock
           /\ ch'[g].closedIn = ch[g].closedIn
           /\ \/ ch'[g].open = ch[g].open
              \/ peer.pdu.cmd = "CREATED" /\ ch'[g].open = "SUCCEEDED"
              \/ peer.pdu.cmd = "REFUSED" /\ ch'[g].open = "FAILED"
              \/ peer.pdu.cmd = "CLOSE" /\ ch'[g].open = "CLOSED"
<1>10. SUFFICES Goal
  BY <1>2
<1>5. CASE CreateResponse
  <2> DEFINE r == [ch[peer.dvc] EXCEPT !.open = IF peer.pdu.cmd = "CREATED" THEN "SUCCEEDED" ELSE "FAILED"]
  <2>1. Handle({"CREATED", "REFUSED"}, r, TRUE)
    BY <1>5 DEF CreateResponse
  <2>2. /\ r \in Channels /\ r.live = ch[g].live /\ r.id = ch[g].id /\ r.lock = ch[g].lock
        /\ r.closedIn = ch[g].closedIn /\ r.total = ch[g].total /\ r.buf = ch[g].buf /\ r.q = ch[g].q
        /\ r.open = (IF peer.pdu.cmd = "CREATED" THEN "SUCCEEDED" ELSE "FAILED")
    BY <1>3 DEF Channels, OpenStates
  <2> HIDE DEF r
  <2>3. up' = TRUE /\ ch'[g] = r /\ ch' = [ch EXCEPT ![g] = r] /\ peer.pdu.cmd \in {"CREATED", "REFUSED"}
    BY <2>1, HandleIs
  <2>4. ChannelsOK'
    <3>1. (Len(r.buf) < r.total \/ r.buf = <<>>) /\ \A i \in DOMAIN r.q : Len(r.q[i]) <= MaxLen
      BY <2>2, <1>3
    <3> QED BY <3>1, <2>2, <2>3, <1>2, ChannelSet
  <2> QED BY <2>2, <2>3, <2>4
<1>6. CASE DataIgnored
  <2>1. Handle({"DATA_FIRST", "DATA"}, ch[g], TRUE)
    BY <1>6 DEF DataIgnored
  <2>2. up' = TRUE /\ ch'[g] = ch[g]
    BY <2>1, HandleIs, ZenonT(40)
  <2>3. \A h \in Handles : ch'[h] = ch[h]
    BY <2>2, <1>2
  <2>4. ch' \in [Handles -> Channels]
    <3>1. ch' = [ch EXCEPT ![g] = ch[g]]
      BY <2>1, HandleIs, Zenon
    <3> QED BY <3>1, <1>2, <1>3 DEF ManagerTypes, ChannelsOK
  <2>5. ChannelsOK'
    BY <2>3, <2>4, ChannelsKept
  <2> QED BY <2>2, <2>5
<1>7. CASE DataFirst
  <2> DEFINE r == [ch[peer.dvc] EXCEPT !.total = peer.pdu.total, !.buf = <<peer.pdu.chunk>>]
  <2>1. Handle({"DATA_FIRST"}, r, TRUE)
    BY <1>7, Zenon DEF DataFirst
  <2>2. <<peer.pdu.chunk>> \in Seq(Chunks) /\ Len(<<peer.pdu.chunk>>) = 1
    BY <1>4
  <2>3. /\ r \in Channels /\ r.live = ch[g].live /\ r.id = ch[g].id /\ r.lock = ch[g].lock
        /\ r.closedIn = ch[g].closedIn /\ r.total = peer.pdu.total /\ r.buf = <<peer.pdu.chunk>>
        /\ r.q = ch[g].q /\ r.open = ch[g].open
    BY <2>2, <1>3, <1>4 DEF Channels
  <2> HIDE DEF r
  <2>4. up' = TRUE /\ peer.pdu.cmd \in {"DATA_FIRST"} /\ ch'[g] = r /\ ch' = [ch EXCEPT ![g] = r]
    BY <2>1, HandleIs, Zenon
  <2>5. Len(r.buf) < r.total
    BY <2>2, <2>3, <2>4, <1>4
  <2>6. ChannelsOK'
    BY <2>3, <2>4, <2>5, <1>2, <1>3, ChannelSet
  <2> QED BY <2>3, <2>4, <2>6
<1>8. CASE Data
  <2>1. PICK r \in Channels : Handle({"DATA"}, r, TRUE)
    BY <1>2, <1>8, DataIs
  <2>2. up' = TRUE /\ ch'[g] = r /\ ch' = [ch EXCEPT ![g] = r]
    BY <2>1, HandleIs
  <2>3. /\ ch[g].open = "SUCCEEDED"
        /\ r.open = "SUCCEEDED" /\ r.closedIn = ch[g].closedIn /\ r.live = ch[g].live
        /\ r.id = ch[g].id /\ r.lock = ch[g].lock
        /\ ch[g].total = 0 => r.total = 0 /\ r.buf = <<>> /\ r.q = Append(ch[g].q, <<peer.pdu.chunk>>)
        /\ ch[g].total > 0 => Len(ch[g].buf) + 1 <= ch[g].total
        /\ ch[g].total > 0 /\ Len(ch[g].buf) + 1 = ch[g].total =>
             r.total = 0 /\ r.buf = <<>> /\ r.q = Append(ch[g].q, Append(ch[g].buf, peer.pdu.chunk))
        /\ ch[g].total > 0 /\ Len(ch[g].buf) + 1 < ch[g].total =>
             r.total = ch[g].total /\ r.q = ch[g].q /\ r.buf = Append(ch[g].buf, peer.pdu.chunk)
    BY <2>2, <1>2, <1>8, DataIs
  <2>4. PICK n \in Nat : n = Len(ch[g].buf)
    BY <1>3
  <2>5. <<peer.pdu.chunk>> \in Seq(Chunks) /\ Len(<<peer.pdu.chunk>>) = 1
        /\ Append(ch[g].buf, peer.pdu.chunk) \in Seq(Chunks) /\ Len(Append(ch[g].buf, peer.pdu.chunk)) = n + 1
    BY <1>3, <1>4, <2>4
  <2> HIDE DEF g
  <2>6. (Len(r.buf) < r.total \/ r.buf = <<>>) /\ \A i \in DOMAIN r.q : Len(r.q[i]) <= MaxLen
    <3>1. CASE ch[g].total = 0
      <4>1. Len(<<peer.pdu.chunk>>) <= MaxLen
        BY <2>5, ManagerAssumption
      <4> QED BY <3>1, <4>1, <2>3, <2>5, <1>3, QueueBound
    <3>2. CASE ch[g].total > 0 /\ n + 1 = ch[g].total
      <4>1. Len(Append(ch[g].buf, peer.pdu.chunk)) <= MaxLen
        BY <3>2, <2>5, <1>3, ManagerAssumption
      <4>2. PICK all \in Seq(Chunks) : all = Append(ch[g].buf, peer.pdu.chunk) /\ Len(all) <= MaxLen
        BY <4>1, <2>5
      <4>3. r.buf = <<>> /\ r.q = Append(ch[g].q, all)
        BY <3>2, <4>2, <2>3, <2>4
      <4> QED BY <4>2, <4>3, <1>3, QueueBound
    <3>3. CASE ch[g].total > 0 /\ n + 1 < ch[g].total
      <4>1. r.total = ch[g].total /\ r.q = ch[g].q /\ r.buf = Append(ch[g].buf, peer.pdu.chunk)
        BY <3>3, <2>3, <2>4
      <4>2. Len(r.buf) < r.total
        BY <3>3, <4>1, <2>5
      <4> QED BY <4>1, <4>2, <1>3
    <3>4. ch[g].total > 0 => n + 1 <= ch[g].total
      BY <2>3, <2>4
    <3>5. ch[g].total = 0 \/ (ch[g].total > 0 /\ n + 1 = ch[g].total) \/ (ch[g].total > 0 /\ n + 1 < ch[g].total)
      BY <3>4, <1>3
    <3> QED BY <3>1, <3>2, <3>3, <3>5
  <2>7. ChannelsOK'
    BY <2>2, <2>6, <1>2, ChannelSet
  <2> QED BY <2>2, <2>3, <2>7
<1>9. CASE CloseResponse
  <2> DEFINE r == [ch[peer.dvc] EXCEPT !.open = "CLOSED", !.q = Append(@, Quit)]
  <2>1. Handle({"CLOSE"}, r, TRUE)
    BY <1>9, Zenon DEF CloseResponse
  <2>2. Quit \in Seq(Chunks) /\ Len(Quit) <= MaxLen
    BY ManagerAssumption DEF Quit
  <2>3. Append(ch[g].q, Quit) \in Seq(Seq(Chunks)) /\ \A i \in DOMAIN Append(ch[g].q, Quit) : Len(Append(ch[g].q, Quit)[i]) <= MaxLen
    BY <2>2, <1>3, QueueBound
  <2>4. /\ r \in Channels /\ r.live = ch[g].live /\ r.id = ch[g].id /\ r.lock = ch[g].lock
        /\ r.closedIn = ch[g].closedIn /\ r.total = ch[g].total /\ r.buf = ch[g].buf
        /\ r.q = Append(ch[g].q, Quit) /\ r.open = "CLOSED"
    BY <2>3, <1>3 DEF Channels, OpenStates
  <2> HIDE DEF r
  <2>5. up' = TRUE /\ peer.pdu.cmd \in {"CLOSE"} /\ ch'[g] = r /\ ch' = [ch EXCEPT ![g] = r]
    BY <2>1, HandleIs, Zenon
  <2>6. ChannelsOK'
    <3>1. (Len(r.buf) < r.total \/ r.buf = <<>>) /\ \A i \in DOMAIN r.q : Len(r.q[i]) <= MaxLen
      BY <2>3, <2>4, <1>3
    <3> QED BY <3>1, <2>4, <2>5, <1>2, ChannelSet
  <2> QED BY <2>4, <2>5, <2>6
<1> HIDE DEF Goal
<1> QED BY <1>5, <1>6, <1>7, <1>8, <1>9

(* Types of what does not change.                                          *)
LEMMA TypesKept ==
    ASSUME ManagerTypes
    PROVE  /\ UNCHANGED ch => ChannelsOK'
           /\ UNCHANGED <<drdynvc, seq, owner, writer, peer>> => ThreadsOK'
           /\ UNCHANGED <<vq, toClient, toServer>> => WireOK'
           /\ UNCHANGED <<cl, cw>> => PluginsOK'
           /\ UNCHANGED <<written, got, sent, read>> => GhostsOK'
<1>1. UNCHANGED ch => ChannelsOK'
  BY DEF ManagerTypes, ChannelsOK
<1>2. UNCHANGED <<drdynvc, seq, owner, writer, peer>> => ThreadsOK'
  BY DEF ManagerTypes, ThreadsOK
<1>3. UNCHANGED <<vq, toClient, toServer>> => WireOK'
  BY DEF ManagerTypes, WireOK
<1>4. UNCHANGED <<cl, cw>> => PluginsOK'
  BY DEF ManagerTypes, PluginsOK
<1>5. UNCHANGED <<written, got, sent, read>> => GhostsOK'
  BY DEF ManagerTypes, GhostsOK
<1> QED BY <1>1, <1>2, <1>3, <1>4, <1>5

(* A serving thread goes on.                                               *)
LEMMA OwnerThreads ==
    ASSUME ManagerTypes, NEW o \in Owners, NEW pc \in OwnerPcs, Go(o, pc), UNCHANGED <<drdynvc, seq, writer, peer>>
    PROVE  ThreadsOK'
  BY OwnerGoes DEF ManagerTypes, ThreadsOK

(* The types of the queues.                                                *)
LEMMA WireTypes ==
    ASSUME ManagerTypes
    PROVE  /\ \A x \in Pdus : vq' = Append(vq, x) /\ UNCHANGED <<toClient, toServer>> => WireOK'
           /\ vq # <<>> /\ toClient' = Append(toClient, Head(vq)) /\ vq' = Tail(vq) /\ UNCHANGED toServer => WireOK'
           /\ toServer # <<>> /\ toServer' = Tail(toServer) /\ UNCHANGED <<vq, toClient>> => WireOK'
           /\ toClient # <<>> /\ toClient' = Tail(toClient) /\ UNCHANGED <<vq, toServer>> => WireOK'
           /\ \A x \in Pdus : /\ toServer' = Append(toServer, x) /\ UNCHANGED vq
                              /\ toClient' = toClient \/ (toClient # <<>> /\ toClient' = Tail(toClient))
                              => WireOK'
<1>1. vq \in Seq(Pdus) /\ toClient \in Seq(Pdus) /\ toServer \in Seq(Pdus)
  BY DEF ManagerTypes, WireOK
<1>2. /\ \A x \in Pdus : Append(vq, x) \in Seq(Pdus) /\ Append(toClient, x) \in Seq(Pdus) /\ Append(toServer, x) \in Seq(Pdus)
      /\ vq # <<>> => Head(vq) \in Pdus /\ Tail(vq) \in Seq(Pdus)
      /\ toClient # <<>> => Tail(toClient) \in Seq(Pdus)
      /\ toServer # <<>> => Tail(toServer) \in Seq(Pdus)
  BY <1>1
<1> QED BY <1>1, <1>2 DEF WireOK

(* Types, of the steps of the serving threads.                             *)
LEMMA OwnerTypes ==
    ASSUME ManagerTypes, IdsOK, OwnersOK, NEW o \in Owners, OwnerStep(o) \/ Stop(o) \/ Reopen(o)
    PROVE  ManagerTypes'
<1>1. CASE OpenEx(o)
  <2>1. UNCHANGED <<drdynvc, vq, writer, peer, up, cl, cw, toClient, toServer, written, got, sent, read>>
        /\ seq' = seq + 1 /\ seq < MaxOpen
        /\ ch' = [ch EXCEPT ![seq + 1] = [NoChannel EXCEPT !.live = TRUE, !.id = NextId(seq)]]
        /\ owner' = [owner EXCEPT ![o] = [pc |-> "request", h |-> seq + 1]]
    BY <1>1, WireUnchanged DEF OpenEx
  <2>2. seq + 1 \in Handles /\ seq + 1 \in 0 .. MaxOpen /\ NextId(seq) = seq + 1
    BY <2>1, ManagerAssumption DEF ManagerTypes, ThreadsOK, Handles, NextId
  <2> DEFINE rec == [NoChannel EXCEPT !.live = TRUE, !.id = seq + 1]
  <2>3. rec \in Channels /\ rec.buf = <<>> /\ rec.q = <<>>
    BY <2>2, NewChannel
  <2>4. ch' = [ch EXCEPT ![seq + 1] = rec]
    BY <2>1, <2>2
  <2> HIDE DEF rec
  <2>5. ChannelsOK'
    <3>1. \A i \in DOMAIN rec.q : Len(rec.q[i]) <= MaxLen
      BY <2>3
    <3> QED BY <3>1, <2>2, <2>3, <2>4, ChannelSet
  <2>6. [pc |-> "request", h |-> seq + 1] \in [pc : OwnerPcs, h : 0 .. MaxOpen]
    BY <2>2 DEF OwnerPcs
  <2>7. owner' \in [Owners -> [pc : OwnerPcs, h : 0 .. MaxOpen]]
    BY <2>1, <2>6 DEF ManagerTypes, ThreadsOK
  <2>8. ThreadsOK'
    BY <2>1, <2>2, <2>7 DEF ManagerTypes, ThreadsOK
  <2> QED BY <2>1, <2>5, <2>8, TypesKept DEF ManagerTypes
<1>2. CASE OpenRequest(o)
  <2>1. owner[o].pc \in Serving
    BY <1>2 DEF OpenRequest, At, Serving
  <2>2. owner[o].h \in Handles /\ ch[owner[o].h].id = owner[o].h
    BY <2>1, ServedIs
  <2>3. /\ UNCHANGED <<drdynvc, seq, ch, writer, peer, up, cl, cw, toClient, toServer, written, got, sent, read>>
        /\ Go(o, "wait") /\ vq' = Append(vq, Pdu("CREATE", owner[o].h, owner[o].h))
    BY <2>2, <1>2, WireUnchanged DEF OpenRequest
  <2>4. WireOK'
    BY <2>2, <2>3, NewPdu, WireTypes
  <2>5. ThreadsOK'
    BY <2>3, OwnerThreads DEF OwnerPcs
  <2> QED BY <2>3, <2>4, <2>5, TypesKept DEF ManagerTypes
<1>3. CASE OpenGivesUp(o) \/ QueryReady(o) \/ Stop(o) \/ Reopen(o)
  <2>1. UNCHANGED <<drdynvc, seq, ch, vq, writer, peer, up, cl, cw, toClient, toServer, written, got, sent, read>>
    BY <1>3, WireUnchanged DEF OpenGivesUp, QueryReady, Stop, Reopen
  <2>2. PICK pc \in OwnerPcs : Go(o, pc)
    BY <1>3 DEF OpenGivesUp, QueryReady, Stop, Reopen, OwnerPcs
  <2>3. ThreadsOK'
    BY <2>1, <2>2, OwnerThreads
  <2> QED BY <2>1, <2>3, TypesKept DEF ManagerTypes
<1>4. CASE Read(o)
  <2> DEFINE g == owner[o].h
  <2>1. g \in Handles
    <3>1. owner[o].pc \in Serving
      BY <1>4 DEF Read, At, Serving
    <3> QED BY <3>1, ServedIs
  <2>2. UNCHANGED <<drdynvc, seq, vq, writer, peer, up, cl, cw, toClient, toServer, written, got, sent>> /\ ch[g].q # <<>>
    BY <1>4, WireUnchanged DEF Read
  <2>3. CASE Head(ch[g].q) = Quit
    <3>1. Go(o, "close") /\ UNCHANGED <<ch, read>>
      BY <1>4, <2>3 DEF Read
    <3>2. ThreadsOK'
      BY <3>1, <2>2, OwnerThreads DEF OwnerPcs
    <3> QED BY <3>1, <3>2, <2>2, TypesKept DEF ManagerTypes
  <2>4. CASE Head(ch[g].q) # Quit
    <3>1. /\ read' = [read EXCEPT ![g] = Append(read[g], Head(ch[g].q))]
          /\ ch' = [ch EXCEPT ![g].q = Tail(ch[g].q)] /\ UNCHANGED owner
      BY <1>4, <2>4 DEF Read
    <3>2. /\ ch[g] \in Channels /\ ch[g].q \in Seq(Seq(Chunks)) /\ read[g] \in Seq(Seq(Chunks))
          /\ (Len(ch[g].buf) < ch[g].total \/ ch[g].buf = <<>>)
          /\ \A i \in DOMAIN ch[g].q : Len(ch[g].q[i]) <= MaxLen
      BY <2>1, ChannelIs DEF ManagerTypes, ChannelsOK
    <3>3. PICK q \in Seq(Seq(Chunks)) : q = ch[g].q
      BY <3>2
    <3>4. /\ Tail(q) \in Seq(Seq(Chunks)) /\ Head(q) \in Seq(Chunks)
          /\ \A i \in DOMAIN Tail(q) : i + 1 \in DOMAIN q /\ Tail(q)[i] = q[i + 1]
      BY <3>3, <2>2
    <3> DEFINE rec == [ch[g] EXCEPT !.q = Tail(q)]
    <3>5. rec \in Channels /\ rec.q = Tail(q) /\ rec.buf = ch[g].buf /\ rec.total = ch[g].total
      BY <3>2, <3>4 DEF Channels
    <3>6. ch' = [ch EXCEPT ![g] = rec]
      BY <3>1, <3>3
    <3> HIDE DEF rec, g
    <3>7. ChannelsOK'
      <4>1. \A i \in DOMAIN rec.q : Len(rec.q[i]) <= MaxLen
        BY <3>2, <3>3, <3>4, <3>5
      <4> QED BY <4>1, <3>2, <3>5, <3>6, <2>1, ChannelSet
    <3>8. Append(read[g], Head(q)) \in Seq(Seq(Chunks))
      BY <3>2, <3>4
    <3>9. read' \in [Handles -> Seq(Seq(Chunks))]
      BY <3>1, <3>3, <3>8, <2>1 DEF ManagerTypes, GhostsOK
    <3>10. GhostsOK'
      BY <3>9, <2>2 DEF ManagerTypes, GhostsOK
    <3> QED BY <3>1, <3>7, <3>10, <2>2, TypesKept DEF ManagerTypes
  <2> QED BY <2>3, <2>4
<1>5. CASE CloseRequest(o)
  <2> DEFINE g == owner[o].h
  <2>1. owner[o].pc \in Serving
    BY <1>5 DEF CloseRequest, At, Serving
  <2>2. g \in Handles /\ ch[g].id = g
    BY <2>1, ServedIs
  <2>3. /\ UNCHANGED <<drdynvc, seq, writer, peer, up, cl, cw, toClient, toServer, written, got, sent, read>>
        /\ Go(o, "remove") /\ ch' = [ch EXCEPT ![g].closedIn = ch[g].open]
        /\ vq' = IF ch[g].open = "SUCCEEDED" THEN Append(vq, Pdu("CLOSE", g, g)) ELSE vq
    BY <2>2, <1>5, WireUnchanged DEF CloseRequest
  <2>4. WireOK'
    <3>1. CASE ch[g].open = "SUCCEEDED"
      BY <3>1, <2>2, <2>3, NewPdu, WireTypes
    <3>2. CASE ch[g].open # "SUCCEEDED"
      BY <3>2, <2>3, TypesKept
    <3> QED BY <3>1, <3>2
  <2>5. ThreadsOK'
    BY <2>3, OwnerThreads DEF OwnerPcs
  <2>6. ch \in [Handles -> Channels] /\ ch[g].open \in OpenStates
    BY <2>2, ChannelIs DEF ManagerTypes, ChannelsOK
  <2> HIDE DEF g
  <2>7. /\ ch' \in [Handles -> Channels]
        /\ \A h \in Handles : ch'[h].buf = ch[h].buf /\ ch'[h].total = ch[h].total /\ ch'[h].q = ch[h].q
    BY <2>2, <2>3, <2>6, ZenonT(40) DEF Channels
  <2>8. ChannelsOK'
    BY <2>7, ChannelsKept
  <2> QED BY <2>3, <2>4, <2>5, <2>8, TypesKept DEF ManagerTypes
<1>6. CASE RemoveChannel(o)
  <2>1. owner[o].pc \in Serving
    BY <1>6 DEF RemoveChannel, At, Serving
  <2>2. owner[o].h \in Handles
    BY <2>1, ServedIs
  <2>3. /\ UNCHANGED <<drdynvc, seq, vq, writer, peer, up, cl, cw, toClient, toServer, written, got, sent, read>>
        /\ Go(o, "done") /\ ch' = [ch EXCEPT ![owner[o].h].live = FALSE]
    BY <1>6, WireUnchanged DEF RemoveChannel
  <2>4. ch \in [Handles -> Channels]
    BY DEF ManagerTypes, ChannelsOK
  <2>5. /\ ch' \in [Handles -> Channels]
        /\ \A h \in Handles : ch'[h].buf = ch[h].buf /\ ch'[h].total = ch[h].total /\ ch'[h].q = ch[h].q
    BY <2>2, <2>3, <2>4, ZenonT(40) DEF Channels
  <2>6. ChannelsOK'
    BY <2>5, ChannelsKept
  <2>7. ThreadsOK'
    BY <2>3, OwnerThreads DEF OwnerPcs
  <2> QED BY <2>3, <2>6, <2>7, TypesKept DEF ManagerTypes
<1> QED BY <1>1, <1>2, <1>3, <1>4, <1>5, <1>6 DEF OwnerStep

(* Types, of the steps of the threads that write.                          *)
LEMMA WriterTypes ==
    ASSUME ManagerTypes, IdsOK, OwnersOK, WritersOK, TalksOK,
           (\E w \in Writers, o \in Owners, n \in 1 .. MaxLen : WriteBegins(w, o, n)) \/ \E w \in Writers : WritePdu(w)
    PROVE  ManagerTypes'
<1>1. ASSUME NEW w \in Writers, NEW o \in Owners, NEW n \in 1 .. MaxLen, WriteBegins(w, o, n)
      PROVE  ManagerTypes'
  <2> DEFINE g == owner[o].h
  <2>1. PICK msg \in Writes :
           /\ UNCHANGED <<drdynvc, seq, vq, owner, peer, up, cl, cw, toClient, toServer, got, sent, read>>
           /\ g \in Handles
           /\ ch' = [ch EXCEPT ![g].lock = TRUE]
           /\ written' = [written EXCEPT ![g] = Append(written[g], msg)]
           /\ writer' = [writer EXCEPT ![w] = [h |-> g, left |-> DataPdus(g, g, msg)]]
    BY <1>1, WriteBeginsIs
  <2>2. ch \in [Handles -> Channels]
    BY DEF ManagerTypes, ChannelsOK
  <2>3. DataPdus(g, g, msg) \in Seq(Pdus) /\ g \in 0 .. MaxOpen
    BY <2>1, DataPdusAre, ManagerAssumption DEF Handles
  <2> HIDE DEF g
  <2>4. /\ ch' \in [Handles -> Channels]
        /\ \A h \in Handles : ch'[h].buf = ch[h].buf /\ ch'[h].total = ch[h].total /\ ch'[h].q = ch[h].q
    BY <2>1, <2>2 DEF Channels
  <2>5. ChannelsOK'
    BY <2>4, ChannelsKept
  <2>6. [h |-> g, left |-> DataPdus(g, g, msg)] \in [h : 0 .. MaxOpen, left : Seq(Pdus)]
    BY <2>3
  <2>7. writer' \in [Writers -> [h : 0 .. MaxOpen, left : Seq(Pdus)]]
    BY <2>1, <2>6 DEF ManagerTypes, ThreadsOK
  <2>8. ThreadsOK'
    BY <2>1, <2>7 DEF ManagerTypes, ThreadsOK
  <2>9. written[g] \in Seq(Writes)
    BY <2>1, ChannelIs
  <2>10. Append(written[g], msg) \in Seq(Writes)
    BY <2>9
  <2>11. GhostsOK'
    BY <2>1, <2>10 DEF ManagerTypes, GhostsOK
  <2> QED BY <2>1, <2>5, <2>8, <2>11, TypesKept DEF ManagerTypes
<1>2. ASSUME NEW w \in Writers, WritePdu(w) PROVE ManagerTypes'
  <2>1. /\ UNCHANGED <<drdynvc, seq, owner, peer, up, cl, cw, toClient, toServer, written, got, sent, read>>
        /\ Head(writer[w].left) \in Pdus /\ vq' = Append(vq, Head(writer[w].left))
        /\ ch' \in [Handles -> Channels] /\ writer' \in [Writers -> [h : 0 .. MaxOpen, left : Seq(Pdus)]]
        /\ \A h \in Handles : ch'[h].buf = ch[h].buf /\ ch'[h].total = ch[h].total /\ ch'[h].q = ch[h].q
    BY <1>2, WritePduIs
  <2>2. ChannelsOK'
    BY <2>1, ChannelsKept
  <2>3. ThreadsOK'
    BY <2>1 DEF ManagerTypes, ThreadsOK
  <2>4. WireOK'
    BY <2>1, WireTypes
  <2> QED BY <2>1, <2>2, <2>3, <2>4, TypesKept DEF ManagerTypes
<1> QED BY <1>1, <1>2

(* The PDU the peer's thread looks up belongs to the channel it finds.     *)
LEMMA LookUpIs ==
    ASSUME ManagerTypes, IdsOK, LookUp
    PROVE  /\ UNCHANGED <<drdynvc, seq, ch, vq, owner, writer, up, cl, cw, toClient, written, got, sent, read>>
           /\ toServer # <<>> /\ toServer' = Tail(toServer) /\ Up' = Up
           /\ peer' \in [pc : {"use"}, pdu : Pdus, dvc : Handles]
           /\ peer'.pdu.cmd # "CAPS" /\ peer'.pdu.id = peer'.dvc /\ ch[peer'.dvc].live
<1>1. /\ UNCHANGED <<drdynvc, seq, ch, vq, owner, writer, up, cl, cw, toClient, written, got, sent, read>>
      /\ toServer # <<>> /\ toServer' = Tail(toServer) /\ peer.pc = "loop" /\ Head(toServer).cmd # "CAPS"
  BY WireUnchanged DEF LookUp, Receive, InLoop
<1>2. PICK h \in Named(Head(toServer)) : peer' = [pc |-> "use", pdu |-> Head(toServer), dvc |-> h]
  BY DEF LookUp
<1>3. h \in Handles /\ ch[h].live /\ ch[h].id = Head(toServer).id
  BY <1>2 DEF Named
<1>4. Head(toServer) \in Pdus
  BY <1>1 DEF ManagerTypes, WireOK
<1>5. ~(h > seq)
  BY <1>3 DEF IdsOK, NoChannel
<1>6. ch[h].id = h
  BY <1>3, <1>5 DEF IdsOK, ManagerTypes, ThreadsOK, Handles
<1>7. peer' \in [pc : {"use"}, pdu : Pdus, dvc : Handles] /\ peer'.pdu = Head(toServer) /\ peer'.dvc = h /\ peer'.pc = "use"
  BY <1>2, <1>3, <1>4
<1>8. Up' = Up
  BY <1>1, <1>7, UpLooksUp
<1> QED BY <1>1, <1>3, <1>6, <1>7, <1>8

(* Types, of the steps of the peer's thread.                               *)
LEMMA PeerThreadTypes ==
    ASSUME ManagerTypes, IdsOK, PeerThreadStep
    PROVE  ManagerTypes'
<1>1. CASE ManagerOpen
  <2>1. UNCHANGED <<seq, ch, owner, writer, cl, cw, written, got, sent, read, toClient, toServer, peer, up>>
        /\ vq' = Append(vq, Pdu("CAPS", 0, 0)) /\ drdynvc' = "INITIALIZED"
    BY <1>1, WireUnchanged DEF ManagerOpen
  <2>2. WireOK'
    BY <2>1, CapsPdu, WireTypes
  <2>3. ThreadsOK'
    BY <2>1 DEF ManagerTypes, ThreadsOK
  <2> QED BY <2>1, <2>2, <2>3, TypesKept DEF ManagerTypes
<1>2. CASE CheckFileDescriptor
  <2>1. UNCHANGED <<drdynvc, seq, ch, owner, writer, cl, cw, written, got, sent, read, toServer, peer, up>>
        /\ vq # <<>> /\ toClient' = Append(toClient, Head(vq)) /\ vq' = Tail(vq)
    BY <1>2, WireUnchanged DEF CheckFileDescriptor
  <2>2. WireOK'
    BY <2>1, WireTypes
  <2> QED BY <2>1, <2>2, TypesKept DEF ManagerTypes
<1>3. CASE CapabilitiesResponse
  <2>1. UNCHANGED <<seq, ch, owner, writer, cl, cw, written, got, sent, read, toClient, vq, peer, up>>
        /\ toServer # <<>> /\ toServer' = Tail(toServer) /\ drdynvc' = "READY"
    BY <1>3, WireUnchanged DEF CapabilitiesResponse, Receive
  <2>2. WireOK'
    BY <2>1, WireTypes
  <2>3. ThreadsOK'
    BY <2>1 DEF ManagerTypes, ThreadsOK
  <2> QED BY <2>1, <2>2, <2>3, TypesKept DEF ManagerTypes
<1>4. CASE UnknownChannel
  <2>1. UNCHANGED <<drdynvc, seq, ch, vq, owner, writer, peer, up, cl, cw, toClient, written, got, sent, read>>
        /\ toServer # <<>> /\ toServer' = Tail(toServer)
    BY <1>4, WireUnchanged DEF UnknownChannel, Receive
  <2>2. WireOK'
    BY <2>1, WireTypes
  <2> QED BY <2>1, <2>2, TypesKept DEF ManagerTypes
<1>5. CASE LookUp
  <2>1. /\ UNCHANGED <<drdynvc, seq, ch, vq, owner, writer, up, cl, cw, toClient, written, got, sent, read>>
        /\ toServer # <<>> /\ toServer' = Tail(toServer)
        /\ peer' \in [pc : {"use"}, pdu : Pdus, dvc : Handles]
        /\ peer'.pdu.cmd # "CAPS" /\ peer'.pdu.id = peer'.dvc
    BY <1>5, LookUpIs
  <2>2. WireOK'
    BY <2>1, WireTypes
  <2>3. ThreadsOK'
    BY <2>1 DEF ManagerTypes, ThreadsOK
  <2> QED BY <2>1, <2>2, <2>3, TypesKept DEF ManagerTypes
<1>6. CASE CreateResponse \/ DataIgnored \/ DataFirst \/ Data \/ CloseResponse
  <2>1. /\ UNCHANGED <<drdynvc, seq, vq, owner, writer, cl, cw, toClient, toServer, written, got, sent, read>>
        /\ peer' = Idle /\ up' = TRUE /\ ChannelsOK'
    BY <1>6, HandlerLeaves
  <2>2. ThreadsOK'
    BY <2>1 DEF ManagerTypes, ThreadsOK
  <2> QED BY <2>1, <2>2, TypesKept DEF ManagerTypes
<1> QED BY <1>1, <1>2, <1>3, <1>4, <1>5, <1>6 DEF PeerThreadStep

(* A channel of the client is written back.                                *)
LEMMA DvcSet ==
    ASSUME ManagerTypes, NEW g \in Handles, cl' \in [Handles -> Dvcs], UNCHANGED cw,
           \A h \in Handles : h # g => cl'[h] = cl[h],
           Len(cl'[g].data) < cl'[g].len \/ cl'[g].data = <<>>, cl'[g].running => cl'[g].h = g
    PROVE  PluginsOK'
<1>1. \A h \in Handles :
         /\ Len(cl[h].data) < cl[h].len \/ cl[h].data = <<>>
         /\ cl[h].running => cl[h].h = h
  BY DEF ManagerTypes, PluginsOK
<1>2. cw \in [Handles -> Seq(Pdus)] /\ \A h \in Handles : \A j \in DOMAIN cw[h] : cw[h][j].id = h /\ cw[h][j].cmd \in DataCmds
  BY DEF ManagerTypes, PluginsOK
<1> QED BY <1>1, <1>2 DEF PluginsOK

(* What a plugin has still to write is replaced.                           *)
LEMMA RestSet ==
    ASSUME ManagerTypes, NEW g \in Handles, NEW s \in Seq(Pdus), cw' = [cw EXCEPT ![g] = s], UNCHANGED cl,
           \A j \in DOMAIN s : s[j].id = g /\ s[j].cmd \in DataCmds
    PROVE  PluginsOK'
<1>1. cw' \in [Handles -> Seq(Pdus)] /\ cw'[g] = s /\ \A h \in Handles : h # g => cw'[h] = cw[h]
  BY DEF ManagerTypes, PluginsOK
<1>2. \A h \in Handles : \A j \in DOMAIN cw[h] : cw[h][j].id = h /\ cw[h][j].cmd \in DataCmds
  BY DEF ManagerTypes, PluginsOK
<1>3. \A h \in Handles : \A j \in DOMAIN cw'[h] : cw'[h][j].id = h /\ cw'[h][j].cmd \in DataCmds
  BY <1>1, <1>2
<1>4. \A h \in Handles :
         /\ Len(cl[h].data) < cl[h].len \/ cl[h].data = <<>>
         /\ cl[h].running => cl[h].h = h
  BY DEF ManagerTypes, PluginsOK
<1>5. cl \in [Handles -> Dvcs]
  BY DEF ManagerTypes, PluginsOK
<1> QED BY <1>1, <1>3, <1>4, <1>5 DEF PluginsOK

(* Types, of the client's steps.                                           *)
LEMMA DrdynvcTypes ==
    ASSUME ManagerTypes, TalksOK, DrdynvcStep
    PROVE  ManagerTypes'
<1>1. CASE ClientCapabilities
  <2>1. UNCHANGED <<drdynvc, seq, ch, owner, writer, cl, cw, written, got, sent, read, vq, peer, up>>
        /\ toClient # <<>> /\ toClient' = Tail(toClient) /\ toServer' = Append(toServer, Pdu("CAPS", 0, 0))
    BY <1>1, WireUnchanged DEF ClientCapabilities, ClientReceives
  <2>2. WireOK'
    BY <2>1, CapsPdu, WireTypes
  <2> QED BY <2>1, <2>2, TypesKept DEF ManagerTypes
<1>2. CASE ClientData
  <2> DEFINE x == Head(toClient)
             g == x.id
  <2>1. /\ ClientReceives({"DATA_FIRST", "DATA"}) /\ g \in Handles /\ x \in Pdus /\ UNCHANGED toServer
        /\ cl' \in [Handles -> Dvcs] /\ got' \in [Handles -> Seq(Seq(Chunks))]
        /\ \A h \in Handles : h # g => cl'[h] = cl[h]
        /\ cl'[g].running = cl[g].running /\ cl'[g].h = cl[g].h
        /\ ~cl[g].running => UNCHANGED <<cl, got>>
    BY <1>2, ClientDataIs
  <2>2. /\ UNCHANGED <<drdynvc, seq, ch, vq, owner, writer, peer, up, cw, written, sent, read>>
        /\ toClient # <<>> /\ toClient' = Tail(toClient)
    BY <2>1, ClientTakes
  <2>3. WireOK'
    BY <2>1, <2>2, WireTypes
  <2>4. GhostsOK'
    BY <2>1, <2>2 DEF ManagerTypes, GhostsOK
  <2>5. cl[g].data \in Seq(Chunks) /\ x.chunk \in Chunks /\ (x.cmd = "DATA_FIRST" => x.total > 1)
        /\ (cl[g].running => cl[g].h = g) /\ x.total \in Nat
    BY <2>1, DvcIs, PduIs
  <2>6. Len(<<x.chunk>>) = 1 /\ Len(Append(cl[g].data, x.chunk)) = Len(cl[g].data) + 1
    BY <2>5
  <2>7. CASE cl[g].running
    <3>1. \/ x.cmd = "DATA_FIRST" /\ cl'[g].len = x.total /\ cl'[g].data = <<x.chunk>>
          \/ cl'[g].data = <<>>
          \/ /\ Len(cl[g].data) + 1 < cl[g].len
             /\ cl'[g].len = cl[g].len /\ cl'[g].data = Append(cl[g].data, x.chunk)
      BY <1>2, <2>7, ClientDataIs
    <3> HIDE DEF x, g
    <3>2. Len(cl'[g].data) < cl'[g].len \/ cl'[g].data = <<>>
      BY <3>1, <2>5, <2>6
    <3>3. PluginsOK'
      BY <3>2, <2>1, <2>2, <2>5, DvcSet
    <3> QED BY <3>3, <2>2, <2>3, <2>4, TypesKept DEF ManagerTypes
  <2>8. CASE ~cl[g].running
    BY <2>8, <2>1, <2>2, <2>3, <2>4, TypesKept DEF ManagerTypes
  <2> QED BY <2>7, <2>8
<1>3. CASE ClientCloseRequest
  <2> DEFINE g == Head(toClient).id
  <2>1. /\ ClientReceives({"CLOSE"}) /\ UNCHANGED got
        /\ cl[g].running => ClientCloses(g)
        /\ ~cl[g].running => UNCHANGED <<cl, toServer>>
    BY <1>3 DEF ClientCloseRequest
  <2>2. /\ UNCHANGED <<drdynvc, seq, ch, vq, owner, writer, peer, up, cw, written, sent, read>>
        /\ toClient # <<>> /\ toClient' = Tail(toClient) /\ ("CAPS" \notin {"CLOSE"} => g \in Handles)
    BY <2>1, ClientTakes
  <2>3. CASE cl[g].running
    <3>1. /\ cl' \in [Handles -> Dvcs] /\ cl'[g] = NoDvc /\ \A h \in Handles : h # g => cl'[h] = cl[h]
          /\ toServer' = Append(toServer, Pdu("CLOSE", g, g)) /\ Pdu("CLOSE", g, g) \in Pdus /\ g \in Handles
      BY <2>1, <2>2, <2>3, ClientClosesIs
    <3>2. WireOK'
      BY <3>1, <2>2, WireTypes
    <3> HIDE DEF g
    <3>3. PluginsOK'
      BY <3>1, <2>2, NewDvc, DvcSet
    <3> QED BY <3>2, <3>3, <2>1, <2>2, TypesKept DEF ManagerTypes
  <2>4. CASE ~cl[g].running
    <3>1. WireOK'
      BY <2>1, <2>2, <2>4, WireTypes
    <3> QED BY <3>1, <2>1, <2>2, <2>4, TypesKept DEF ManagerTypes
  <2> QED BY <2>3, <2>4
<1>4. ASSUME NEW accept \in BOOLEAN, ClientCreate(accept) PROVE ManagerTypes'
  <2> DEFINE g == Head(toClient).id
  <2>1. /\ ClientReceives({"CREATE"}) /\ g \in Handles /\ UNCHANGED got
        /\ cl' \in [Handles -> Dvcs] /\ \A h \in Handles : h # g => cl'[h] = cl[h]
        /\ \/ cl'[g].running /\ cl'[g].h = g /\ cl'[g].len = 0 /\ cl'[g].data = <<>>
           \/ cl' = cl
        /\ \/ toServer' = Append(toServer, Pdu("CREATED", g, g))
           \/ toServer' = Append(toServer, Pdu("REFUSED", g, g))
    BY <1>4, ClientCreateIs
  <2>2. /\ UNCHANGED <<drdynvc, seq, ch, vq, owner, writer, peer, up, cw, written, sent, read>>
        /\ toClient # <<>> /\ toClient' = Tail(toClient)
    BY <2>1, ClientTakes
  <2>3. WireOK'
    BY <2>1, <2>2, NewPdu, WireTypes
  <2> HIDE DEF g
  <2>4. PluginsOK'
    <3>1. CASE cl' = cl
      BY <3>1, <2>2, TypesKept
    <3>2. CASE cl'[g].running /\ cl'[g].h = g /\ cl'[g].len = 0 /\ cl'[g].data = <<>>
      BY <3>2, <2>1, <2>2, DvcSet
    <3> QED BY <3>1, <3>2, <2>1
  <2> QED BY <2>1, <2>2, <2>3, <2>4, TypesKept DEF ManagerTypes
<1> QED BY <1>1, <1>2, <1>3, <1>4 DEF DrdynvcStep

(* Types, of the plugins' steps.                                           *)
LEMMA PluginTypes ==
    ASSUME ManagerTypes, NEW g \in Handles,
           (\E n \in 1 .. MaxLen : PluginWrites(g, n)) \/ PluginPdu(g) \/ PluginCloses(g)
    PROVE  ManagerTypes'
<1>1. ASSUME NEW n \in 1 .. MaxLen, PluginWrites(g, n) PROVE ManagerTypes'
  <2>1. PICK msg \in Writes :
          /\ UNCHANGED <<drdynvc, seq, ch, vq, owner, writer, peer, up, cl, toClient, toServer, written, got, read>>
          /\ sent' = [sent EXCEPT ![g] = Append(sent[g], msg)]
          /\ cw' = [cw EXCEPT ![g] = DataPdus(g, g, msg)]
    BY <1>1, PluginWritesIs
  <2>2. PICK s \in Seq(Pdus) : s = DataPdus(g, g, msg) /\ \A j \in DOMAIN s : s[j].id = g /\ s[j].cmd \in DataCmds
    <3>1. /\ DataPdus(g, g, msg) \in Seq(Pdus) /\ DOMAIN DataPdus(g, g, msg) = 1 .. Len(msg)
          /\ \A i \in 1 .. Len(msg) : DataPdus(g, g, msg)[i].id = g /\ DataPdus(g, g, msg)[i].cmd \in DataCmds
      BY DataPdusAre
    <3> QED BY <3>1
  <2>3. PluginsOK'
    BY <2>1, <2>2, RestSet
  <2>4. sent[g] \in Seq(Writes)
    BY ChannelIs
  <2>5. Append(sent[g], msg) \in Seq(Writes)
    BY <2>4
  <2>6. GhostsOK'
    BY <2>1, <2>5 DEF ManagerTypes, GhostsOK
  <2> QED BY <2>1, <2>3, <2>6, TypesKept DEF ManagerTypes
<1>2. CASE PluginPdu(g)
  <2>1. /\ UNCHANGED <<drdynvc, seq, ch, vq, owner, writer, peer, up, cl, toClient, written, got, sent, read>>
        /\ cw[g] # <<>> /\ toServer' = Append(toServer, Head(cw[g])) /\ cw' = [cw EXCEPT ![g] = Tail(cw[g])]
    BY <1>2, WireUnchanged DEF PluginPdu
  <2>2. PICK s \in Seq(Pdus) : s = cw[g] /\ \A j \in DOMAIN s : s[j].id = g /\ s[j].cmd \in DataCmds
    BY DvcIs DEF ManagerTypes, PluginsOK
  <2>3. /\ Head(s) \in Pdus /\ Tail(s) \in Seq(Pdus)
        /\ \A j \in DOMAIN Tail(s) : j + 1 \in DOMAIN s /\ Tail(s)[j] = s[j + 1]
    BY <2>1, <2>2
  <2>4. \A j \in DOMAIN Tail(s) : Tail(s)[j].id = g /\ Tail(s)[j].cmd \in DataCmds
    BY <2>2, <2>3
  <2>5. PluginsOK'
    BY <2>1, <2>2, <2>3, <2>4, RestSet
  <2>6. WireOK'
    BY <2>1, <2>2, <2>3, WireTypes
  <2> QED BY <2>1, <2>5, <2>6, TypesKept DEF ManagerTypes
<1>3. CASE PluginCloses(g)
  <2>1. /\ UNCHANGED <<drdynvc, seq, ch, vq, owner, writer, peer, up, cw, toClient, written, got, sent, read>>
        /\ cl[g].running /\ ClientCloses(g)
    BY <1>3, WireUnchanged DEF PluginCloses
  <2>2. /\ cl' \in [Handles -> Dvcs] /\ cl'[g] = NoDvc /\ \A h \in Handles : h # g => cl'[h] = cl[h]
        /\ toServer' = Append(toServer, Pdu("CLOSE", g, g)) /\ Pdu("CLOSE", g, g) \in Pdus
    BY <2>1, ClientClosesIs
  <2>3. WireOK'
    BY <2>1, <2>2, WireTypes
  <2>4. PluginsOK'
    BY <2>1, <2>2, NewDvc, DvcSet
  <2> QED BY <2>1, <2>3, <2>4, TypesKept DEF ManagerTypes
<1> QED BY <1>1, <1>2, <1>3

(* Every step keeps the types, and no message of an honest client makes    *)
(* wts_read_drdynvc_data fail.                                             *)
LEMMA TypesStep ==
    ASSUME ManagerTypes, IdsOK, OwnersOK, WritersOK, TalksOK, ManagerNext
    PROVE  ManagerTypes'
<1>1. CASE Done
  <2>1. UNCHANGED <<drdynvc, seq, ch, vq, owner, writer, peer, up, cl, cw, toClient, toServer, written, got, sent, read>>
    BY <1>1 DEF Done, managerVars, managerState, drdynvcState
  <2> QED BY <2>1, TypesKept DEF ManagerTypes
<1>2. CASE ~Done
  BY <1>2, OwnerTypes, WriterTypes, PeerThreadTypes, DrdynvcTypes, PluginTypes DEF ManagerNext
<1> QED BY <1>1, <1>2

-----------------------------------------------------------------------------
(***************************************************************************)
(* Virtual channels: ids, serving threads and write locks.                 *)
(***************************************************************************)

(* The channel the peer's thread has in hand has been asked for.           *)
LEMMA InUseKnown ==
    ASSUME ManagerTypes, TalksOK, peer.pc = "use"
    PROVE  peer.dvc \in Handles /\ peer.dvc <= seq
<1>1. peer \in [pc : {"use"}, pdu : Pdus, dvc : Handles] /\ peer.pdu.id = peer.dvc
  BY DEF ManagerTypes, ThreadsOK, Idle
<1>2. peer.dvc \in Handles /\ peer.pdu \in Pdus /\ toServer \in Seq(Pdus)
  BY <1>1 DEF ManagerTypes, WireOK
<1>3. Up = <<peer.pdu>> \o toServer
  BY DEF Up
<1>4. 1 \in DOMAIN Up /\ Up[1] = peer.pdu
  BY <1>2, <1>3
<1>5. PICK b, d, a, e \in Places : Talk(peer.dvc, b, d, a, e)
  BY <1>2 DEF TalksOK
<1>6. b.ph # "none"
  BY <1>1, <1>4, <1>5 DEF Talk, ClientAt
<1>7. ~(peer.dvc > seq)
  BY <1>5, <1>6 DEF Talk, ServerAt, Unrequested
<1> QED BY <1>2, <1>7 DEF ManagerTypes, ThreadsOK, Handles

\* What a channel keeps in the table.
SameEntry(h) == /\ ch'[h].id = ch[h].id /\ ch'[h].live = ch[h].live /\ ch'[h].lock = ch[h].lock
                /\ ch'[h] = ch[h] \/ h <= seq

(* Ids are given once.                                                     *)
LEMMA IdsKept ==
    ASSUME ManagerTypes, IdsOK, UNCHANGED seq,
           \A h \in Handles : /\ ch'[h].id = ch[h].id /\ (ch'[h].live => ch[h].live)
                              /\ ch'[h] = ch[h] \/ h <= seq,
           drdynvc' = drdynvc \/ drdynvc' = "READY" \/ drdynvc = "NONE"
    PROVE  IdsOK'
<1> SUFFICES ASSUME NEW h \in Handles
             PROVE  (h <= seq' => ch'[h].id = h) /\ (h > seq' => ch'[h] = NoChannel) /\ (ch'[h].live => drdynvc' = "READY")
  BY DEF IdsOK
<1>1. h \in Nat /\ seq \in Nat
  BY ManagerAssumption DEF ManagerTypes, ThreadsOK, Handles
<1>2. (h <= seq => ch[h].id = h) /\ (h > seq => ch[h] = NoChannel) /\ (ch[h].live => drdynvc = "READY")
  BY DEF IdsOK
<1> QED BY <1>1, <1>2

(* Serving and writing threads stay where they are.                        *)
LEMMA ThreadsKept ==
    ASSUME OwnersOK, WritersOK, UNCHANGED <<seq, owner, writer>>, ManagerTypes, \A h \in Handles : SameEntry(h)
    PROVE  OwnersOK' /\ WritersOK'
<1>1. ASSUME NEW o \in Owners, owner[o].pc \in Serving
      PROVE  owner[o].h \in 1 .. seq /\ ch'[owner[o].h].live
  <2>1. owner[o].h \in 1 .. seq /\ ch[owner[o].h].live
    BY <1>1 DEF OwnersOK
  <2>2. owner[o].h \in Handles
    BY <2>1, ManagerAssumption DEF ManagerTypes, ThreadsOK, Handles
  <2> QED BY <2>1, <2>2 DEF SameEntry
<1>2. OwnersOK'
  BY <1>1 DEF OwnersOK
<1>3. ASSUME NEW w \in Writers, writer[w].h # 0 PROVE ch'[writer[w].h].lock
  <2>1. writer[w].h \in Handles
    BY <1>3, ManagerAssumption DEF ManagerTypes, ThreadsOK, Handles
  <2> QED BY <1>3, <2>1 DEF WritersOK, SameEntry
<1>4. WritersOK'
  BY <1>3 DEF WritersOK
<1> QED BY <1>2, <1>4

(* A serving thread goes on, and leaves no writer behind.                  *)
LEMMA OwnerGoesOn ==
    ASSUME ManagerTypes, IdsOK, OwnersOK, WritersOK, NEW o \in Owners, NEW pc \in OwnerPcs, Go(o, pc),
           UNCHANGED <<seq, writer>>, \A h \in Handles : SameEntry(h),
           pc \in Serving => owner[o].pc \in Serving,
           \/ owner[o].pc \notin {"read", "close"} \/ pc \in {"read", "close"}
           \/ \A w \in Writers : writer[w].h # owner[o].h
    PROVE  OwnersOK' /\ WritersOK'
<1>1. owner'[o].pc = pc /\ \A u \in Owners : owner'[u].h = owner[u].h /\ (u # o => owner'[u].pc = owner[u].pc)
  BY OwnerGoes
<1>2. \A u \in Owners : owner'[u].pc \in Serving => owner[u].pc \in Serving
  BY <1>1
<1>3. ASSUME NEW u \in Owners, owner'[u].pc \in Serving
      PROVE  owner'[u].h \in 1 .. seq' /\ ch'[owner'[u].h].live
  <2>1. owner[u].pc \in Serving
    BY <1>2, <1>3
  <2>2. owner[u].h \in Handles /\ ch[owner[u].h].live /\ owner[u].h \in 1 .. seq
    BY <2>1, ServedIs DEF OwnersOK
  <2> QED BY <2>2, <1>1 DEF SameEntry
<1>4. ASSUME NEW u \in Owners, NEW v \in Owners, owner'[u].pc \in Serving, owner'[v].pc \in Serving, owner'[u].h = owner'[v].h
      PROVE  u = v
  <2>1. owner[u].pc \in Serving /\ owner[v].pc \in Serving /\ owner[u].h = owner[v].h
    BY <1>1, <1>2, <1>4
  <2> QED BY <2>1 DEF OwnersOK
<1>5. OwnersOK'
  BY <1>3, <1>4 DEF OwnersOK
<1>6. ASSUME NEW w \in Writers, writer'[w].h # 0
      PROVE  /\ ch'[writer'[w].h].lock
             /\ \E u \in Owners : owner'[u].pc \in {"read", "close"} /\ owner'[u].h = writer'[w].h
  <2>1. writer[w].h \in Handles
    BY <1>6, ManagerAssumption DEF ManagerTypes, ThreadsOK, Handles
  <2>2. ch'[writer'[w].h].lock
    BY <1>6, <2>1 DEF WritersOK, SameEntry
  <2>3. PICK u \in Owners : owner[u].pc \in {"read", "close"} /\ owner[u].h = writer[w].h
    BY <1>6 DEF WritersOK
  <2>4. owner'[u].pc \in {"read", "close"} /\ owner'[u].h = writer'[w].h
    <3>1. CASE u = o
      BY <3>1, <2>3, <1>1
    <3>2. CASE u # o
      BY <3>2, <2>3, <1>1
    <3> QED BY <3>1, <3>2
  <2> QED BY <2>2, <2>4
<1>7. WritersOK'
  BY <1>6 DEF WritersOK
<1> QED BY <1>5, <1>7

\* The part of the invariant about the threads and the table.
TableOK == IdsOK /\ OwnersOK /\ WritersOK

(* Opening a channel: a new id, and a channel that nobody serves or writes *)
(* to.                                                                     *)
LEMMA OpenTable ==
    ASSUME ManagerTypes, TableOK, NEW o \in Owners, OpenEx(o)
    PROVE  TableOK'
<1>1. UNCHANGED <<drdynvc, writer>> /\ drdynvc = "READY"
      /\ seq' = seq + 1 /\ seq < MaxOpen /\ owner[o].pc = "open"
      /\ ch' = [ch EXCEPT ![seq + 1] = [NoChannel EXCEPT !.live = TRUE, !.id = NextId(seq)]]
      /\ owner' = [owner EXCEPT ![o] = [pc |-> "request", h |-> seq + 1]]
  BY DEF OpenEx, At
<1>2. seq \in Nat /\ seq + 1 \in Handles /\ NextId(seq) = seq + 1 /\ \A h \in Handles : h \in Nat
  BY <1>1, ManagerAssumption DEF ManagerTypes, ThreadsOK, Handles, NextId
<1>3. \A h \in Handles : h # seq + 1 => ch'[h] = ch[h]
  BY <1>1, <1>2 DEF ManagerTypes, ChannelsOK
<1>4. ch'[seq + 1].live = TRUE /\ ch'[seq + 1].id = seq + 1
  <2>1. ch'[seq + 1] = [NoChannel EXCEPT !.live = TRUE, !.id = seq + 1]
    BY <1>1, <1>2 DEF ManagerTypes, ChannelsOK
  <2> QED BY <2>1, NewChannel
<1>5. owner'[o].pc = "request" /\ owner'[o].h = seq + 1 /\ \A u \in Owners : u # o => owner'[u] = owner[u]
  BY <1>1 DEF ManagerTypes, ThreadsOK
<1>6. IdsOK'
  <2> SUFFICES ASSUME NEW h \in Handles
               PROVE  (h <= seq' => ch'[h].id = h) /\ (h > seq' => ch'[h] = NoChannel) /\ (ch'[h].live => drdynvc' = "READY")
    BY DEF IdsOK
  <2>1. CASE h = seq + 1
    BY <2>1, <1>1, <1>2, <1>4
  <2>2. CASE h # seq + 1
    <3>1. (h <= seq => ch[h].id = h) /\ (h > seq => ch[h] = NoChannel)
      BY DEF TableOK, IdsOK
    <3> QED BY <3>1, <2>2, <1>1, <1>2, <1>3
  <2> QED BY <2>1, <2>2
<1>7. ASSUME NEW u \in Owners, u # o, owner'[u].pc \in Serving
      PROVE  owner[u].pc \in Serving /\ owner'[u].h = owner[u].h /\ owner[u].h \in 1 .. seq
             /\ owner[u].h # seq + 1 /\ ch'[owner[u].h].live
  <2>1. owner'[u] = owner[u]
    BY <1>5, <1>7
  <2>2. owner[u].pc \in Serving
    BY <1>7, <2>1
  <2>3. owner[u].h \in Handles /\ owner[u].h \in 1 .. seq /\ ch[owner[u].h].live
    BY <2>2, ServedIs DEF TableOK, OwnersOK
  <2>4. owner[u].h # seq + 1
    BY <2>3, <1>2
  <2> QED BY <2>1, <2>2, <2>3, <2>4, <1>3
<1>8. OwnersOK'
  <2>1. ASSUME NEW u \in Owners, owner'[u].pc \in Serving
        PROVE  owner'[u].h \in 1 .. seq' /\ ch'[owner'[u].h].live
    <3>1. CASE u = o
      BY <3>1, <1>1, <1>2, <1>4, <1>5
    <3>2. CASE u # o
      BY <3>2, <2>1, <1>1, <1>2, <1>7
    <3> QED BY <3>1, <3>2
  <2>2. ASSUME NEW u \in Owners, NEW v \in Owners, owner'[u].pc \in Serving, owner'[v].pc \in Serving, owner'[u].h = owner'[v].h
        PROVE  u = v
    BY <2>2, <1>5, <1>7 DEF TableOK, OwnersOK
  <2> QED BY <2>1, <2>2 DEF OwnersOK
<1>9. WritersOK'
  <2>1. ASSUME NEW w \in Writers, writer'[w].h # 0
        PROVE  /\ ch'[writer'[w].h].lock
               /\ \E u \in Owners : owner'[u].pc \in {"read", "close"} /\ owner'[u].h = writer'[w].h
    <3>1. PICK u \in Owners : owner[u].pc \in {"read", "close"} /\ owner[u].h = writer[w].h
      BY <2>1, <1>1 DEF TableOK, WritersOK
    <3>2. u # o /\ owner'[u] = owner[u] /\ owner'[u].pc \in Serving
      BY <3>1, <1>1, <1>5 DEF Serving
    <3>3. writer[w].h # seq + 1 /\ writer[w].h \in Handles
      BY <3>1, <3>2, <1>7, ServedIs DEF TableOK
    <3>4. ch'[writer[w].h].lock
      BY <3>3, <2>1, <1>1, <1>3 DEF TableOK, WritersOK
    <3> QED BY <3>1, <3>2, <3>4, <1>1
  <2> QED BY <2>1, <1>1 DEF TableOK, WritersOK
<1> QED BY <1>6, <1>8, <1>9 DEF TableOK

(* The table frees a channel that nobody writes to.                        *)
LEMMA RemoveTable ==
    ASSUME ManagerTypes, TableOK, NEW o \in Owners, RemoveChannel(o)
    PROVE  TableOK'
<1> DEFINE g == owner[o].h
<1>1. owner[o].pc = "remove" /\ owner[o].pc \in Serving
  BY DEF RemoveChannel, At, Serving
<1>2. /\ UNCHANGED <<drdynvc, seq, writer>>
      /\ Go(o, "done") /\ ch' = [ch EXCEPT ![g].live = FALSE]
  BY WireUnchanged DEF RemoveChannel
<1>3. g \in Handles /\ g <= seq /\ \A u \in Owners : owner[u].pc \in Serving /\ owner[u].h = g => u = o
  BY <1>1, ServedIs DEF TableOK
<1>4. owner'[o].pc = "done" /\ \A u \in Owners : owner'[u].h = owner[u].h /\ (u # o => owner'[u].pc = owner[u].pc)
  BY <1>2, OwnerGoes DEF OwnerPcs
<1>5. ch \in [Handles -> Channels]
  BY DEF ManagerTypes, ChannelsOK
<1> HIDE DEF g
<1>6. /\ \A h \in Handles : ch'[h].id = ch[h].id /\ ch'[h].lock = ch[h].lock /\ (ch'[h].live => ch[h].live)
      /\ \A h \in Handles : h # g => ch'[h] = ch[h]
  BY <1>2, <1>3, <1>5 DEF Channels
<1>7. IdsOK'
  BY <1>2, <1>3, <1>6, IdsKept DEF TableOK
<1>8. OwnersOK'
  <2>1. ASSUME NEW u \in Owners, owner'[u].pc \in Serving
        PROVE  u # o /\ owner[u].pc \in Serving /\ owner'[u].h = owner[u].h
               /\ owner[u].h \in 1 .. seq' /\ ch'[owner[u].h].live
    <3>1. u # o /\ owner[u].pc \in Serving /\ owner'[u].h = owner[u].h
      BY <2>1, <1>4 DEF Serving
    <3>2. owner[u].h # g
      BY <3>1, <1>3
    <3>3. owner[u].h \in Handles /\ owner[u].h \in 1 .. seq /\ ch[owner[u].h].live
      BY <3>1, ServedIs DEF TableOK, OwnersOK
    <3> QED BY <3>1, <3>2, <3>3, <1>2, <1>6
  <2> QED BY <2>1 DEF TableOK, OwnersOK
<1>9. WritersOK'
  <2>1. ASSUME NEW w \in Writers, writer[w].h # 0
        PROVE  /\ ch'[writer[w].h].lock
               /\ \E u \in Owners : owner'[u].pc \in {"read", "close"} /\ owner'[u].h = writer[w].h
    <3>1. PICK u \in Owners : owner[u].pc \in {"read", "close"} /\ owner[u].h = writer[w].h
      BY <2>1 DEF TableOK, WritersOK
    <3>2. u # o /\ owner'[u].pc = owner[u].pc /\ owner'[u].h = owner[u].h
      BY <3>1, <1>1, <1>4
    <3>3. writer[w].h \in Handles
      BY <2>1, ManagerAssumption DEF ManagerTypes, ThreadsOK, Handles
    <3>4. ch'[writer[w].h].lock
      BY <3>3, <2>1, <1>6 DEF TableOK, WritersOK
    <3> QED BY <3>1, <3>2, <3>4
  <2> QED BY <2>1, <1>2 DEF TableOK, WritersOK
<1> QED BY <1>7, <1>8, <1>9 DEF TableOK

(* The other steps of the serving threads.                                 *)
LEMMA OwnerTable ==
    ASSUME ManagerTypes, TableOK, NEW o \in Owners, OwnerStep(o) \/ Stop(o) \/ Reopen(o)
    PROVE  TableOK'
<1>1. CASE OpenEx(o)
  BY <1>1, OpenTable
<1>2. CASE RemoveChannel(o)
  BY <1>2, RemoveTable
<1>3. CASE OpenRequest(o) \/ OpenGivesUp(o) \/ QueryReady(o) \/ Stop(o) \/ Reopen(o)
  <2>1. UNCHANGED <<drdynvc, seq, ch, writer>>
    BY <1>3 DEF OpenRequest, OpenGivesUp, QueryReady, Stop, Reopen
  <2>2. PICK pc \in OwnerPcs : /\ Go(o, pc) /\ (pc \in Serving => owner[o].pc \in Serving)
                               /\ owner[o].pc \notin {"read", "close"} \/ pc \in {"read", "close"}
    BY <1>3 DEF OpenRequest, OpenGivesUp, QueryReady, Stop, Reopen, OwnerPcs, Serving, At
  <2>3. \A h \in Handles : SameEntry(h)
    BY <2>1 DEF SameEntry
  <2>4. OwnersOK' /\ WritersOK'
    BY <2>1, <2>2, <2>3, OwnerGoesOn DEF TableOK
  <2>5. IdsOK'
    BY <2>1, IdsKept DEF TableOK
  <2> QED BY <2>4, <2>5 DEF TableOK
<1>4. CASE Read(o)
  <2> DEFINE g == owner[o].h
  <2>1. owner[o].pc = "read" /\ owner[o].pc \in Serving
    BY <1>4 DEF Read, At, Serving
  <2>2. g \in Handles /\ g <= seq
    BY <2>1, ServedIs DEF TableOK
  <2>3. UNCHANGED <<drdynvc, seq, writer>>
    BY <1>4 DEF Read
  <2>4. CASE Head(ch[g].q) = Quit
    <3>1. Go(o, "close") /\ UNCHANGED ch
      BY <1>4, <2>4 DEF Read
    <3>2. \A h \in Handles : SameEntry(h)
      BY <3>1 DEF SameEntry
    <3>3. OwnersOK' /\ WritersOK'
      BY <3>1, <3>2, <2>1, <2>3, OwnerGoesOn DEF TableOK, OwnerPcs
    <3>4. IdsOK'
      BY <3>1, <2>3, IdsKept DEF TableOK
    <3> QED BY <3>3, <3>4 DEF TableOK
  <2>5. CASE Head(ch[g].q) # Quit
    <3>1. ch' = [ch EXCEPT ![g].q = Tail(ch[g].q)] /\ UNCHANGED owner
      BY <1>4, <2>5 DEF Read
    <3>2. ch \in [Handles -> Channels]
      BY DEF ManagerTypes, ChannelsOK
    <3> HIDE DEF g
    <3>3. \A h \in Handles : SameEntry(h)
      BY <3>1, <3>2, <2>2 DEF SameEntry, Channels
    <3>4. OwnersOK' /\ WritersOK'
      BY <3>1, <3>3, <2>3, ThreadsKept DEF TableOK
    <3>5. IdsOK'
      BY <3>3, <2>3, IdsKept DEF TableOK, SameEntry
    <3> QED BY <3>4, <3>5 DEF TableOK
  <2> QED BY <2>4, <2>5
<1>5. CASE CloseRequest(o)
  <2> DEFINE g == owner[o].h
  <2>1. owner[o].pc = "close" /\ owner[o].pc \in Serving
    BY <1>5 DEF CloseRequest, At, Serving
  <2>2. g \in Handles /\ g <= seq
    BY <2>1, ServedIs DEF TableOK
  <2>3. /\ UNCHANGED <<drdynvc, seq, writer>> /\ Go(o, "remove") /\ ch' = [ch EXCEPT ![g].closedIn = ch[g].open]
        /\ \A w \in Writers : writer[w].h # g
    BY <1>5 DEF CloseRequest
  <2>4. ch \in [Handles -> Channels]
    BY DEF ManagerTypes, ChannelsOK
  <2>5. \A h \in Handles : SameEntry(h)
    BY <2>2, <2>3, <2>4 DEF SameEntry, Channels
  <2>6. OwnersOK' /\ WritersOK'
    BY <2>1, <2>3, <2>5, OwnerGoesOn DEF TableOK, OwnerPcs
  <2>7. IdsOK'
    BY <2>5, <2>3, IdsKept DEF TableOK, SameEntry
  <2> QED BY <2>6, <2>7 DEF TableOK
<1> QED BY <1>1, <1>2, <1>3, <1>4, <1>5 DEF OwnerStep

(* A write begins: the thread has the channel's lock.                      *)
LEMMA WriteBeginsTable ==
    ASSUME ManagerTypes, TableOK, NEW w \in Writers, NEW o \in Owners, NEW n \in 1 .. MaxLen, WriteBegins(w, o, n)
    PROVE  TableOK'
<1> DEFINE g == owner[o].h
<1>1. PICK msg \in Writes :
           /\ UNCHANGED <<drdynvc, seq, owner>>
           /\ g \in Handles /\ owner[o].pc = "read"
           /\ \A v \in Writers : writer[v].h # g
           /\ ch' = [ch EXCEPT ![g].lock = TRUE]
           /\ writer' = [writer EXCEPT ![w] = [h |-> g, left |-> DataPdus(g, g, msg)]]
  BY WriteBeginsIs DEF TableOK
<1>2. /\ writer'[w].h = g /\ writer'[w].left = DataPdus(g, g, msg)
      /\ \A v \in Writers : v # w => writer'[v] = writer[v]
  BY <1>1 DEF ManagerTypes, ThreadsOK
<1>3. g # 0 /\ g <= seq
  <2>1. owner[o].pc \in Serving
    BY <1>1 DEF Serving
  <2> QED BY <2>1, ServedIs DEF TableOK
<1>4. DataPdus(g, g, msg) # <<>>
  <2>1. Len(DataPdus(g, g, msg)) = Len(msg) /\ Len(msg) \in 1 .. MaxLen
    BY <1>1, DataPdusAre DEF Writes
  <2>2. PICK k \in Nat : k = Len(DataPdus(g, g, msg)) /\ k # 0
    BY <2>1
  <2> QED BY <2>2
<1>5. ch \in [Handles -> Channels]
  BY DEF ManagerTypes, ChannelsOK
<1> HIDE DEF g
<1>6. /\ \A h \in Handles : ch'[h].id = ch[h].id /\ ch'[h].live = ch[h].live
      /\ \A h \in Handles : h # g => ch'[h] = ch[h]
      /\ ch'[g].lock = TRUE
  BY <1>1, <1>5 DEF Channels
<1>7. IdsOK'
  BY <1>1, <1>3, <1>6, IdsKept DEF TableOK
<1>8. OwnersOK'
  <2>1. ASSUME NEW u \in Owners, owner[u].pc \in Serving
        PROVE  owner[u].h \in 1 .. seq /\ ch'[owner[u].h].live
    <3>1. owner[u].h \in Handles /\ owner[u].h \in 1 .. seq /\ ch[owner[u].h].live
      BY <2>1, ServedIs DEF TableOK, OwnersOK
    <3> QED BY <3>1, <1>6
  <2> QED BY <2>1, <1>1 DEF TableOK, OwnersOK
<1>9. WritersOK'
  <2>1. ASSUME NEW v \in Writers
        PROVE  /\ writer'[v].left = <<>> <=> writer'[v].h = 0
               /\ writer'[v].h # 0 =>
                    /\ ch'[writer'[v].h].lock
                    /\ \E u \in Owners : owner'[u].pc \in {"read", "close"} /\ owner'[u].h = writer'[v].h
    <3>1. CASE v = w
      <4>1. \E u \in Owners : owner'[u].pc \in {"read", "close"} /\ owner'[u].h = writer'[v].h
        BY <3>1, <1>1, <1>2 DEF g
      <4> QED BY <3>1, <4>1, <1>2, <1>3, <1>4, <1>6
    <3>2. CASE v # w
      <4>1. writer'[v] = writer[v] /\ writer[v].h # g /\ owner' = owner
        BY <3>2, <1>1, <1>2
      <4>2. writer[v].h # 0 => writer[v].h \in Handles
        BY ManagerAssumption DEF ManagerTypes, ThreadsOK, Handles
      <4>3. writer[v].h # 0 => ch'[writer[v].h] = ch[writer[v].h]
        BY <4>1, <4>2, <1>6
      <4>4. /\ writer[v].left = <<>> <=> writer[v].h = 0
            /\ writer[v].h # 0 =>
                 /\ ch[writer[v].h].lock
                 /\ \E u \in Owners : owner[u].pc \in {"read", "close"} /\ owner[u].h = writer[v].h
        BY DEF TableOK, WritersOK
      <4> QED BY <4>1, <4>3, <4>4
    <3> QED BY <3>1, <3>2
  <2>2. ASSUME NEW u \in Writers, NEW v \in Writers, writer'[u].h # 0, writer'[u].h = writer'[v].h
        PROVE  u = v
    BY <2>2, <1>1, <1>2 DEF TableOK, WritersOK
  <2> QED BY <2>1, <2>2 DEF WritersOK
<1> QED BY <1>7, <1>8, <1>9 DEF TableOK

(* A PDU is posted: the last one gives the lock back.                      *)
LEMMA WritePduTable ==
    ASSUME ManagerTypes, TableOK, TalksOK, NEW w \in Writers, WritePdu(w)
    PROVE  TableOK'
<1> DEFINE g == writer[w].h
           rest == Tail(writer[w].left)
<1>1. /\ UNCHANGED <<drdynvc, seq, owner>> /\ g \in Handles /\ Open(g)
      /\ \A v \in Writers : v # w => writer'[v] = writer[v] /\ writer[v].h # g
      /\ rest = <<>> => writer'[w] = NoWrite
      /\ rest # <<>> => writer'[w].h = g /\ writer'[w].left = rest
      /\ \A h \in Handles : h # g => ch'[h] = ch[h]
      /\ ch'[g].lock = (rest # <<>>)
      /\ \A h \in Handles : ch'[h].live = ch[h].live /\ ch'[h].id = ch[h].id
  BY WritePduIs DEF TableOK
<1>2. g # 0
  BY <1>1 DEF Handles
<1>3. g <= seq
  <2>1. PICK o \in Owners : owner[o].pc \in {"wait", "read", "close"} /\ owner[o].h = g
    BY <1>1 DEF Open
  <2>2. owner[o].pc \in Serving
    BY <2>1 DEF Serving
  <2> QED BY <2>1, <2>2, ServedIs DEF TableOK
<1>4. \E u \in Owners : owner[u].pc \in {"read", "close"} /\ owner[u].h = g
  BY <1>2 DEF TableOK, WritersOK
<1>5. NoWrite.h = 0 /\ NoWrite.left = <<>>
  BY DEF NoWrite
<1> HIDE DEF g, rest
<1>6. IdsOK'
  BY <1>1, <1>3, IdsKept DEF TableOK
<1>7. OwnersOK'
  <2>1. ASSUME NEW u \in Owners, owner[u].pc \in Serving
        PROVE  owner[u].h \in 1 .. seq /\ ch'[owner[u].h].live
    <3>1. owner[u].h \in Handles /\ owner[u].h \in 1 .. seq /\ ch[owner[u].h].live
      BY <2>1, ServedIs DEF TableOK, OwnersOK
    <3> QED BY <3>1, <1>1
  <2> QED BY <2>1, <1>1 DEF TableOK, OwnersOK
<1>8. WritersOK'
  <2>1. ASSUME NEW v \in Writers
        PROVE  /\ writer'[v].left = <<>> <=> writer'[v].h = 0
               /\ writer'[v].h # 0 =>
                    /\ ch'[writer'[v].h].lock
                    /\ \E u \in Owners : owner'[u].pc \in {"read", "close"} /\ owner'[u].h = writer'[v].h
    <3>1. CASE v = w /\ rest = <<>>
      BY <3>1, <1>1, <1>5
    <3>2. CASE v = w /\ rest # <<>>
      <4>1. writer'[v].h = g /\ writer'[v].left = rest /\ ch'[g].lock
        BY <3>2, <1>1
      <4> QED BY <4>1, <3>2, <1>1, <1>2, <1>4
    <3>3. CASE v # w
      <4>1. writer'[v] = writer[v] /\ writer[v].h # g /\ owner' = owner
        BY <3>3, <1>1
      <4>2. writer[v].h # 0 => writer[v].h \in Handles
        BY ManagerAssumption DEF ManagerTypes, ThreadsOK, Handles
      <4>3. writer[v].h # 0 => ch'[writer[v].h] = ch[writer[v].h]
        BY <4>1, <4>2, <1>1
      <4>4. /\ writer[v].left = <<>> <=> writer[v].h = 0
            /\ writer[v].h # 0 =>
                 /\ ch[writer[v].h].lock
                 /\ \E u \in Owners : owner[u].pc \in {"read", "close"} /\ owner[u].h = writer[v].h
        BY DEF TableOK, WritersOK
      <4> QED BY <4>1, <4>3, <4>4
    <3> QED BY <3>1, <3>2, <3>3
  <2>2. ASSUME NEW u \in Writers, NEW v \in Writers, writer'[u].h # 0, writer'[u].h = writer'[v].h
        PROVE  u = v
    <3>1. writer'[w].h = g \/ writer'[w].h = 0
      BY <1>1, <1>5
    <3> QED BY <3>1, <2>2, <1>1 DEF TableOK, WritersOK
  <2> QED BY <2>1, <2>2 DEF WritersOK
<1> QED BY <1>6, <1>7, <1>8 DEF TableOK

(* Every step keeps the threads apart and the ids distinct.                *)
LEMMA TableStep ==
    ASSUME ManagerTypes, TableOK, TalksOK, ManagerNext
    PROVE  TableOK'
<1>1. ASSUME NEW o \in Owners, OwnerStep(o) \/ Stop(o) \/ Reopen(o) PROVE TableOK'
  BY <1>1, OwnerTable
<1>2. ASSUME NEW w \in Writers, NEW o \in Owners, NEW n \in 1 .. MaxLen, WriteBegins(w, o, n) PROVE TableOK'
  BY <1>2, WriteBeginsTable
<1>3. ASSUME NEW w \in Writers, WritePdu(w) PROVE TableOK'
  BY <1>3, WritePduTable
<1>4. ASSUME UNCHANGED <<seq, ch, owner, writer>>, drdynvc' = drdynvc \/ drdynvc' = "READY" \/ drdynvc = "NONE"
      PROVE  TableOK'
  <2>1. \A h \in Handles : SameEntry(h)
    BY <1>4 DEF SameEntry
  <2>2. OwnersOK' /\ WritersOK'
    BY <1>4, <2>1, ThreadsKept DEF TableOK
  <2>3. IdsOK'
    BY <1>4, IdsKept DEF TableOK
  <2> QED BY <2>2, <2>3 DEF TableOK
<1>5. CASE PeerThreadStep
  <2>1. CASE ManagerOpen \/ CheckFileDescriptor \/ CapabilitiesResponse \/ UnknownChannel \/ LookUp
    <3>1. UNCHANGED <<seq, ch, owner, writer>> /\ (drdynvc' = drdynvc \/ drdynvc' = "READY" \/ drdynvc = "NONE")
      BY <2>1, WireUnchanged DEF ManagerOpen, CheckFileDescriptor, CapabilitiesResponse, UnknownChannel, LookUp
    <3> QED BY <3>1, <1>4
  <2>2. CASE CreateResponse \/ DataIgnored \/ DataFirst \/ Data \/ CloseResponse
    <3> DEFINE g == peer.dvc
    <3>1. /\ UNCHANGED <<drdynvc, seq, owner, writer>> /\ peer.pc = "use" /\ g \in Handles
          /\ \A h \in Handles : h # g => ch'[h] = ch[h]
          /\ ch'[g].live = ch[g].live /\ ch'[g].id = ch[g].id /\ ch'[g].lock = ch[g].lock
      BY <2>2, HandlerLeaves
    <3>2. g <= seq
      BY <3>1, InUseKnown
    <3> HIDE DEF g
    <3>3. \A h \in Handles : SameEntry(h)
      BY <3>1, <3>2 DEF SameEntry
    <3>4. OwnersOK' /\ WritersOK'
      BY <3>1, <3>3, ThreadsKept DEF TableOK
    <3>5. IdsOK'
      BY <3>1, <3>3, IdsKept DEF TableOK, SameEntry
    <3> QED BY <3>4, <3>5 DEF TableOK
  <2> QED BY <2>1, <2>2, <1>5 DEF PeerThreadStep
<1>6. CASE DrdynvcStep
  <2>1. \E cmds : ClientReceives(cmds)
    BY <1>6 DEF DrdynvcStep, ClientCapabilities, ClientData, ClientCloseRequest, ClientCreate
  <2>2. UNCHANGED <<drdynvc, seq, ch, owner, writer>>
    BY <2>1, WireUnchanged DEF ClientReceives
  <2> QED BY <2>2, <1>4
<1>7. ASSUME NEW g \in Handles, (\E n \in 1 .. MaxLen : PluginWrites(g, n)) \/ PluginPdu(g) \/ PluginCloses(g)
      PROVE  TableOK'
  <2>1. UNCHANGED <<drdynvc, seq, ch, owner, writer>>
    BY <1>7, WireUnchanged DEF PluginWrites, PluginPdu, PluginCloses
  <2> QED BY <2>1, <1>4
<1>8. CASE Done
  <2>1. UNCHANGED <<drdynvc, seq, ch, owner, writer>>
    BY <1>8 DEF Done, managerVars, managerState
  <2> QED BY <2>1, <1>4
<1> QED BY <1>1, <1>2, <1>3, <1>5, <1>6, <1>7, <1>8 DEF ManagerNext

-----------------------------------------------------------------------------
(***************************************************************************)
(* Virtual channels: how a channel ends.                                   *)
(***************************************************************************)

\* A PDU of channel h with one of the commands in cmds is in q.
Tells(q, h, cmds) == \E i \in DOMAIN q : q[i].id = h /\ q[i].cmd \in cmds
Ended == {"REFUSED", "CLOSE"}

\* The part of EndsOK that is about channel h.
EndsAt(h) ==
    cl[h].running =>
        /\ ch[h].open \in {"NONE", "SUCCEEDED"} /\ ch[h].closedIn \in {"NONE", "SUCCEEDED"}
        /\ ~Tells(Up, h, Ended)
        /\ ch[h].closedIn = "SUCCEEDED" => Tells(Down, h, {"CLOSE"})

(* The end of a channel, channel by channel.                               *)
LEMMA EndsIs ==
    /\ EndsOK <=> \A h \in Handles : EndsAt(h)
    /\ EndsOK' <=> \A h \in Handles : EndsAt(h)'
<1>1. ASSUME NEW h, NEW q, NEW cmd
      PROVE  (\E i \in DOMAIN q : q[i].id = h /\ q[i].cmd = cmd) <=> Tells(q, h, {cmd})
  BY Zenon DEF Tells
<1>2. ASSUME NEW h, NEW q
      PROVE  (\A i \in DOMAIN q : q[i].id = h => q[i].cmd \notin {"REFUSED", "CLOSE"}) <=> ~Tells(q, h, Ended)
  BY Zenon DEF Tells, Ended
<1>3. EndsOK <=> \A h \in Handles : EndsAt(h)
  <2>1. ASSUME NEW h \in Handles
        PROVE  EndsAt(h) <=>
                 (cl[h].running =>
                    /\ ch[h].open \in {"NONE", "SUCCEEDED"} /\ ch[h].closedIn \in {"NONE", "SUCCEEDED"}
                    /\ \A i \in DOMAIN Up : Up[i].id = h => Up[i].cmd \notin {"REFUSED", "CLOSE"}
                    /\ ch[h].closedIn = "SUCCEEDED" =>
                         \E i \in DOMAIN Down : Down[i].id = h /\ Down[i].cmd = "CLOSE")
    <3>1. (\E i \in DOMAIN Down : Down[i].id = h /\ Down[i].cmd = "CLOSE") <=> Tells(Down, h, {"CLOSE"})
      BY <1>1
    <3>2. (\A i \in DOMAIN Up : Up[i].id = h => Up[i].cmd \notin {"REFUSED", "CLOSE"}) <=> ~Tells(Up, h, Ended)
      BY <1>2
    <3> QED BY <3>1, <3>2, Zenon DEF EndsAt
  <2> QED BY <2>1, Zenon DEF EndsOK
<1>4. EndsOK' <=> \A h \in Handles : EndsAt(h)'
  <2>1. ASSUME NEW h \in Handles
        PROVE  EndsAt(h)' <=>
                 (cl'[h].running =>
                    /\ ch'[h].open \in {"NONE", "SUCCEEDED"} /\ ch'[h].closedIn \in {"NONE", "SUCCEEDED"}
                    /\ \A i \in DOMAIN Up' : Up'[i].id = h => Up'[i].cmd \notin {"REFUSED", "CLOSE"}
                    /\ ch'[h].closedIn = "SUCCEEDED" =>
                         \E i \in DOMAIN Down' : Down'[i].id = h /\ Down'[i].cmd = "CLOSE")
    <3>1. (\E i \in DOMAIN Down' : Down'[i].id = h /\ Down'[i].cmd = "CLOSE") <=> Tells(Down', h, {"CLOSE"})
      BY <1>1
    <3>2. (\A i \in DOMAIN Up' : Up'[i].id = h => Up'[i].cmd \notin {"REFUSED", "CLOSE"}) <=> ~Tells(Up', h, Ended)
      BY <1>2
    <3> QED BY <3>1, <3>2, Zenon DEF EndsAt
  <2> QED BY <2>1, Zenon DEF EndsOK
<1> QED BY <1>3, <1>4

(* A PDU is added to a stream, or taken from it.                           *)
LEMMA TellsAppend ==
    ASSUME NEW q \in Seq(Pdus), NEW x \in Pdus, NEW h, NEW cmds
    PROVE  Tells(Append(q, x), h, cmds) <=> Tells(q, h, cmds) \/ (x.id = h /\ x.cmd \in cmds)
<1>1. /\ Len(q) \in Nat /\ DOMAIN Append(q, x) = 1 .. Len(q) + 1 /\ DOMAIN q = 1 .. Len(q)
      /\ \A i \in 1 .. Len(q) + 1 : Append(q, x)[i] = IF i = Len(q) + 1 THEN x ELSE q[i]
  OBVIOUS
<1>2. PICK n \in Nat : n = Len(q)
  BY <1>1
<1>3. ASSUME Tells(Append(q, x), h, cmds) PROVE Tells(q, h, cmds) \/ (x.id = h /\ x.cmd \in cmds)
  <2>1. PICK i \in 1 .. n + 1 : Append(q, x)[i].id = h /\ Append(q, x)[i].cmd \in cmds
    BY <1>1, <1>2, <1>3 DEF Tells
  <2>2. CASE i = n + 1
    BY <2>1, <2>2, <1>1, <1>2
  <2>3. CASE i # n + 1
    <3>1. i \in DOMAIN q /\ Append(q, x)[i] = q[i]
      BY <2>3, <1>1, <1>2
    <3> QED BY <3>1, <2>1 DEF Tells
  <2> QED BY <2>2, <2>3
<1>4. ASSUME Tells(q, h, cmds) PROVE Tells(Append(q, x), h, cmds)
  <2>1. PICK i \in DOMAIN q : q[i].id = h /\ q[i].cmd \in cmds
    BY <1>4 DEF Tells
  <2>2. i \in DOMAIN Append(q, x) /\ Append(q, x)[i] = q[i]
    BY <2>1, <1>1, <1>2
  <2> QED BY <2>1, <2>2 DEF Tells
<1>5. ASSUME x.id = h, x.cmd \in cmds PROVE Tells(Append(q, x), h, cmds)
  <2>1. n + 1 \in DOMAIN Append(q, x) /\ Append(q, x)[n + 1] = x
    BY <1>1, <1>2
  <2> QED BY <2>1, <1>5 DEF Tells
<1> QED BY <1>3, <1>4, <1>5

(* Taking the first PDU from a stream.                                     *)
LEMMA TellsTake ==
    ASSUME NEW q \in Seq(Pdus), q # <<>>, NEW h, NEW cmds
    PROVE  Tells(q, h, cmds) <=> Tells(Tail(q), h, cmds) \/ (Head(q).id = h /\ Head(q).cmd \in cmds)
<1>1. /\ Len(q) \in Nat \ {0} /\ DOMAIN Tail(q) = 1 .. Len(q) - 1 /\ DOMAIN q = 1 .. Len(q)
      /\ \A i \in 1 .. Len(q) - 1 : Tail(q)[i] = q[i + 1]
      /\ Head(q) = q[1]
  OBVIOUS
<1>2. PICK n \in Nat \ {0} : n = Len(q)
  BY <1>1
<1>3. ASSUME Tells(q, h, cmds) PROVE Tells(Tail(q), h, cmds) \/ (Head(q).id = h /\ Head(q).cmd \in cmds)
  <2>1. PICK i \in 1 .. n : q[i].id = h /\ q[i].cmd \in cmds
    BY <1>1, <1>2, <1>3 DEF Tells
  <2>2. CASE i = 1
    BY <2>1, <2>2, <1>1
  <2>3. CASE i # 1
    <3>1. i - 1 \in DOMAIN Tail(q) /\ Tail(q)[i - 1] = q[i]
      BY <2>3, <1>1, <1>2
    <3> QED BY <3>1, <2>1 DEF Tells
  <2> QED BY <2>2, <2>3
<1>4. ASSUME Tells(Tail(q), h, cmds) PROVE Tells(q, h, cmds)
  <2>1. PICK i \in DOMAIN Tail(q) : Tail(q)[i].id = h /\ Tail(q)[i].cmd \in cmds
    BY <1>4 DEF Tells
  <2>2. i + 1 \in DOMAIN q /\ q[i + 1] = Tail(q)[i]
    BY <2>1, <1>1, <1>2
  <2> QED BY <2>1, <2>2 DEF Tells
<1>5. ASSUME Head(q).id = h, Head(q).cmd \in cmds PROVE Tells(q, h, cmds)
  <2>1. 1 \in DOMAIN q
    BY <1>1, <1>2
  <2> QED BY <2>1, <1>1, <1>5 DEF Tells
<1> QED BY <1>3, <1>4, <1>5

(* Other channels' PDUs do not count.                                      *)
LEMMA TellsQuietly ==
    ASSUME NEW q \in Seq(Pdus), NEW r, NEW h, Quietly(h, q, r), NEW cmds
    PROVE  Tells(q, h, cmds) <=> Tells(r, h, cmds)
<1>1. ASSUME NEW x \in Pdus, x.id # h, r = Append(q, x) PROVE Tells(q, h, cmds) <=> Tells(r, h, cmds)
  BY <1>1, TellsAppend
<1>2. CASE q # <<>> /\ Head(q).id # h /\ r = Tail(q)
  BY <1>2, TellsTake
<1> QED BY <1>1, <1>2 DEF Quietly

(* Nothing that ends the channel is done.                                  *)
LEMMA EndsKept ==
    ASSUME NEW h \in Handles, EndsAt(h), cl'[h].running \in BOOLEAN, cl'[h].running => cl[h].running,
           cl'[h].running =>
               /\ ch'[h].open = ch[h].open \/ ch'[h].open = "SUCCEEDED"
               /\ \/ ch'[h].closedIn = ch[h].closedIn /\ (Tells(Down, h, {"CLOSE"}) => Tells(Down', h, {"CLOSE"}))
                  \/ ch'[h].closedIn = "NONE"
                  \/ ch'[h].closedIn = "SUCCEEDED" /\ Tells(Down', h, {"CLOSE"})
               /\ Tells(Up', h, Ended) => Tells(Up, h, Ended)
    PROVE  EndsAt(h)'
  BY DEF EndsAt

(* What is done elsewhere ends nothing.                                    *)
LEMMA EndsElsewhere ==
    ASSUME ManagerTypes, NEW h \in Handles, EndsAt(h), Elsewhere(h), ch'[h].closedIn = ch[h].closedIn
    PROVE  EndsAt(h)'
<1>1. Down \in Seq(Pdus) /\ Up \in Seq(Pdus)
  BY OnTheWay
<1>2. /\ Tells(Down, h, {"CLOSE"}) => Tells(Down', h, {"CLOSE"})
      /\ Tells(Up', h, Ended) => Tells(Up, h, Ended)
  BY <1>1, TellsQuietly DEF Elsewhere
<1>3. cl'[h].running \in BOOLEAN /\ (cl'[h].running => cl[h].running)
  BY DvcIs DEF Elsewhere
<1> QED BY <1>2, <1>3, EndsKept DEF Elsewhere

(* A serving thread ends a channel that the client runs only by telling    *)
(* the client.                                                             *)
LEMMA OwnerEnds ==
    ASSUME ManagerTypes, TableOK, NEW h \in Handles, EndsAt(h), NEW o \in Owners,
           OwnerStep(o) \/ Stop(o) \/ Reopen(o)
    PROVE  EndsAt(h)'
<1> DEFINE g == owner[o].h
<1>t. IdsOK /\ OwnersOK /\ WritersOK /\ ch \in [Handles -> Channels] /\ seq \in 0 .. MaxOpen
  BY DEF TableOK, ManagerTypes, ChannelsOK, ThreadsOK
<1>u. Down \in Seq(Pdus) /\ Up \in Seq(Pdus) /\ cl[h].running \in BOOLEAN
  BY OnTheWay, DvcIs
<1>1. CASE OpenEx(o)
  <2>1. ch' = [ch EXCEPT ![seq + 1] = [NoChannel EXCEPT !.live = TRUE, !.id = NextId(seq)]] /\ seq < MaxOpen
    BY <1>1 DEF OpenEx
  <2>2. ch'[h].closedIn = ch[h].closedIn
    <3>1. CASE h = seq + 1
      <4>1. ch[h] = NoChannel
        BY <3>1, <1>t DEF IdsOK, Handles
      <4>2. NoChannel.closedIn = "NONE"
        BY DEF NoChannel
      <4>3. ch'[h] = [NoChannel EXCEPT !.live = TRUE, !.id = NextId(seq)]
        BY <2>1, <3>1, <1>t
      <4>4. PICK k : k = NextId(seq)
        OBVIOUS
      <4>5. [NoChannel EXCEPT !.live = TRUE, !.id = k].closedIn = "NONE"
        BY NewChannel
      <4> QED BY <4>1, <4>2, <4>3, <4>4, <4>5
    <3>2. CASE h # seq + 1
      BY <2>1, <3>2, <1>t
    <3> QED BY <3>1, <3>2
  <2> QED BY <1>1, <1>t, <2>2, OpenElsewhere, EndsElsewhere
<1>2. CASE OpenRequest(o)
  <2>1. UNCHANGED <<ch, peer, cl, toClient, toServer>> /\ vq' = Append(vq, Pdu("CREATE", ch[g].id, g))
        /\ owner[o].pc = "request"
    BY <1>2, WireUnchanged DEF OpenRequest, At
  <2>2. g \in Handles /\ ch[g].id = g
    BY <2>1, <1>t, ServedIs DEF Serving
  <2>3. Pdu("CREATE", g, g) \in Pdus
    BY <2>2, NewPdu
  <2>4. Down' = Append(Down, Pdu("CREATE", g, g)) /\ Up' = Up
    BY <2>1, <2>2, <2>3, DownAppends DEF Up
  <2>5. Tells(Down, h, {"CLOSE"}) => Tells(Down', h, {"CLOSE"})
    BY <2>3, <2>4, <1>u, TellsAppend
  <2> QED BY <2>1, <2>4, <2>5, <1>u, EndsKept
<1>3. CASE OpenGivesUp(o) \/ QueryReady(o) \/ Stop(o) \/ Reopen(o)
  <2>1. ch' = ch
    BY <1>3 DEF OpenGivesUp, QueryReady, Stop, Reopen
  <2> QED BY <1>3, <2>1, OwnersElsewhere, EndsElsewhere
<1>4. CASE Read(o)
  <2>1. Elsewhere(h) /\ g \in Handles
    BY <1>4, <1>t, ReadElsewhere
  <2>2. ch' = ch \/ \E q : ch' = [ch EXCEPT ![g].q = q]
    BY <1>4 DEF Read
  <2> HIDE DEF g
  <2>3. ASSUME NEW q, ch' = [ch EXCEPT ![g].q = q] PROVE ch'[h].closedIn = ch[h].closedIn
    <3>1. ch[h] \in Channels /\ (h = g => ch'[h] = [ch[h] EXCEPT !.q = q]) /\ (h # g => ch'[h] = ch[h])
      BY <2>1, <2>3, <1>t
    <3> QED BY <3>1 DEF Channels
  <2>4. ch'[h].closedIn = ch[h].closedIn
    BY <2>2, <2>3
  <2> QED BY <2>1, <2>4, EndsElsewhere
<1>5. CASE CloseRequest(o)
  <2> DEFINE x == Pdu("CLOSE", g, g)
  <2>1. owner[o].pc = "close" /\ owner[o].pc \in Serving
    BY <1>5 DEF CloseRequest, At, Serving
  <2>2. g \in Handles /\ ch[g].id = g
    BY <2>1, <1>t, ServedIs
  <2>3. /\ UNCHANGED <<peer, cl, toClient, toServer>> /\ ch' = [ch EXCEPT ![g].closedIn = ch[g].open]
        /\ vq' = IF ch[g].open = "SUCCEEDED" THEN Append(vq, x) ELSE vq
    BY <2>2, <1>5, WireUnchanged DEF CloseRequest
  <2>4. x \in Pdus /\ x.id = g /\ x.cmd = "CLOSE"
    BY <2>2, NewPdu
  <2> HIDE DEF x, g
  <2>5. /\ ch'[h].open = ch[h].open /\ (h # g => ch'[h].closedIn = ch[h].closedIn)
        /\ (h = g => ch'[h].closedIn = ch[h].open)
    BY <2>2, <2>3, <1>t DEF Channels
  <2>6. Up' = Up
    BY <2>3 DEF Up
  <2>7. CASE ch[g].open = "SUCCEEDED"
    <3>1. Down' = Append(Down, x)
      BY <2>3, <2>4, <2>7, DownAppends
    <3>2. /\ Tells(Down, h, {"CLOSE"}) => Tells(Down', h, {"CLOSE"})
          /\ h = g => Tells(Down', h, {"CLOSE"})
      BY <3>1, <2>4, <1>u, TellsAppend
    <3> QED BY <3>2, <2>3, <2>5, <2>6, <2>7, <1>u, EndsKept
  <2>8. CASE ch[g].open # "SUCCEEDED"
    <3>1. Down' = Down
      BY <2>3, <2>8 DEF Down
    <3>2. h = g /\ cl'[h].running => ch'[h].closedIn = "NONE"
      BY <2>3, <2>5, <2>8 DEF EndsAt
    <3> QED BY <3>1, <3>2, <2>3, <2>5, <2>6, <1>u, EndsKept
  <2> QED BY <2>7, <2>8
<1>6. CASE RemoveChannel(o)
  <2>1. ch' = [ch EXCEPT ![g].live = FALSE] /\ owner[o].pc = "remove"
    BY <1>6 DEF RemoveChannel, At
  <2>2. g \in Handles
    BY <2>1, <1>t, ServedIs DEF Serving
  <2> HIDE DEF g
  <2>3. ch'[h].closedIn = ch[h].closedIn
    BY <2>1, <2>2, <1>t DEF Channels
  <2> QED BY <1>6, <1>t, <2>3, RemoveElsewhere, EndsElsewhere
<1> QED BY <1>1, <1>2, <1>3, <1>4, <1>5, <1>6 DEF OwnerStep

(* A writing thread ends nothing.                                          *)
LEMMA WriterEnds ==
    ASSUME ManagerTypes, TableOK, TalksOK, NEW h \in Handles, EndsAt(h), NEW w \in Writers,
           (\E o \in Owners, n \in 1 .. MaxLen : WriteBegins(w, o, n)) \/ WritePdu(w)
    PROVE  EndsAt(h)'
<1>t. IdsOK /\ OwnersOK /\ WritersOK /\ ch \in [Handles -> Channels]
  BY DEF TableOK, ManagerTypes, ChannelsOK
<1>u. Down \in Seq(Pdus) /\ Up \in Seq(Pdus) /\ cl[h].running \in BOOLEAN
  BY OnTheWay, DvcIs
<1>1. ASSUME NEW o \in Owners, NEW n \in 1 .. MaxLen, WriteBegins(w, o, n)
      PROVE  EndsAt(h)'
  <2> DEFINE g == owner[o].h
  <2>1. /\ UNCHANGED <<vq, peer, cl, toClient, toServer>> /\ g \in Handles
        /\ ch' = [ch EXCEPT ![g].lock = TRUE]
    BY <1>1, <1>t, WriteBeginsIs
  <2> HIDE DEF g
  <2>2. ch'[h].open = ch[h].open /\ ch'[h].closedIn = ch[h].closedIn
    BY <2>1, <1>t DEF Channels
  <2>3. Down' = Down /\ Up' = Up
    BY <2>1 DEF Down, Up
  <2> QED BY <2>1, <2>2, <2>3, <1>u, EndsKept
<1>2. CASE WritePdu(w)
  <2> DEFINE x == Head(writer[w].left)
  <2>1. /\ UNCHANGED <<peer, cl, toServer>> /\ Down' = Append(Down, x) /\ x \in Pdus
        /\ ch'[h].open = ch[h].open /\ ch'[h].closedIn = ch[h].closedIn
    BY <1>2, <1>t, WritePduIs
  <2> HIDE DEF x
  <2>2. Tells(Down, h, {"CLOSE"}) => Tells(Down', h, {"CLOSE"})
    BY <2>1, <1>u, TellsAppend
  <2>3. Up' = Up
    BY <2>1 DEF Up
  <2> QED BY <2>1, <2>2, <2>3, <1>u, EndsKept
<1> QED BY <1>1, <1>2

(* The peer's thread hears of an end only from a client that has ended it. *)
LEMMA PeerThreadEnds ==
    ASSUME ManagerTypes, NEW h \in Handles, EndsAt(h), PeerThreadStep
    PROVE  EndsAt(h)'
<1>u. Down \in Seq(Pdus) /\ Up \in Seq(Pdus) /\ cl[h].running \in BOOLEAN
  BY OnTheWay, DvcIs
<1>1. CASE ManagerOpen \/ CheckFileDescriptor \/ CapabilitiesResponse \/ LookUp
  <2>1. ch' = ch
    BY <1>1 DEF ManagerOpen, CheckFileDescriptor, CapabilitiesResponse, LookUp
  <2> QED BY <1>1, <2>1, PeerElsewhere, EndsElsewhere
<1>2. CASE UnknownChannel
  <2>1. /\ UNCHANGED <<ch, cl, vq, toClient, peer>> /\ toServer # <<>> /\ toServer' = Tail(toServer)
        /\ peer.pc = "loop"
    BY <1>2, WireUnchanged DEF UnknownChannel, Receive, InLoop
  <2>2. Up # <<>> /\ Up' = Tail(Up)
    BY <2>1, UpDrops
  <2>3. Tells(Up', h, Ended) => Tells(Up, h, Ended)
    BY <2>2, <1>u, TellsTake
  <2>4. Down' = Down
    BY <2>1 DEF Down
  <2> QED BY <2>1, <2>3, <2>4, <1>u, EndsKept
<1>3. CASE CreateResponse \/ DataIgnored \/ DataFirst \/ Data \/ CloseResponse
  <2> DEFINE g == peer.dvc
  <2>1. /\ UNCHANGED <<vq, cl, toClient>> /\ g \in Handles
        /\ Up # <<>> /\ Head(Up) = peer.pdu /\ Up' = Tail(Up) /\ peer.pdu.id = g
        /\ \A f \in Handles : f # g => ch'[f] = ch[f]
        /\ ch'[g].closedIn = ch[g].closedIn
        /\ \/ ch'[g].open = ch[g].open \/ ch'[g].open = "SUCCEEDED"
           \/ peer.pdu.cmd \in Ended
    BY <1>3, HandlerLeaves DEF Ended
  <2> HIDE DEF g
  <2>2. Tells(Up', h, Ended) => Tells(Up, h, Ended)
    BY <2>1, <1>u, TellsTake
  <2>3. peer.pdu.id = h /\ peer.pdu.cmd \in Ended => Tells(Up, h, Ended)
    BY <2>1, <1>u, TellsTake
  <2>4. Down' = Down
    BY <2>1 DEF Down
  <2>5. ch'[h].closedIn = ch[h].closedIn
    BY <2>1
  <2>6. cl[h].running => ch'[h].open = ch[h].open \/ ch'[h].open = "SUCCEEDED"
    <3>1. CASE h # g
      BY <3>1, <2>1
    <3>2. CASE h = g
      BY <3>2, <2>1, <2>3 DEF EndsAt
    <3> QED BY <3>1, <3>2
  <2> QED BY <2>1, <2>2, <2>4, <2>5, <2>6, <1>u, EndsKept
<1> QED BY <1>1, <1>2, <1>3 DEF PeerThreadStep

(* A channel the client accepts has not ended yet, one it is told to close *)
(* it does not run any longer.                                             *)
LEMMA DrdynvcEnds ==
    ASSUME ManagerTypes, TalksOK, NEW h \in Handles, EndsAt(h), DrdynvcStep
    PROVE  EndsAt(h)'
<1> DEFINE x == Head(toClient)
           g == x.id
<1>u. Down \in Seq(Pdus) /\ Up \in Seq(Pdus) /\ cl[h].running \in BOOLEAN
  BY OnTheWay, DvcIs
<1>v. ASSUME NEW cmds, ClientReceives(cmds)
      PROVE  /\ UNCHANGED <<ch, vq, peer>> /\ x \in Pdus /\ x.cmd \in cmds
             /\ Tells(Down, h, {"CLOSE"}) => Tells(Down', h, {"CLOSE"}) \/ (g = h /\ x.cmd = "CLOSE")
             /\ "CAPS" \notin cmds => g \in Handles
  <2>1. /\ UNCHANGED <<ch, vq, peer>> /\ x \in Pdus /\ x.cmd \in cmds
        /\ Down # <<>> /\ Head(Down) = x /\ Down' = Tail(Down) /\ ("CAPS" \notin cmds => g \in Handles)
    BY <1>v, ClientTakes
  <2> HIDE DEF x, g
  <2>2. Tells(Down, h, {"CLOSE"}) => Tells(Down', h, {"CLOSE"}) \/ (x.id = h /\ x.cmd \in {"CLOSE"})
    BY <2>1, <1>u, TellsTake
  <2> QED BY <2>1, <2>2 DEF g
<1>1. CASE ClientCapabilities
  <2>1. ch' = ch
    BY <1>1, <1>v DEF ClientCapabilities
  <2> QED BY <1>1, <2>1, PeerElsewhere, EndsElsewhere
<1>2. CASE ClientData
  <2>1. /\ ClientReceives({"DATA_FIRST", "DATA"}) /\ Up' = Up /\ g \in Handles /\ cl' \in [Handles -> Dvcs]
        /\ \A f \in Handles : f # g => cl'[f] = cl[f]
        /\ cl'[g].running = cl[g].running
    BY <1>2, ClientDataIs
  <2>2. /\ ch' = ch /\ x.cmd \in {"DATA_FIRST", "DATA"}
        /\ Tells(Down, h, {"CLOSE"}) => Tells(Down', h, {"CLOSE"}) \/ (g = h /\ x.cmd = "CLOSE")
    BY <2>1, <1>v
  <2>3. Tells(Down, h, {"CLOSE"}) => Tells(Down', h, {"CLOSE"})
    BY <2>2
  <2> HIDE DEF x, g
  <2>4. cl'[h].running = cl[h].running
    BY <2>1
  <2> QED BY <2>1, <2>2, <2>3, <2>4, <1>u, EndsKept
<1>3. CASE ClientCloseRequest
  <2>1. ClientReceives({"CLOSE"})
    BY <1>3 DEF ClientCloseRequest
  <2>2. /\ UNCHANGED <<ch, vq, peer>> /\ g \in Handles
        /\ Tells(Down, h, {"CLOSE"}) => Tells(Down', h, {"CLOSE"}) \/ g = h
    BY <2>1, <1>v
  <2>3. CASE cl[g].running
    <3>1. ClientCloses(g)
      BY <1>3, <2>3 DEF ClientCloseRequest
    <3>2. /\ cl'[g] = NoDvc /\ \A f \in Handles : f # g => cl'[f] = cl[f]
          /\ Up' = Append(Up, Pdu("CLOSE", g, g))
          /\ Pdu("CLOSE", g, g) \in Pdus /\ Pdu("CLOSE", g, g).id = g
      BY <2>2, <2>3, <3>1, ClientClosesIs
    <3> HIDE DEF x, g
    <3>3. CASE h = g
      <4>1. cl'[h].running = FALSE
        BY <3>2, <3>3, NewDvc
      <4> QED BY <4>1 DEF EndsAt
    <3>4. CASE h # g
      <4>1. Tells(Up', h, Ended) => Tells(Up, h, Ended)
        BY <3>2, <3>4, <1>u, TellsAppend
      <4> QED BY <4>1, <2>2, <3>2, <3>4, <1>u, EndsKept
    <3> QED BY <3>3, <3>4
  <2>4. CASE ~cl[g].running
    <3>1. UNCHANGED <<cl, toServer>>
      BY <1>3, <2>4 DEF ClientCloseRequest
    <3>2. Up' = Up
      BY <2>2, <3>1 DEF Up
    <3> HIDE DEF x, g
    <3>3. CASE h = g
      <4>1. cl'[h].running = FALSE
        BY <2>4, <3>1, <3>3, <1>u
      <4> QED BY <4>1 DEF EndsAt
    <3>4. CASE h # g
      BY <2>2, <3>1, <3>2, <3>4, <1>u, EndsKept
    <3> QED BY <3>3, <3>4
  <2> QED BY <2>3, <2>4
<1>4. ASSUME NEW accept \in BOOLEAN, ClientCreate(accept)
      PROVE  EndsAt(h)'
  <2>1. /\ ClientReceives({"CREATE"}) /\ g \in Handles /\ x.cmd = "CREATE" /\ ~cl[g].running
        /\ cl' \in [Handles -> Dvcs] /\ \A f \in Handles : f # g => cl'[f] = cl[f]
        /\ \/ Up' = Append(Up, Pdu("CREATED", g, g))
           \/ cl' = cl /\ Up' = Append(Up, Pdu("REFUSED", g, g))
    BY <1>4, ClientCreateIs
  <2>2. /\ UNCHANGED <<ch, vq, peer>> /\ x \in Pdus
        /\ Tells(Down, h, {"CLOSE"}) => Tells(Down', h, {"CLOSE"}) \/ (g = h /\ x.cmd = "CLOSE")
    BY <2>1, <1>v
  <2>3. /\ Pdu("CREATED", g, g) \in Pdus /\ Pdu("CREATED", g, g).id = g /\ Pdu("CREATED", g, g).cmd = "CREATED"
        /\ Pdu("REFUSED", g, g) \in Pdus /\ Pdu("REFUSED", g, g).id = g
    BY <2>1, NewPdu
  <2>4. CASE h # g
    <3> HIDE DEF x, g
    <3>1. Tells(Up', h, Ended) => Tells(Up, h, Ended)
      <4>1. ASSUME NEW y \in Pdus, y.id = g, Up' = Append(Up, y) PROVE Tells(Up', h, Ended) => Tells(Up, h, Ended)
        BY <4>1, <2>4, <1>u, TellsAppend
      <4> QED BY <4>1, <2>1, <2>3
    <3>2. cl'[h] = cl[h] /\ ch'[h] = ch[h]
      BY <2>1, <2>2, <2>4
    <3>3. Tells(Down, h, {"CLOSE"}) => Tells(Down', h, {"CLOSE"})
      BY <2>2, <2>4
    <3> QED BY <3>1, <3>2, <3>3, <1>u, EndsKept
  <2>5. CASE h = g /\ cl' = cl
    <3>1. cl'[h].running = FALSE
      BY <2>1, <2>5, <1>u
    <3> QED BY <3>1 DEF EndsAt
  <2>6. CASE h = g /\ Up' = Append(Up, Pdu("CREATED", g, g))
    <3>1. PICK b, d, a, e \in Places : Talk(h, b, d, a, e)
      BY DEF TalksOK
    <3>2. PICK c \in Places : Leads(h, written[h], b, x, c)
      BY <2>1, <2>6, <3>1, ClientTalks
    <3>3. b.ph = "none"
      BY <3>2, <2>1, <2>6 DEF Leads, DataCmds
    <3>4. /\ ch[h].open = "NONE" /\ ch[h].closedIn = "NONE"
          /\ \A i \in DOMAIN Up : Up[i].id # h
      BY <3>1, <3>3 DEF Talk, ClientAt
    <3>5. ~Tells(Up, h, Ended)
      BY <3>4 DEF Tells
    <3> HIDE DEF x, g
    <3>6. ~Tells(Up', h, Ended)
      BY <3>5, <2>3, <2>6, <1>u, TellsAppend DEF Ended
    <3>7. ch'[h].open = "NONE" /\ ch'[h].closedIn = "NONE"
      BY <3>4, <2>2
    <3> QED BY <3>6, <3>7 DEF EndsAt
  <2> QED BY <2>1, <2>4, <2>5, <2>6
<1> QED BY <1>1, <1>2, <1>3, <1>4 DEF DrdynvcStep

(* A plugin that closes its channel does not run it any longer.            *)
LEMMA PluginEnds ==
    ASSUME ManagerTypes, NEW h \in Handles, EndsAt(h), NEW g \in Handles,
           (\E n \in 1 .. MaxLen : PluginWrites(g, n)) \/ PluginPdu(g) \/ PluginCloses(g)
    PROVE  EndsAt(h)'
<1>u. Down \in Seq(Pdus) /\ Up \in Seq(Pdus) /\ cl[h].running \in BOOLEAN
  BY OnTheWay, DvcIs
<1>1. UNCHANGED <<ch, vq, peer, toClient>>
  BY WireUnchanged DEF PluginWrites, PluginPdu, PluginCloses
<1>2. Down' = Down
  BY <1>1 DEF Down
<1>3. ASSUME NEW n \in 1 .. MaxLen, PluginWrites(g, n)
      PROVE  EndsAt(h)'
  <2>1. UNCHANGED <<cl, toServer>>
    BY <1>3, PluginWritesIs
  <2>2. Up' = Up
    BY <2>1, <1>1 DEF Up
  <2> QED BY <2>1, <2>2, <1>1, <1>2, <1>u, EndsKept
<1>4. CASE PluginPdu(g)
  <2>1. cl' = cl /\ toServer' = Append(toServer, Head(cw[g])) /\ cw[g] # <<>>
    BY <1>4 DEF PluginPdu
  <2>2. cw[g] \in Seq(Pdus) /\ \A j \in DOMAIN cw[g] : cw[g][j].cmd \in DataCmds
    BY DEF ManagerTypes, PluginsOK
  <2>3. Head(cw[g]) \in Pdus /\ Head(cw[g]).cmd \in DataCmds
    BY <2>1, <2>2
  <2>4. Up' = Append(Up, Head(cw[g]))
    BY <2>1, <2>3, <1>1, UpAppends
  <2>5. Head(cw[g]).cmd \notin Ended
    BY <2>3 DEF DataCmds, Ended
  <2>6. Tells(Up', h, Ended) => Tells(Up, h, Ended)
    BY <2>3, <2>4, <2>5, <1>u, TellsAppend
  <2> QED BY <2>1, <2>6, <1>1, <1>2, <1>u, EndsKept
<1>5. CASE PluginCloses(g)
  <2>1. cl[g].running /\ ClientCloses(g)
    BY <1>5 DEF PluginCloses
  <2>2. /\ cl'[g] = NoDvc /\ \A f \in Handles : f # g => cl'[f] = cl[f]
        /\ Up' = Append(Up, Pdu("CLOSE", g, g))
        /\ Pdu("CLOSE", g, g) \in Pdus /\ Pdu("CLOSE", g, g).id = g
    BY <2>1, <1>1, ClientClosesIs
  <2>3. CASE h = g
    <3>1. cl'[h].running = FALSE
      BY <2>2, <2>3, NewDvc
    <3> QED BY <3>1 DEF EndsAt
  <2>4. CASE h # g
    <3>1. Tells(Up', h, Ended) => Tells(Up, h, Ended)
      BY <2>2, <2>4, <1>u, TellsAppend
    <3> QED BY <3>1, <2>2, <2>4, <1>1, <1>2, <1>u, EndsKept
  <2> QED BY <2>3, <2>4
<1> QED BY <1>3, <1>4, <1>5

(* A channel that has ended stays so.                                      *)
LEMMA EndsStep ==
    ASSUME ManagerTypes, TableOK, TalksOK, EndsOK, ManagerNext
    PROVE  EndsOK'
<1> SUFFICES ASSUME NEW h \in Handles PROVE EndsAt(h)'
  BY EndsIs
<1>1. EndsAt(h)
  BY EndsIs
<1>2. CASE Done
  <2>1. UNCHANGED <<ch, vq, peer, cl, toClient, toServer>>
    BY <1>2 DEF Done, managerVars, managerState, drdynvcState
  <2> QED BY <2>1, <1>1 DEF EndsAt, Down, Up
<1> QED BY <1>1, <1>2, OwnerEnds, WriterEnds, PeerThreadEnds, DrdynvcEnds, PluginEnds DEF ManagerNext

-----------------------------------------------------------------------------
(***************************************************************************)
(* Virtual channels: what is read, the inductive invariant, and what       *)
(* follows from it.                                                        *)
(***************************************************************************)

\* The part of OwnerReadsItsOwn that is about channel h.
OwnMessages(all, msgs) ==
    \A i \in DOMAIN all : \/ i \in DOMAIN msgs /\ all[i] = msgs[i]
                          \/ i = Len(all) /\ all[i] = Quit
ReadsOwn(h) == OwnMessages(read[h] \o ch[h].q, sent[h])

(* What the serving threads read, channel by channel.                      *)
LEMMA ReadsIs ==
    /\ OwnerReadsItsOwn <=> \A h \in Handles : ReadsOwn(h)
    /\ OwnerReadsItsOwn' <=> \A h \in Handles : ReadsOwn(h)'
<1>1. OwnerReadsItsOwn <=> \A h \in Handles : ReadsOwn(h)
  BY Zenon DEF OwnerReadsItsOwn, ReadsOwn, OwnMessages
<1>2. OwnerReadsItsOwn' <=> \A h \in Handles : ReadsOwn(h)'
  BY Zenon DEF OwnerReadsItsOwn, ReadsOwn, OwnMessages
<1> QED BY <1>1, <1>2

(* The messages of a prefix are the plugin's own, and so are they when     *)
(* the quit message comes last.                                            *)
LEMMA PrefixOwn ==
    ASSUME NEW all \in Seq(Seq(Chunks)), NEW msgs \in Seq(Writes), Prefix(all, msgs)
    PROVE  OwnMessages(all, msgs) /\ OwnMessages(Append(all, Quit), msgs)
<1>1. PICK S : S = Seq(Chunks)
  OBVIOUS
<1>2. all \in Seq(S) /\ Quit \in S
  BY <1>1 DEF Quit
<1>3. /\ Len(all) \in Nat /\ DOMAIN all = 1 .. Len(all) /\ Len(Append(all, Quit)) = Len(all) + 1
      /\ DOMAIN Append(all, Quit) = 1 .. Len(all) + 1
      /\ \A i \in 1 .. Len(all) + 1 : Append(all, Quit)[i] = IF i = Len(all) + 1 THEN Quit ELSE all[i]
  BY <1>2
<1>4. Len(msgs) \in Nat /\ DOMAIN msgs = 1 .. Len(msgs)
  OBVIOUS
<1>5. PICK n \in Nat : n = Len(all)
  BY <1>3
<1>6. \A i \in 1 .. n : i \in DOMAIN msgs /\ all[i] = msgs[i]
  BY <1>3, <1>4, <1>5 DEF Prefix
<1>7. OwnMessages(all, msgs)
  BY <1>3, <1>5, <1>6 DEF OwnMessages
<1>8. OwnMessages(Append(all, Quit), msgs)
  <2>1. ASSUME NEW i \in DOMAIN Append(all, Quit)
        PROVE  \/ i \in DOMAIN msgs /\ Append(all, Quit)[i] = msgs[i]
               \/ i = Len(Append(all, Quit)) /\ Append(all, Quit)[i] = Quit
    <3>1. i \in 1 .. n + 1
      BY <1>3, <1>5
    <3>2. CASE i = n + 1
      BY <3>2, <1>3, <1>5
    <3>3. CASE i # n + 1
      <4>1. i \in 1 .. n
        BY <3>1, <3>3
      <4>2. Append(all, Quit)[i] = all[i]
        BY <4>1, <1>3, <1>5
      <4> QED BY <4>1, <4>2, <1>6
    <3> QED BY <3>2, <3>3
  <2> QED BY <2>1 DEF OwnMessages
<1> QED BY <1>7, <1>8

(* The plugin writes more.                                                 *)
LEMMA OwnMore ==
    ASSUME NEW all, NEW msgs \in Seq(Writes), NEW m, OwnMessages(all, msgs)
    PROVE  OwnMessages(all, Append(msgs, m))
<1>1. PICK n \in Nat : n = Len(msgs)
  OBVIOUS
<1>2. /\ DOMAIN msgs = 1 .. n /\ DOMAIN Append(msgs, m) = 1 .. n + 1
      /\ \A i \in 1 .. n : Append(msgs, m)[i] = msgs[i]
  BY <1>1
<1>3. \A i \in DOMAIN msgs : i \in DOMAIN Append(msgs, m) /\ Append(msgs, m)[i] = msgs[i]
  BY <1>2
<1> QED BY <1>3 DEF OwnMessages

(* The serving thread's side: every step.                                  *)
LEMMA OwnStep ==
    ASSUME ManagerTypes, TableOK, TalksOK, ManagerNext, NEW h \in Handles, ReadsOwn(h)
    PROVE  ReadsOwn(h)'
<1>t. IdsOK /\ OwnersOK /\ WritersOK /\ ch \in [Handles -> Channels]
  BY DEF TableOK, ManagerTypes, ChannelsOK
<1>1. ASSUME Elsewhere(h) PROVE ReadsOwn(h)'
  BY <1>1 DEF Elsewhere, ReadsOwn
<1>2. ASSUME read'[h] = read[h], ch'[h].q = ch[h].q, sent'[h] = sent[h] PROVE ReadsOwn(h)'
  BY <1>2 DEF ReadsOwn
<1>3. ASSUME NEW o \in Owners, OwnerStep(o) \/ Stop(o) \/ Reopen(o) PROVE ReadsOwn(h)'
  <2>1. CASE OpenEx(o)
    BY <2>1, <1>1, <1>t, OpenElsewhere
  <2>2. CASE OpenRequest(o)
    <3>1. UNCHANGED <<ch, sent, read>>
      BY <2>2, WireUnchanged DEF OpenRequest
    <3> QED BY <3>1, <1>2
  <2>3. CASE OpenGivesUp(o) \/ QueryReady(o) \/ Stop(o) \/ Reopen(o)
    BY <2>3, <1>1, OwnersElsewhere
  <2>4. CASE Read(o)
    BY <2>4, <1>1, <1>t, ReadElsewhere
  <2>5. CASE CloseRequest(o)
    <3> DEFINE g == owner[o].h
    <3>1. UNCHANGED <<sent, read>> /\ ch' = [ch EXCEPT ![g].closedIn = ch[g].open]
      BY <2>5, WireUnchanged DEF CloseRequest
    <3>2. g \in Handles
      BY <2>5, <1>t, ServedIs DEF CloseRequest, At, Serving
    <3> HIDE DEF g
    <3>3. ch'[h].q = ch[h].q
      BY <3>1, <3>2, <1>t DEF Channels
    <3> QED BY <3>1, <3>3, <1>2
  <2>6. CASE RemoveChannel(o)
    BY <2>6, <1>1, <1>t, RemoveElsewhere
  <2> QED BY <1>3, <2>1, <2>2, <2>3, <2>4, <2>5, <2>6 DEF OwnerStep
<1>4. ASSUME NEW w \in Writers, NEW o \in Owners, NEW n \in 1 .. MaxLen, WriteBegins(w, o, n) PROVE ReadsOwn(h)'
  <2> DEFINE g == owner[o].h
  <2>1. UNCHANGED <<sent, read>> /\ g \in Handles /\ ch' = [ch EXCEPT ![g].lock = TRUE]
    BY <1>4, <1>t, WriteBeginsIs
  <2> HIDE DEF g
  <2>2. ch'[h].q = ch[h].q
    BY <2>1, <1>t DEF Channels
  <2> QED BY <2>1, <2>2, <1>2
<1>5. ASSUME NEW w \in Writers, WritePdu(w) PROVE ReadsOwn(h)'
  <2>1. UNCHANGED <<sent, read>> /\ ch'[h].q = ch[h].q
    BY <1>5, <1>t, WritePduIs
  <2> QED BY <2>1, <1>2
<1>6. CASE PeerThreadStep
  <2>1. PICK b, d, a, e \in Places : Talk(h, b, d, a, e)
    BY DEF TalksOK
  <2>2. CASE ManagerOpen \/ CheckFileDescriptor \/ CapabilitiesResponse \/ LookUp
    BY <2>2, <1>1, PeerElsewhere
  <2>3. CASE UnknownChannel
    <3>1. UNCHANGED <<ch, sent, read>>
      BY <2>3, WireUnchanged DEF UnknownChannel
    <3> QED BY <3>1, <1>2
  <2>4. CASE (CreateResponse \/ DataIgnored \/ DataFirst \/ Data \/ CloseResponse) /\ h # peer.dvc
    <3>1. \E cmds, rec, keep : Handle(cmds, rec, keep)
      BY <2>4, Zenon DEF CreateResponse, DataIgnored, DataFirst, Data, CloseResponse
    <3> QED BY <3>1, <2>4, <1>1, HandleElsewhere
  <2>5. CASE (CreateResponse \/ DataIgnored \/ DataFirst) /\ h = peer.dvc
    <3> DEFINE open == IF peer.pdu.cmd = "CREATED" THEN "SUCCEEDED" ELSE "FAILED"
               rec1 == [ch[peer.dvc] EXCEPT !.open = open]
               rec2 == [ch[peer.dvc] EXCEPT !.total = peer.pdu.total, !.buf = <<peer.pdu.chunk>>]
    <3>1. PICK cmds, rec, keep : Handle(cmds, rec, keep) /\ (rec = rec1 \/ rec = rec2 \/ rec = ch[peer.dvc])
      <4>1. CASE CreateResponse
        <5>1. Handle({"CREATED", "REFUSED"}, rec1, TRUE)
          BY <4>1, Zenon DEF CreateResponse
        <5> HIDE DEF rec1, rec2
        <5> QED BY <5>1
      <4>2. CASE DataIgnored
        <5>1. Handle({"DATA_FIRST", "DATA"}, ch[peer.dvc], TRUE)
          BY <4>2, Zenon DEF DataIgnored
        <5> HIDE DEF rec1, rec2
        <5> QED BY <5>1
      <4>3. CASE DataFirst
        <5>1. Handle({"DATA_FIRST"}, rec2, TRUE)
          BY <4>3, Zenon DEF DataFirst
        <5> HIDE DEF rec1, rec2
        <5> QED BY <5>1
      <4> QED BY <2>5, <4>1, <4>2, <4>3
    <3>2. rec1.q = ch[h].q /\ rec2.q = ch[h].q
      BY <2>5, ChannelIs DEF Channels
    <3> HIDE DEF rec1, rec2, open
    <3>3. UNCHANGED <<sent, read>> /\ ch'[peer.dvc] = rec
      BY <3>1, HandleIs
    <3>4. ch'[h].q = ch[h].q
      BY <3>1, <3>2, <3>3, <2>5
    <3> QED BY <3>3, <3>4, <1>2
  <2>6. CASE Data /\ h = peer.dvc
    <3>1. PICK c \in Places : Partial(sent[h], ch'[h].total, ch'[h].buf, read[h] \o ch'[h].q, c)
      BY <2>6, <2>1, DataTalks
    <3>2. UNCHANGED <<sent, read>> /\ ch'[h] \in Channels
      BY <2>6, DataIs, HandlerLeaves
    <3>3. /\ read[h] \in Seq(Seq(Chunks)) /\ ch'[h].q \in Seq(Seq(Chunks)) /\ sent[h] \in Seq(Writes)
      BY <3>2, ChannelIs DEF Channels
    <3>4. read[h] \o ch'[h].q \in Seq(Seq(Chunks))
      <4>1. PICK S : S = Seq(Chunks)
        OBVIOUS
      <4> QED BY <3>3, <4>1
    <3>5. OwnMessages(read[h] \o ch'[h].q, sent[h])
      BY <3>1, <3>3, <3>4, PrefixOwn DEF Partial
    <3> QED BY <3>2, <3>5 DEF ReadsOwn
  <2>7. CASE CloseResponse /\ h = peer.dvc
    <3>1. ch[h].open = "SUCCEEDED"
      BY <2>7, <2>1, CloseResponseTalks
    <3>2. peer.pc = "use"
      BY <2>7, HandlerLeaves
    <3>3. Partial(sent[h], ch[h].total, ch[h].buf, read[h] \o ch[h].q, a)
      BY <2>1, <2>7, <3>1, <3>2, InUseListens DEF Talk
    <3> DEFINE rec == [ch[peer.dvc] EXCEPT !.open = "CLOSED", !.q = Append(@, Quit)]
    <3>4. Handle({"CLOSE"}, rec, TRUE)
      BY <2>7, Zenon DEF CloseResponse
    <3>5. rec.q = Append(ch[h].q, Quit)
      BY <2>7, ChannelIs DEF Channels
    <3> HIDE DEF rec
    <3>6. UNCHANGED <<sent, read>> /\ ch'[h] = rec
      BY <3>4, <2>7, HandleIs
    <3>7. /\ read[h] \in Seq(Seq(Chunks)) /\ ch[h].q \in Seq(Seq(Chunks)) /\ sent[h] \in Seq(Writes)
          /\ read[h] \o ch[h].q \in Seq(Seq(Chunks)) /\ Quit \in Seq(Chunks)
      BY ChannelIs DEF Quit
    <3>8. read[h] \o Append(ch[h].q, Quit) = Append(read[h] \o ch[h].q, Quit)
      BY <3>7, QueueAppend
    <3>9. OwnMessages(Append(read[h] \o ch[h].q, Quit), sent[h])
      BY <3>3, <3>7, PrefixOwn DEF Partial
    <3> QED BY <3>5, <3>6, <3>8, <3>9 DEF ReadsOwn
  <2> QED BY <1>6, <2>2, <2>3, <2>4, <2>5, <2>6, <2>7 DEF PeerThreadStep
<1>7. CASE DrdynvcStep
  <2>1. \E cmds : ClientReceives(cmds)
    BY <1>7 DEF DrdynvcStep, ClientCapabilities, ClientData, ClientCloseRequest, ClientCreate
  <2>2. UNCHANGED <<ch, sent, read>>
    BY <2>1, WireUnchanged DEF ClientReceives
  <2> QED BY <2>2, <1>2
<1>8. ASSUME NEW g \in Handles, NEW n \in 1 .. MaxLen, PluginWrites(g, n) PROVE ReadsOwn(h)'
  <2>1. PICK msg \in Writes : UNCHANGED <<ch, read>> /\ sent' = [sent EXCEPT ![g] = Append(sent[g], msg)]
    BY <1>8, PluginWritesIs
  <2>2. sent \in [Handles -> Seq(Writes)] /\ sent[h] \in Seq(Writes)
    BY DEF ManagerTypes, GhostsOK
  <2>3. sent'[h] = sent[h] \/ sent'[h] = Append(sent[h], msg)
    BY <2>1, <2>2
  <2>4. OwnMessages(read[h] \o ch[h].q, sent'[h])
    BY <2>2, <2>3, OwnMore DEF ReadsOwn
  <2> QED BY <2>1, <2>4 DEF ReadsOwn
<1>9. ASSUME NEW g \in Handles, PluginPdu(g) \/ PluginCloses(g) PROVE ReadsOwn(h)'
  <2>1. UNCHANGED <<ch, sent, read>>
    BY <1>9, WireUnchanged DEF PluginPdu, PluginCloses
  <2> QED BY <2>1, <1>2
<1>10. CASE Done
  <2>1. UNCHANGED <<ch, sent, read>>
    BY <1>10 DEF Done, managerVars, managerState
  <2> QED BY <2>1, <1>2
<1> HIDE DEF ReadsOwn
<1> QED BY <1>3, <1>4, <1>5, <1>6, <1>7, <1>8, <1>9, <1>10 DEF ManagerNext

(* The client's side: what its plugin got is a prefix of what was written. *)
LEMMA GotStep ==
    ASSUME ManagerTypes, TableOK, TalksOK, ManagerNext, NEW h \in Handles, Prefix(got[h], written[h])
    PROVE  Prefix(got'[h], written'[h])
<1>t. IdsOK /\ OwnersOK /\ WritersOK
  BY DEF TableOK
<1>1. ASSUME UNCHANGED <<got, written>> PROVE Prefix(got'[h], written'[h])
  BY <1>1
<1>2. ASSUME NEW o \in Owners, OwnerStep(o) \/ Stop(o) \/ Reopen(o) PROVE UNCHANGED <<got, written>>
  BY <1>2, WireUnchanged DEF OwnerStep, OpenEx, OpenRequest, OpenGivesUp, QueryReady, Read, CloseRequest, RemoveChannel,
                             Stop, Reopen
<1>3. ASSUME NEW w \in Writers, NEW o \in Owners, NEW n \in 1 .. MaxLen, WriteBegins(w, o, n)
      PROVE  Prefix(got'[h], written'[h])
  <2> DEFINE g == owner[o].h
             msg == Message(g, Len(written[g]) + 1, n)
  <2>1. got' = got /\ written' = [written EXCEPT ![g] = Append(@, msg)]
    BY <1>3 DEF WriteBegins
  <2> HIDE DEF g, msg
  <2>2. /\ written \in [Handles -> Seq(Writes)] /\ written[h] \in Seq(Writes) /\ got[h] \in Seq(Seq(Chunks))
    BY DEF ManagerTypes, GhostsOK
  <2>3. Len(got[h]) \in Nat
    BY <2>2
  <2>4. written'[h] = written[h] \/ written'[h] = Append(written[h], msg)
    BY <2>1, <2>2
  <2> QED BY <2>1, <2>2, <2>3, <2>4, PrefixMore
<1>4. ASSUME NEW w \in Writers, WritePdu(w) PROVE UNCHANGED <<got, written>>
  BY <1>4, <1>t, WritePduIs
<1>5. CASE PeerThreadStep
  <2>1. CASE ManagerOpen \/ CheckFileDescriptor \/ CapabilitiesResponse \/ UnknownChannel \/ LookUp
    <3>1. UNCHANGED <<got, written>>
      BY <2>1, WireUnchanged DEF ManagerOpen, CheckFileDescriptor, CapabilitiesResponse, UnknownChannel, LookUp
    <3> QED BY <3>1, <1>1
  <2>2. CASE CreateResponse \/ DataIgnored \/ DataFirst \/ Data \/ CloseResponse
    <3>1. UNCHANGED <<got, written>>
      BY <2>2, HandlerLeaves
    <3> QED BY <3>1, <1>1
  <2> QED BY <1>5, <2>1, <2>2 DEF PeerThreadStep
<1>6. CASE DrdynvcStep
  <2>1. CASE ClientData
    <3> DEFINE g == Head(toClient).id
    <3>1. PICK b, d, a, e \in Places : Talk(h, b, d, a, e)
      BY DEF TalksOK
    <3>2. h = g /\ cl[h].running => Prefix(got'[h], written[h])
      BY <2>1, <3>1, ClientDataTalks
    <3>3. /\ ClientReceives({"DATA_FIRST", "DATA"})
          /\ h # g => got'[h] = got[h]
          /\ ~cl[g].running => got' = got
      BY <2>1, ClientDataIs
    <3>4. written' = written
      BY <3>3 DEF ClientReceives
    <3> HIDE DEF g
    <3> QED BY <3>2, <3>3, <3>4
  <2>2. CASE ClientCapabilities \/ ClientCloseRequest \/ \E accept \in BOOLEAN : ClientCreate(accept)
    <3>1. UNCHANGED <<got, written>>
      BY <2>2 DEF ClientCapabilities, ClientCloseRequest, ClientCreate, ClientReceives
    <3> QED BY <3>1, <1>1
  <2> QED BY <1>6, <2>1, <2>2 DEF DrdynvcStep
<1>7. ASSUME NEW g \in Handles, (\E n \in 1 .. MaxLen : PluginWrites(g, n)) \/ PluginPdu(g) \/ PluginCloses(g)
      PROVE  UNCHANGED <<got, written>>
  BY <1>7, WireUnchanged DEF PluginWrites, PluginPdu, PluginCloses
<1>8. CASE Done
  <2>1. UNCHANGED <<got, written>>
    BY <1>8 DEF Done, managerVars
  <2> QED BY <2>1, <1>1
<1> QED BY <1>1, <1>2, <1>3, <1>4, <1>5, <1>6, <1>7, <1>8 DEF ManagerNext

(* Both sides read what was written.                                       *)
LEMMA ReadsStep ==
    ASSUME ManagerTypes, TableOK, TalksOK, ReadsOK, ManagerNext
    PROVE  ReadsOK'
<1>1. \A h \in Handles : Prefix(got'[h], written'[h])
  BY GotStep DEF ReadsOK
<1>2. OwnerReadsItsOwn'
  BY OwnStep, ReadsIs DEF ReadsOK
<1> QED BY <1>1, <1>2 DEF ReadsOK

(* The initial state: nothing is said of any channel.                      *)
LEMMA ManagerBegins ==
    ASSUME ManagerInit
    PROVE  ManagerIndInv
<1> DEFINE N == Place("none", 0, 0)
<1>1. N \in Places /\ N.ph = "none"
  BY PlaceIs
<1> HIDE DEF N
<1>2. Down = <<>> /\ Up = <<>>
  BY DEF ManagerInit, Down, Up, Idle
<1>3. /\ NoChannel.open = "NONE" /\ NoChannel.closedIn = "NONE" /\ NoChannel.live = FALSE
      /\ NoChannel.q = <<>> /\ NoChannel.total = 0 /\ NoChannel.buf = <<>>
  BY DEF NoChannel
<1>4. /\ \A h \in Handles : /\ ch[h] = NoChannel /\ cl[h] = NoDvc /\ cw[h] = <<>> /\ written[h] = <<>>
                            /\ got[h] = <<>> /\ sent[h] = <<>> /\ read[h] = <<>>
      /\ \A o \in Owners : owner[o].pc = "open"
      /\ \A w \in Writers : writer[w].h = 0 /\ writer[w].left = <<>>
      /\ seq = 0 /\ peer = Idle
  BY DEF ManagerInit, NoWrite
<1>5. Idle.pc = "loop" /\ NoDvc.running = FALSE
  BY DEF Idle, NoDvc
<1>6. <<>> \o <<>> = <<>> /\ Len(<<>>) = 0 /\ DOMAIN <<>> = {}
  OBVIOUS
<1>7. ManagerTypes
  <2>1. ChannelsOK
    <3>1. NoChannel \in Channels
      <4>1. <<>> \in Seq(Seq(Chunks)) /\ <<>> \in Seq(Chunks)
        OBVIOUS
      <4> QED BY <4>1, ManagerAssumption DEF NoChannel, Channels, OpenStates
    <3> QED BY <3>1, <1>3, <1>6 DEF ManagerInit, ChannelsOK
  <2>2. ThreadsOK
    BY ManagerAssumption DEF ManagerInit, ThreadsOK, OwnerPcs, NoWrite
  <2>3. WireOK
    BY DEF ManagerInit, WireOK
  <2>4. PluginsOK
    <3>1. NoDvc \in Dvcs /\ NoDvc.running = FALSE /\ NoDvc.data = <<>>
      BY NewDvc
    <3> QED BY <3>1, <1>6 DEF ManagerInit, PluginsOK
  <2>5. GhostsOK
    BY DEF ManagerInit, GhostsOK
  <2> QED BY <2>1, <2>2, <2>3, <2>4, <2>5 DEF ManagerTypes, ManagerInit
<1>8. IdsOK
  BY <1>3, <1>4 DEF IdsOK, Handles
<1>9. OwnersOK /\ WritersOK
  BY <1>4 DEF OwnersOK, WritersOK, Serving
<1>10. TalksOK
  <2>1. ASSUME NEW h \in Handles PROVE Talk(h, N, N, N, N)
    <3>1. ClientAt(h, N)
      BY <1>1, <1>2, <1>3, <1>4, <1>5, <1>6 DEF ClientAt
    <3>2. ServerAt(h, N, N)
      <4>1. ~Open(h)
        BY <1>4 DEF Open
      <4> QED BY <4>1, <1>1, <1>2, <1>4, <1>6 DEF ServerAt
    <3>3. HeardAt(h, N)
      <4>1. ch[h].open = "NONE" /\ read[h] \o ch[h].q = <<>> /\ ch[h].total = 0
        BY <1>3, <1>4, <1>6
      <4> QED BY <4>1, <1>1 DEF HeardAt
    <3>4. SaidAt(h, N)
      BY <1>1, <1>4, <1>5 DEF SaidAt
    <3>5. /\ Linked(Places, Carries(h, written[h]), N, Down, N)
          /\ Linked(Places, Carries(h, sent[h]), N, Up, N)
      BY <1>1, <1>2, LinkedEmpty
    <3> QED BY <3>1, <3>2, <3>3, <3>4, <3>5 DEF Talk
  <2> QED BY <1>1, <2>1 DEF TalksOK
<1>11. EndsOK
  BY <1>4, <1>5 DEF EndsOK
<1>12. ReadsOK
  <2>1. \A h \in Handles : Prefix(got[h], written[h])
    BY <1>4, <1>6 DEF Prefix
  <2>2. OwnerReadsItsOwn
    BY <1>3, <1>4, <1>6 DEF OwnerReadsItsOwn
  <2> QED BY <2>1, <2>2 DEF ReadsOK
<1> QED BY <1>7, <1>8, <1>9, <1>10, <1>11, <1>12 DEF ManagerIndInv

(* The inductive invariant: at any time what is on the way about a channel *)
(* leads from the place where its reader is to the place where its writer  *)
(* is, however the serving threads, the writing threads, the peer's thread *)
(* and the client's plugins take turns (server.c, drdynvc_main.c).         *)
THEOREM ManagerIndInvariant == ManagerSpec => []ManagerIndInv
<1>1. ManagerInit => ManagerIndInv
  BY ManagerBegins
<1>2. ManagerIndInv /\ [ManagerNext]_managerVars => ManagerIndInv'
  <2> SUFFICES ASSUME ManagerIndInv, [ManagerNext]_managerVars PROVE ManagerIndInv'
    OBVIOUS
  <2>1. /\ ManagerTypes /\ IdsOK /\ OwnersOK /\ WritersOK /\ TableOK /\ TalksOK /\ EndsOK /\ ReadsOK
    BY DEF ManagerIndInv, TableOK
  <2>2. CASE ManagerNext
    <3>1. ManagerTypes'
      BY <2>1, <2>2, TypesStep
    <3>2. IdsOK' /\ OwnersOK' /\ WritersOK'
      BY <2>1, <2>2, TableStep DEF TableOK
    <3>3. TalksOK'
      BY <2>1, <2>2, TalkSteps DEF TalksOK
    <3>4. EndsOK'
      BY <2>1, <2>2, EndsStep
    <3>5. ReadsOK'
      BY <2>1, <2>2, ReadsStep
    <3> QED BY <3>1, <3>2, <3>3, <3>4, <3>5 DEF ManagerIndInv
  <2>3. CASE UNCHANGED managerVars
    <3>1. UNCHANGED <<drdynvc, seq, ch, vq, owner, writer, peer, up, cl, cw, toClient, toServer, written, got, sent, read>>
      BY <2>3 DEF managerVars, managerState, drdynvcState
    <3>2. ManagerTypes'
      BY <2>1, <3>1 DEF ManagerTypes, ChannelsOK, ThreadsOK, WireOK, PluginsOK, GhostsOK
    <3>3. IdsOK' /\ OwnersOK' /\ WritersOK'
      BY <2>1, <3>1 DEF IdsOK, OwnersOK, WritersOK
    <3>4. ASSUME NEW h \in Handles PROVE \E b, d, a, e \in Places : Talk(h, b, d, a, e)'
      <4>1. Quietly(h, Down, Down') /\ Quietly(h, Up, Up')
        BY <3>1, StreamsStay
      <4>2. Elsewhere(h)
        BY <3>1, <4>1, OnlyStreams
      <4>3. PICK b, d, a, e \in Places : Talk(h, b, d, a, e)
        BY <2>1 DEF TalksOK
      <4> QED BY <2>1, <4>2, <4>3, TalkElsewhere
    <3>5. TalksOK'
      BY <3>4 DEF TalksOK
    <3>6. EndsOK'
      BY <2>1, <3>1 DEF EndsOK, Down, Up
    <3>7. ReadsOK'
      BY <2>1, <3>1 DEF ReadsOK, OwnerReadsItsOwn
    <3> QED BY <3>2, <3>3, <3>5, <3>6, <3>7 DEF ManagerIndInv
  <2> QED BY <2>2, <2>3
<1> QED BY <1>1, <1>2, PTL DEF ManagerSpec

(* The types of what the wire carries and of a message being put together. *)
LEMMA TypesGive ==
    ASSUME ManagerTypes
    PROVE  ManagerTypeOK
<1>1. ASSUME NEW m \in Seq(Chunks), Len(m) <= MaxLen PROVE MessageOK(m)
  BY <1>1 DEF MessageOK, Chunk, Chunks
<1>2. ASSUME NEW x \in Pdus PROVE PduOK(x)
  BY PduIs DEF PduOK, Chunk, Chunks, Cmds
<1>3. PduOK(NoPdu)
  BY ManagerAssumption DEF PduOK, NoPdu, Cmds, Chunk
<1>4. ASSUME NEW q \in Seq(Pdus), NEW i \in DOMAIN q PROVE PduOK(q[i])
  BY <1>2
<1>5. ASSUME NEW h \in Handles
      PROVE  /\ ch[h].live \in BOOLEAN /\ ch[h].lock \in BOOLEAN
             /\ ch[h].id \in 0 .. MaxOpen /\ ch[h].open \in OpenStates
             /\ ch[h].closedIn \in OpenStates /\ ch[h].total \in 0 .. MaxLen
             /\ MessageOK(ch[h].buf) /\ \A i \in DOMAIN ch[h].q : MessageOK(ch[h].q[i])
  <2>1. /\ ch[h] \in Channels /\ (Len(ch[h].buf) < ch[h].total \/ ch[h].buf = <<>>)
        /\ \A i \in DOMAIN ch[h].q : Len(ch[h].q[i]) <= MaxLen
    BY DEF ManagerTypes, ChannelsOK
  <2>2. /\ ch[h].live \in BOOLEAN /\ ch[h].lock \in BOOLEAN
        /\ ch[h].id \in 0 .. MaxOpen /\ ch[h].open \in OpenStates
        /\ ch[h].closedIn \in OpenStates /\ ch[h].total \in 0 .. MaxLen
        /\ ch[h].buf \in Seq(Chunks) /\ ch[h].q \in Seq(Seq(Chunks))
    BY <2>1 DEF Channels
  <2>3. Len(ch[h].buf) <= MaxLen
    <3>1. PICK n \in Nat : n = Len(ch[h].buf)
      BY <2>2
    <3>2. CASE ch[h].buf = <<>>
      BY <3>2, ManagerAssumption
    <3>3. CASE n < ch[h].total
      BY <3>1, <3>3, <2>2, ManagerAssumption
    <3> QED BY <2>1, <3>1, <3>2, <3>3
  <2>4. MessageOK(ch[h].buf)
    BY <1>1, <2>2, <2>3
  <2>5. ASSUME NEW i \in DOMAIN ch[h].q PROVE MessageOK(ch[h].q[i])
    <3>1. PICK S : S = Seq(Chunks)
      OBVIOUS
    <3>2. ch[h].q[i] \in S
      BY <2>2, <3>1
    <3> QED BY <2>1, <3>1, <3>2, <1>1
  <2> QED BY <2>2, <2>4, <2>5
<1>6. ASSUME NEW h \in Handles PROVE cl[h].running \in BOOLEAN /\ MessageOK(cl[h].data)
  <2>1. cl[h].running \in BOOLEAN /\ cl[h].len \in 0 .. MaxLen /\ cl[h].data \in Seq(Chunks)
    BY DvcIs
  <2>2. Len(cl[h].data) < cl[h].len \/ cl[h].data = <<>>
    BY DEF ManagerTypes, PluginsOK
  <2>3. Len(cl[h].data) <= MaxLen
    <3>1. PICK n \in Nat : n = Len(cl[h].data)
      BY <2>1
    <3>2. CASE cl[h].data = <<>>
      BY <3>2, ManagerAssumption
    <3>3. CASE n < cl[h].len
      BY <3>1, <3>3, <2>1, ManagerAssumption
    <3> QED BY <2>2, <3>1, <3>2, <3>3
  <2> QED BY <1>1, <2>1, <2>3
<1>7. peer.pc \in {"loop", "use"} /\ PduOK(peer.pdu) /\ peer.dvc \in 0 .. MaxOpen
  <2>1. CASE peer = Idle
    BY <2>1, <1>3, ManagerAssumption DEF Idle
  <2>2. CASE peer # Idle
    <3>1. peer \in [pc : {"use"}, pdu : Pdus, dvc : Handles]
      BY <2>2 DEF ManagerTypes, ThreadsOK
    <3> QED BY <3>1, <1>2 DEF Handles
  <2> QED BY <2>1, <2>2
<1>8. /\ drdynvc \in {"NONE", "INITIALIZED", "READY"} /\ seq \in 0 .. MaxOpen
      /\ \A o \in Owners : owner[o].pc \in OwnerPcs /\ owner[o].h \in 0 .. MaxOpen
      /\ \A w \in Writers : writer[w].h \in 0 .. MaxOpen
  BY DEF ManagerTypes, ThreadsOK
<1>9. \A s \in {vq, toClient, toServer} : \A i \in DOMAIN s : PduOK(s[i])
  BY <1>4 DEF ManagerTypes, WireOK
<1>10. up \in BOOLEAN
  BY DEF ManagerTypes
<1> QED BY <1>5, <1>6, <1>7, <1>8, <1>9, <1>10 DEF ManagerTypeOK

(* wts_read_drdynvc_data never fails on what an honest client sends: the   *)
(* connection is kept, and no message grows beyond its announced length.   *)
THEOREM ManagerInvariance == ManagerSpec => []ManagerInv
<1>1. ManagerIndInv => ManagerInv
  BY TypesGive DEF ManagerIndInv, ManagerInv, ManagerTypes, HonestClientStays
<1> QED BY <1>1, ManagerIndInvariant, PTL

(* WTSVirtualChannelWrite and dvcman_write_channel: however many threads   *)
(* write, the messages arrive whole, in order and at their own channel.    *)
THEOREM MessagesAreWhole == ManagerSpec => []MessagesArriveWhole
<1>1. ManagerIndInv => MessagesArriveWhole
  <2> SUFFICES ASSUME ManagerIndInv PROVE MessagesArriveWhole
    OBVIOUS
  <2>1. ASSUME NEW h \in Handles PROVE IsPrefix(got[h], written[h])
    <3>1. Prefix(got[h], written[h])
      BY DEF ManagerIndInv, ReadsOK
    <3>2. PICK S, T : S = Seq(Chunks) /\ T = Writes
      OBVIOUS
    <3>3. got[h] \in Seq(S) /\ written[h] \in Seq(T)
      BY <3>2 DEF ManagerIndInv, ManagerTypes, GhostsOK
    <3>4. PICK n \in Nat : n = Len(got[h])
      BY <3>3
    <3>5. n <= Len(written[h]) /\ Len(written[h]) \in Nat /\ \A j \in 1 .. n : got[h][j] = written[h][j]
      BY <3>1, <3>3, <3>4 DEF Prefix
    <3>6. SubSeq(got[h], 1, n) = [j \in 1 .. n |-> got[h][j]]
      BY <3>3, <3>4
    <3>7. SubSeq(written[h], 1, n) = [j \in 1 .. n |-> written[h][j]]
      BY <3>3, <3>4, <3>5
    <3> QED BY <3>4, <3>5, <3>6, <3>7 DEF IsPrefix
  <2>2. OwnerReadsItsOwn
    BY DEF ManagerIndInv, ReadsOK
  <2> QED BY <2>1, <2>2 DEF MessagesArriveWhole, ClientGetsWholeWrites
<1> QED BY <1>1, ManagerIndInvariant, PTL

(* WTSVirtualChannelClose leaves no channel open at the client: a channel  *)
(* that the client runs, the server has freed and nothing is on the way    *)
(* about was closed before the answer to its create request was read.      *)
THEOREM NoOrphanIsLeft == ManagerSpec => []NoOrphan
<1>1. ManagerIndInv => NoOrphan
  <2> SUFFICES ASSUME ManagerIndInv, NEW g \in Handles, cl[g].running,
                      \A i \in DOMAIN (vq \o toClient) : (vq \o toClient)[i].id # g
               PROVE  ch[cl[g].h].closedIn = "NONE"
    BY DEF NoOrphan
  <2>1. ManagerTypes /\ EndsOK
    BY DEF ManagerIndInv
  <2>2. cl[g].h = g
    BY <2>1, DvcIs
  <2>3. vq \in Seq(Pdus) /\ toClient \in Seq(Pdus)
    BY <2>1 DEF ManagerTypes, WireOK
  <2>4. ASSUME NEW i \in DOMAIN Down, Down[i].id = g PROVE FALSE
    <3>1. PICK n, m \in Nat : n = Len(vq) /\ m = Len(toClient)
      BY <2>3
    <3>2. /\ DOMAIN (vq \o toClient) = 1 .. n + m
          /\ \A j \in 1 .. n : (vq \o toClient)[j] = vq[j]
          /\ \A j \in 1 .. m : (vq \o toClient)[n + j] = toClient[j]
      BY <3>1, <2>3
    <3>3. /\ i \in 1 .. m + n
          /\ \A j \in 1 .. m : Down[j] = toClient[j]
          /\ \A j \in 1 .. n : Down[m + j] = vq[j]
      BY <3>1, <2>3 DEF Down
    <3>4. CASE i <= m
      <4>1. i \in 1 .. m /\ n + i \in 1 .. n + m
        BY <3>3, <3>4
      <4>2. (vq \o toClient)[n + i] = Down[i]
        BY <4>1, <3>2, <3>3
      <4> QED BY <4>1, <4>2, <3>2, <2>4
    <3>5. CASE i > m
      <4>1. i - m \in 1 .. n /\ i - m \in 1 .. n + m /\ m + (i - m) = i
        BY <3>3, <3>5
      <4>2. (vq \o toClient)[i - m] = Down[i]
        BY <4>1, <3>2, <3>3
      <4> QED BY <4>1, <4>2, <3>2, <2>4
    <3> QED BY <3>3, <3>4, <3>5
  <2>5. ch[g].closedIn # "SUCCEEDED" /\ ch[g].closedIn \in {"NONE", "SUCCEEDED"}
    BY <2>1, <2>4 DEF EndsOK
  <2> QED BY <2>2, <2>5
<1> QED BY <1>1, ManagerIndInvariant, PTL
=============================================================================
