------------------------------ MODULE Streams -------------------------------
(***************************************************************************)
(* Streams of messages between two sides of a protocol, as the inductive   *)
(* invariants of the connection sequence and of the channels use them.     *)
(***************************************************************************)
EXTENDS Naturals, Sequences, TLAPS

\* A stream of messages that leads from one place of a protocol to another:
\* every message of q takes the protocol from the place before it to the place
\* after it, as the steps in T allow.
Linked(S, T, a, q, c) ==
    \E p \in [1 .. Len(q) + 1 -> S] :
        /\ p[1] = a /\ p[Len(q) + 1] = c
        /\ \A i \in 1 .. Len(q) : <<p[i], q[i], p[i + 1]>> \in T

(* The empty stream leads from a place to itself only.                     *)
LEMMA LinkedEmpty ==
    ASSUME NEW S, NEW T, NEW a \in S, NEW c
    PROVE  Linked(S, T, a, <<>>, c) <=> a = c
<1>1. ASSUME Linked(S, T, a, <<>>, c) PROVE a = c
  BY <1>1 DEF Linked
<1>2. ASSUME a = c PROVE Linked(S, T, a, <<>>, c)
  <2> DEFINE p == [i \in 1 .. 1 |-> a]
  <2>1. p \in [1 .. Len(<<>>) + 1 -> S] /\ p[1] = a /\ p[Len(<<>>) + 1] = c
    BY <1>2
  <2>2. \A i \in 1 .. Len(<<>>) : <<p[i], <<>>[i], p[i + 1]>> \in T
    OBVIOUS
  <2> QED BY <2>1, <2>2 DEF Linked
<1> QED BY <1>1, <1>2

(* Taking the first message of a stream moves the place before it.         *)
LEMMA LinkedTake ==
    ASSUME NEW S, NEW T, NEW a, NEW c, NEW M, NEW q \in Seq(M), q # <<>>,
           Linked(S, T, a, q, c)
    PROVE  \E b \in S : <<a, Head(q), b>> \in T /\ Linked(S, T, b, Tail(q), c)
<1>1. PICK p \in [1 .. Len(q) + 1 -> S] :
        /\ p[1] = a /\ p[Len(q) + 1] = c
        /\ \A i \in 1 .. Len(q) : <<p[i], q[i], p[i + 1]>> \in T
  BY DEF Linked
<1>2. Len(q) \in Nat \ {0} /\ Len(Tail(q)) = Len(q) - 1 /\ Head(q) = q[1]
  OBVIOUS
<1>3. \A i \in 1 .. Len(Tail(q)) : Tail(q)[i] = q[i + 1]
  BY <1>2
<1> DEFINE r == [i \in 1 .. Len(Tail(q)) + 1 |-> p[i + 1]]
<1>4. r \in [1 .. Len(Tail(q)) + 1 -> S] /\ r[1] = p[2] /\ r[Len(Tail(q)) + 1] = c
  BY <1>1, <1>2
<1>5. \A i \in 1 .. Len(Tail(q)) : <<r[i], Tail(q)[i], r[i + 1]>> \in T
  <2> SUFFICES ASSUME NEW i \in 1 .. Len(Tail(q)) PROVE <<r[i], Tail(q)[i], r[i + 1]>> \in T
    OBVIOUS
  <2>1. r[i] = p[i + 1] /\ r[i + 1] = p[(i + 1) + 1] /\ i + 1 \in 1 .. Len(q)
    BY <1>2
  <2> QED BY <2>1, <1>1, <1>3
<1>6. Linked(S, T, p[2], Tail(q), c)
  BY <1>4, <1>5 DEF Linked
<1>7. p[2] \in S /\ <<a, Head(q), p[2]>> \in T
  BY <1>1, <1>2
<1> QED BY <1>6, <1>7

(* Sending one more message moves the place after it.                      *)
LEMMA LinkedAppend ==
    ASSUME NEW S, NEW T, NEW a, NEW b, NEW c \in S, NEW M, NEW q \in Seq(M), NEW m,
           Linked(S, T, a, q, b), <<b, m, c>> \in T
    PROVE  Linked(S, T, a, Append(q, m), c)
<1>1. PICK p \in [1 .. Len(q) + 1 -> S] :
        /\ p[1] = a /\ p[Len(q) + 1] = b
        /\ \A i \in 1 .. Len(q) : <<p[i], q[i], p[i + 1]>> \in T
  BY DEF Linked
<1> DEFINE w == Append(q, m)
<1>2. Len(q) \in Nat /\ Len(w) = Len(q) + 1 /\ w[Len(q) + 1] = m
        /\ \A i \in 1 .. Len(q) : w[i] = q[i]
  OBVIOUS
<1> DEFINE r == [i \in 1 .. Len(w) + 1 |-> IF i <= Len(q) + 1 THEN p[i] ELSE c]
<1> HIDE DEF w
<1>3. r \in [1 .. Len(w) + 1 -> S] /\ r[1] = a /\ r[Len(w) + 1] = c
  BY <1>1, <1>2
<1>4. \A i \in 1 .. Len(w) : <<r[i], w[i], r[i + 1]>> \in T
  <2> SUFFICES ASSUME NEW i \in 1 .. Len(w) PROVE <<r[i], w[i], r[i + 1]>> \in T
    OBVIOUS
  <2>1. CASE i <= Len(q)
    BY <2>1, <1>1, <1>2
  <2>2. CASE i = Len(q) + 1
    BY <2>2, <1>1, <1>2
  <2> QED BY <2>1, <2>2, <1>2
<1> QED BY <1>3, <1>4 DEF Linked, w

(* A protocol that allows more steps allows the same streams.              *)
LEMMA LinkedMore ==
    ASSUME NEW S, NEW T, NEW U, T \subseteq U, NEW a, NEW q, NEW c, Linked(S, T, a, q, c)
    PROVE  Linked(S, U, a, q, c)
BY DEF Linked
=============================================================================
