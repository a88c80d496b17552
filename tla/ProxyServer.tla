----------------------------- MODULE ProxyServer -----------------------------
(***************************************************************************)
(* The proxy server around its sessions (server/proxy/pf_server.c): the    *)
(* main thread, which accepts connections in pf_server_run and then takes  *)
(* the server down in pf_server_free, and one thread per peer, which runs  *)
(* a session (module ProxySession) and then removes itself from the list   *)
(* of peers.  That list was created unsynchronized: ArrayList_Append takes *)
(* no lock, the removal takes one by hand, and the array and its size are  *)
(* plain memory, read and written in separate steps.                       *)
(***************************************************************************)
EXTENDS Naturals, FiniteSets

CONSTANTS
    Peers,   \* the connections that may come
    Nobody   \* no peer

ASSUME ServerAssumption == IsFiniteSet(Peers) /\ Nobody \notin Peers

VARIABLES
    main,     \* where the main thread is
    new,      \* the peer it is accepting
    slot,     \* its index in ArrayList_Append
    array,    \* the items of peer_list
    size,     \* its size
    lock,     \* who holds its lock
    pc,       \* where each peer's thread is
    index,    \* the index of a removal, then the size it has read
    stop,     \* server->stopEvent
    races     \* connections may come while a session is being removed

list == <<array, size, lock>>
vars == <<main, new, slot, list, pc, index, stop, races>>

Slots == 0 .. Cardinality(Peers) - 1
Removing == {"find", "shift", "decrement", "unlock"}

Init ==
    /\ main = "run" /\ new = Nobody /\ slot = 0
    /\ array = [i \in Slots |-> Nobody] /\ size = 0 /\ lock = Nobody
    /\ pc = [p \in Peers |-> "away"] /\ index = [p \in Peers |-> 0]
    /\ stop = FALSE /\ races \in BOOLEAN

-----------------------------------------------------------------------------
(***************************************************************************)
(* The main thread.                                                        *)
(***************************************************************************)
MainGoes(from, to) == main = from /\ main' = to

\* pf_server_start_peer: a suspended thread, its handle appended to the
\* list, the thread resumed.  The loop has looked at stopEvent before it
\* takes connections, so that a server that stops may still take some.
\* ArrayList_Append raises the size and then sets the item, unless the size
\* is no longer above its index.
StartPeer(p) ==
    /\ MainGoes("run", "append")
    /\ pc[p] = "away" /\ pc' = [pc EXCEPT ![p] = "suspended"] /\ new' = p
    /\ races \/ \A q \in Peers : pc[q] \notin Removing
    /\ UNCHANGED <<slot, list, index, stop, races>>
AppendReads ==
    /\ MainGoes("append", "raise") /\ slot' = size
    /\ UNCHANGED <<new, list, pc, index, stop, races>>
AppendRaises ==
    /\ MainGoes("raise", "set") /\ size' = slot + 1
    /\ UNCHANGED <<new, slot, array, lock, pc, index, stop, races>>
AppendSets ==
    /\ slot < size /\ MainGoes("set", "run")
    /\ array' = [array EXCEPT ![slot] = new]
    /\ pc' = [pc EXCEPT ![new] = "session"] /\ new' = Nobody
    /\ UNCHANGED <<slot, size, lock, index, stop, races>>
AppendFails ==
    /\ slot >= size /\ MainGoes("set", "run")
    /\ pc' = [pc EXCEPT ![new] = "refused"] /\ new' = Nobody
    /\ UNCHANGED <<slot, list, index, stop, races>>

\* pf_server_stop, from the signal handler, and the loops that see it.
Stop ==
    /\ ~stop /\ stop' = TRUE
    /\ UNCHANGED <<main, new, slot, list, pc, index, races>>
RunEnds ==
    /\ stop /\ MainGoes("run", "wait")
    /\ UNCHANGED <<new, slot, list, pc, index, stop, races>>

\* pf_server_free: it sleeps until the list's size is 0, then frees the
\* list and the server.
Free ==
    /\ size = 0 /\ MainGoes("wait", "freed")
    /\ UNCHANGED <<new, slot, list, pc, index, stop, races>>

Sleep == main = "wait" /\ size > 0 /\ UNCHANGED vars

-----------------------------------------------------------------------------
(***************************************************************************)
(* The thread of peer p (pf_server_handle_peer).                           *)
(***************************************************************************)
PeerGoes(p, from, to) == pc[p] = from /\ pc' = [pc EXCEPT ![p] = to]

\* The session is over, of its own accord or because the server stops.
SessionOver(p) ==
    /\ PeerGoes(p, "session", "lock")
    /\ UNCHANGED <<main, new, slot, list, index, stop, races>>

\* The list is locked by hand: against the other peers, not against
\* ArrayList_Append and ArrayList_Count.
LockList(p) ==
    /\ PeerGoes(p, "lock", "find") /\ lock = Nobody /\ lock' = p
    /\ races \/ main \notin {"append", "raise", "set"}
    /\ UNCHANGED <<main, new, slot, array, size, index, stop, races>>

\* ArrayList_Remove: find the item, move the later ones down, lower the
\* size, which the build may read again; without the item there is nothing
\* to do.
Find(p) ==
    /\ \/ \E i \in Slots :
            /\ i < size /\ array[i] = p /\ \A j \in Slots : (j < i) => array[j] # p
            /\ PeerGoes(p, "find", "shift") /\ index' = [index EXCEPT ![p] = i]
       \/ /\ \A i \in Slots : (i < size) => array[i] # p
          /\ PeerGoes(p, "find", "unlock") /\ UNCHANGED index
    /\ UNCHANGED <<main, new, slot, list, stop, races>>
Shift(p) ==
    /\ PeerGoes(p, "shift", "decrement")
    /\ array' = [i \in Slots |-> IF index[p] <= i /\ i + 1 < size
                                 THEN array[i + 1] ELSE array[i]]
    /\ index' = [index EXCEPT ![p] = size]
    /\ UNCHANGED <<main, new, slot, size, lock, stop, races>>
ReadAgain(p) ==
    /\ pc[p] = "decrement" /\ index[p] # size
    /\ index' = [index EXCEPT ![p] = size]
    /\ UNCHANGED <<main, new, slot, list, pc, stop, races>>
Decrement(p) ==
    /\ PeerGoes(p, "decrement", "unlock") /\ size' = index[p] - 1
    /\ UNCHANGED <<main, new, slot, array, lock, index, stop, races>>

\* The size is read once more, the list unlocked, the peer freed.
UnlockList(p) ==
    /\ PeerGoes(p, "unlock", "gone") /\ lock' = Nobody
    /\ UNCHANGED <<main, new, slot, array, size, index, stop, races>>

-----------------------------------------------------------------------------
MainStep ==
    \/ AppendReads \/ AppendRaises \/ AppendSets \/ AppendFails
    \/ RunEnds \/ Free
Removal(p) ==
    \/ LockList(p) \/ Find(p) \/ Shift(p) \/ ReadAgain(p) \/ Decrement(p)
    \/ UnlockList(p)
Done == main = "freed" /\ UNCHANGED vars

Next ==
    \/ MainStep \/ Stop \/ Sleep \/ Done
    \/ \E p \in Peers : StartPeer(p) \/ SessionOver(p) \/ Removal(p)

Spec == Init /\ [][Next]_vars

\* A session of a stopping server ends (ProxySession!SessionEnds); a peer
\* that waits for the lock gets it in its turn.
FairSpec ==
    /\ Spec /\ WF_vars(MainStep)
    /\ \A p \in Peers : /\ WF_vars(stop /\ SessionOver(p))
                        /\ SF_vars(LockList(p)) /\ WF_vars(Removal(p))

-----------------------------------------------------------------------------
(***************************************************************************)
(* Properties.                                                             *)
(***************************************************************************)
Listed == {p \in Peers : pc[p] \in {"session", "lock", "find", "shift"}}
Busy(p) == pc[p] \in {"session", "lock"} \cup Removing

MainOK ==
    /\ main \in {"run", "append", "raise", "set", "wait", "freed"}
    /\ new \in Peers \cup {Nobody} /\ lock \in Peers \cup {Nobody}
    /\ slot \in 0 .. Cardinality(Peers) /\ size \in 0 .. Cardinality(Peers)
    /\ stop \in BOOLEAN /\ races \in BOOLEAN

PeersOK ==
    /\ pc \in [Peers -> {"away", "suspended", "refused", "session", "lock", "gone"}
                        \cup Removing]
    /\ array \in [Slots -> Peers \cup {Nobody}]
    /\ index \in [Peers -> 0 .. Cardinality(Peers)]

ServerTypeOK == MainOK /\ PeersOK

\* Whom the main thread accepts has no session yet; whoever removes himself
\* holds the lock; and connections come in the middle of a removal only if
\* there are races.
TurnsOK ==
    /\ (new # Nobody) <=> main \in {"append", "raise", "set"}
    /\ \A p \in Peers : (pc[p] = "suspended") <=> (new = p)
    /\ \A p \in Peers : (pc[p] \in Removing) <=> (lock = p)
    /\ (~races /\ main \in {"append", "raise", "set"}) => lock = Nobody

\* However the threads race, the list never gets longer than there were
\* connections, nor shorter than nothing.
Started == {p \in Peers : pc[p] # "away"}
SizeOK ==
    /\ size <= Cardinality(Started)
    /\ main \in {"append", "raise"} => size < Cardinality(Started)
    /\ main = "raise" => slot < Cardinality(Started)
    /\ \A p \in Peers :
           /\ pc[p] \in {"shift", "decrement"} => size > 0
           /\ pc[p] = "decrement" => index[p] \in 1 .. Cardinality(Started)

\* The first n items are the running peers, each once.
Holds(n) ==
    /\ n = Cardinality(Listed)
    /\ {array[i] : i \in 0 .. n - 1} = Listed
    /\ \A i, j \in 0 .. n - 1 : array[i] = array[j] => i = j

\* Unless a connection came in the middle of a removal, the list holds each
\* running peer once, and nothing else but the slot that is being filled or
\* was just emptied.
ListOK ==
    ~races =>
        /\ (main # "set" /\ \A p \in Peers : pc[p] # "decrement") => Holds(size)
        /\ main = "raise" => slot = size
        /\ main = "set" => Holds(slot) /\ size = slot + 1
        /\ \A p \in Peers :
               /\ pc[p] = "shift" => index[p] < size /\ array[index[p]] = p
               /\ pc[p] = "decrement" => Holds(size - 1) /\ index[p] = size

\* "pf_server_stop triggers the threads to shut down. loop here until all of
\* them stopped": pf_server_free frees nothing while a session is running,
\* unless ArrayList_Append has raced with a removal.
NoPeerForgotten ==
    (main = "freed" /\ ~races) => \A p \in Peers : pc[p] \notin {"session", "lock"}

ServerInv == ServerTypeOK /\ TurnsOK /\ SizeOK /\ ListOK /\ NoPeerForgotten

\* A server that is told to stop gets rid of its peers, however broken the
\* list is, and, if it is not, is freed.
StopEnds ==
    stop ~> ((\A p \in Peers : ~Busy(p)) /\ (~races => main = "freed"))
=============================================================================
