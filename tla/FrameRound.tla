---------------------------- MODULE FrameRound ----------------------------
(***************************************************************************)
(* What the multi-client event promises, without its events and counters:  *)
(* a server opens a round for the members of the moment, each of them      *)
(* takes its share once or leaves, whoever is early is held back until the *)
(* last share is taken, and the round closes only when nobody is held any  *)
(* more.                                                                   *)
(***************************************************************************)
CONSTANT Client

VARIABLES
    members, \* the clients that take part
    owing,   \* those that still have to take their share of this round
    held,    \* those held back until nobody owes anything
    open     \* a round is in progress

frVars == <<members, owing, held, open>>

Init == members = {} /\ owing = {} /\ held = {} /\ open = FALSE

(* The server opens a round; without members there is nothing to wait for. *)
Open ==
    /\ ~open
    /\ open' = (members # {})
    /\ owing' = members
    /\ UNCHANGED <<members, held>>

Close ==
    /\ open /\ owing = {} /\ held = {}
    /\ open' = FALSE
    /\ UNCHANGED <<members, owing, held>>

(* A client that joins during a round is held but owes nothing. *)
Join(c) ==
    /\ c \notin members
    /\ members' = members \cup {c}
    /\ held' = IF owing = {} THEN held ELSE held \cup {c}
    /\ UNCHANGED <<owing, open>>

(* c takes its share. The last one to do so is not held. *)
Take(c) ==
    /\ c \in owing
    /\ owing' = owing \ {c}
    /\ held' = IF owing' = {} THEN held ELSE held \cup {c}
    /\ UNCHANGED <<members, open>>

(* Nobody is let go before the last share is taken. *)
LetGo(c) ==
    /\ c \in held /\ owing = {}
    /\ held' = held \ {c}
    /\ UNCHANGED <<members, owing, open>>

(* c leaves, and its share with it. *)
Leave(c) ==
    /\ c \in members \ held
    /\ members' = members \ {c}
    /\ owing' = owing \ {c}
    /\ UNCHANGED <<held, open>>

Next ==
    \/ Open
    \/ Close
    \/ \E c \in Client : Join(c) \/ Take(c) \/ LetGo(c) \/ Leave(c)

Spec == Init /\ [][Next]_frVars
=============================================================================
