---------------------------- MODULE MessageFifo ----------------------------
(***************************************************************************)
(* What a message queue promises: messages come out in the order in which  *)
(* they went in, each of them once, until a quit message closes the queue; *)
(* whoever waits for it is woken exactly when there is something to take.  *)
(***************************************************************************)
EXTENDS Sequences

CONSTANTS Message, Quit, Nothing, Reader

VARIABLES
    contents, \* the messages in the queue
    shut,     \* nothing is accepted any more
    ready,    \* the event that readers wait for is set
    got       \* what each reader took or saw last

fifoVars == <<contents, shut, ready, got>>

Init ==
    /\ contents = <<>>
    /\ shut = FALSE
    /\ ready = FALSE
    /\ got = [r \in Reader |-> Nothing]

Send(m) ==
    /\ ~shut
    /\ contents' = Append(contents, m)
    /\ shut' = (m = Quit)
    /\ ready' = TRUE
    /\ UNCHANGED got

Take(r) ==
    /\ contents # <<>>
    /\ got' = [got EXCEPT ![r] = Head(contents)]
    /\ contents' = Tail(contents)
    /\ ready' = (contents' # <<>>)
    /\ UNCHANGED shut

Look(r) ==
    /\ contents # <<>>
    /\ got' = [got EXCEPT ![r] = Head(contents)]
    /\ UNCHANGED <<contents, shut, ready>>

Miss(r) ==
    /\ contents = <<>>
    /\ got' = [got EXCEPT ![r] = Nothing]
    /\ UNCHANGED <<contents, shut, ready>>

(* The queue is emptied and opened again. *)
Clear ==
    /\ contents' = <<>>
    /\ shut' = FALSE
    /\ ready' = FALSE
    /\ UNCHANGED got

Next ==
    \/ \E m \in Message \cup {Quit} : Send(m)
    \/ \E r \in Reader : Take(r) \/ Look(r) \/ Miss(r)
    \/ Clear

Spec == Init /\ [][Next]_fifoVars
=============================================================================
