-------------------------------- MODULE Proxy --------------------------------
(***************************************************************************)
(* The proxy with its sessions: the server of module ProxyServer, in which *)
(* the thread of one peer runs the session of module ProxySession, with a  *)
(* client of its own, while the sessions of the others just last.  The two *)
(* meet in pf_server_handle_peer: the session begins when the thread is    *)
(* resumed, its loop watches the server's stopEvent, the peer leaves the   *)
(* list when the client has been joined, and only then frees what the two  *)
(* threads shared.                                                         *)
(***************************************************************************)
EXTENDS ProxyServer, Sequences

CONSTANTS
    One,           \* the peer whose session is told in full
    MaxData,       \* bounds of ProxySession
    MaxReconnects,
    MaxEvents      \* bound: data, reconnects and (twofold) other peers together

ASSUME ProxyAssumption == One \in Peers /\ MaxEvents \in Nat

VARIABLES
    front, round, thread, freed, back, phase, abortEvent, libAbort, lastError,
    mcs, fallback, allowFail, connected, reconnects, queue, qEvent, received,
    unmapped, forwarded, lost

Session == INSTANCE ProxySession

ASSUME ProxySessionAssumption == Session!SessionAssumption

sessionVars ==
    <<front, round, thread, freed, back, phase, abortEvent, libAbort, lastError,
      mcs, fallback, allowFail, connected, reconnects, queue, qEvent, received,
      unmapped, forwarded, lost>>
proxyVars == <<vars, sessionVars>>

ProxyInit == Init /\ Session!Init

Others == Peers \ {One}
Events == Len(received) + reconnects + 2 * Cardinality({p \in Others : pc[p] # "away"})

-----------------------------------------------------------------------------
\* The thread of peer One is in its session: that moves, and the client's.
FrontMoves == pc[One] = "session" /\ front # "free" /\ Session!FrontStep /\ UNCHANGED vars
BackMoves == Session!BackStep /\ UNCHANGED vars
SessionEvent ==
    /\ pc[One] = "session"
    /\ Session!ReceiveChannelData \/ Session!PeerLeaves
    /\ UNCHANGED vars
TargetEvent == (Session!TargetLost \/ Session!Redirect) /\ UNCHANGED vars

\* "Server shutting down, terminating peer".
SeesStop == stop /\ pc[One] = "session" /\ Session!PeerLeaves /\ UNCHANGED vars

\* The client has been joined: the peer leaves the list, then all is freed.
LeaveSession == front = "free" /\ SessionOver(One) /\ UNCHANGED sessionVars
FreeSession == pc[One] = "gone" /\ Session!Free /\ UNCHANGED vars

ServerMoves ==
    /\ \/ MainStep \/ Stop \/ Sleep
       \/ \E p \in Peers : StartPeer(p) \/ Removal(p)
       \/ \E p \in Others : SessionOver(p)
    /\ UNCHANGED sessionVars
ProxyDone == main = "freed" /\ UNCHANGED proxyVars

ProxyNext ==
    /\ \/ FrontMoves \/ BackMoves \/ SessionEvent \/ TargetEvent \/ SeesStop
       \/ LeaveSession \/ FreeSession \/ ServerMoves \/ ProxyDone
    /\ Events' <= MaxEvents

\* Every thread that can go on does: that of One and its client's, the main
\* thread, and those of the other peers, whose sessions end when the server
\* stops.  That the session of One does, too, follows.
ThreadOfOne ==
    \/ FrontMoves \/ SeesStop \/ LeaveSession \/ FreeSession
    \/ (Removal(One) /\ UNCHANGED sessionVars)
ThreadOf(p) == ((stop /\ SessionOver(p)) \/ Removal(p)) /\ UNCHANGED sessionVars
ProxySpec ==
    /\ ProxyInit /\ [][ProxyNext]_proxyVars
    /\ WF_proxyVars(ThreadOfOne)
    /\ WF_proxyVars(BackMoves /\ Events' <= MaxEvents)
    /\ WF_proxyVars(MainStep /\ UNCHANGED sessionVars)
    /\ \A p \in Others : WF_proxyVars(ThreadOf(p))

-----------------------------------------------------------------------------
(***************************************************************************)
(* Properties of the session, in the server.                               *)
(***************************************************************************)

\* The peer's channel data reaches the target in the order it came, each
\* message once; of a channel that the target has none is lost but those
\* SendChannelPacket failed for.
ForwardedInOrder == Session!ForwardedInOrder

\* "Only close the connection if NLA fallback process is done": the failure
\* of a connect that is to be retried has not ended the peer's session.
FallbackKeepsPeer == Session!FallbackKeepsPeer

\* Channel data of the peer is forwarded, unless the session ends: the event
\* of the queue does not let the loop of pf_client_thread_proc sleep over it.
DataIsForwarded == Session!DataIsForwarded

-----------------------------------------------------------------------------
(***************************************************************************)
(* Properties of both.                                                     *)
(***************************************************************************)

\* The client's thread works on proxyData and on the server's configuration
\* and modules: proxy_data_free, and pf_server_free unless ArrayList_Append
\* has raced with a removal, come after it has ended.
FreedAfterClient ==
    (freed \/ (main = "freed" /\ ~races)) => back \in {"none", "done"}

\* The session of One runs in its thread: it begins when that is resumed,
\* and the peer leaves the list after the client was joined.
SessionInThread ==
    /\ pc[One] \in {"away", "suspended", "refused"} => front = "connect"
    /\ pc[One] \in {"lock", "gone"} \cup Removing => front \in {"free", "done"}

\* Types of the server and of the session, and nothing is freed under a
\* thread that uses it: not the server under a session, nor what the two
\* threads of a session share under the client's.  It rests on what the list
\* of peers holds and on how each thread knows of the other's end.
ProxyInv ==
    ServerInv /\ Session!SessionInv /\ SessionInThread /\ FreedAfterClient

\* An end at the back reaches the front, and the other way: the client is
\* joined, the peer gets out of the server's list, and all is freed; and a
\* server that is told to stop (pf_server_stop) sees the end of its peers.
EndsAreComplete == Session!SessionEnds /\ StopEnds
=============================================================================
