--------------------------- MODULE ShadowServer ---------------------------
(***************************************************************************)
(* The threads of the shadow server and what they share besides the        *)
(* frames: the list of clients, a message queue per client, and messages   *)
(* that go to several clients and are freed by whoever is finished last.   *)
(*                                                                         *)
(*   server thread     accepts clients; when told to stop it stops the     *)
(*                     subsystem, tells every client to quit and waits for *)
(*                     the list to empty (shadow_server.c)                 *)
(*   subsystem thread  publishes frames, sends pointer messages            *)
(*                     (X11/x11_shadow.c)                                  *)
(*   client threads    handle frames and drain their queues                *)
(*                     (shadow_client.c)                                   *)
(*                                                                         *)
(* The list is locked while messages are sent to its clients, so that no   *)
(* client can leave the list, and free its queue, in between. A queue is a *)
(* sequence here: MessageQueue shows that it may be.                       *)
(***************************************************************************)
EXTENDS ShadowMultiClientEvent, Sequences

CONSTANTS
    Msg,       \* the memory that messages are made of
    Kind,      \* the kinds of message that are broadcast
    None,      \* no message
    WMQ_QUIT,
    MaxClients \* server->maxClientsConnected, 0 if there is no limit

(* Of these kinds a client only handles the last one it has got. *)
Accumulated == {"position", "alpha", "volume"}

ASSUME ShadowServerAssumption ==
    /\ Kind \subseteq Accumulated \cup {"samples"}
    /\ None \notin Msg \cup Client \cup {WMQ_QUIT} /\ WMQ_QUIT \notin Msg
    /\ MaxClients \in Nat

VARIABLES
    thread,    \* where the server thread is
    deserted,  \* it could tell none of the clients there were to quit
    subsystem, \* "run", "grab" in a frame for one client, "rate" after it,
               \* "post" while it sends messages, "ended"
    first,     \* the client whose frame rate it takes
    job,       \* what it sends, and the clients it has still to send it to
    clients,   \* server->clients
    task,      \* where each client thread is, besides its frames
    queue,     \* client->MsgQueue
    closed,    \* the queue accepts nothing
    stored,    \* the messages a client has drained and not handled
    kind,      \* the kind of each message
    refs,      \* refCount of each message
    live       \* the message is allocated

msgVars == <<kind, refs, live>>
serverVars == <<thread, deserted, subsystem, first, job, clients, task, queue,
                closed, stored, msgVars>>
allVars == <<mceVars, serverVars>>

NoJob == [msg |-> None, rest |-> <<>>]

Elements(seq) == {seq[i] : i \in DOMAIN seq}

(* ArrayList_Remove: the first occurrence of c, if any, is found, and the  *)
(* items after it are moved down.                                          *)
Without(seq, c) ==
    IF c \notin Elements(seq) THEN seq
    ELSE LET k == CHOOSE i \in DOMAIN seq :
                     seq[i] = c /\ \A j \in DOMAIN seq : seq[j] = c => i <= j
         IN  [i \in 1..(Len(seq) - 1) |-> IF i < k THEN seq[i] ELSE seq[i + 1]]

-----------------------------------------------------------------------------

InitServer ==
    /\ Init
    /\ thread = "listen" /\ deserted = FALSE
    /\ subsystem = "run"
    /\ first = None
    /\ job = NoJob
    /\ clients = <<>>
    /\ task = [c \in Client |-> "none"]
    /\ queue = [c \in Client |-> <<>>]
    /\ closed = [c \in Client |-> FALSE]
    /\ stored = [c \in Client |-> {}]
    /\ kind = [m \in Msg |-> "position"]
    /\ refs = [m \in Msg |-> 0]
    /\ live = [m \in Msg |-> FALSE]

(* The lock of server->clients: held while messages are sent to all of     *)
(* them, and inside ArrayList_Remove.                                      *)
ListUnlocked == subsystem # "post" /\ \A c \in Client : task[c] # "removing"

-----------------------------------------------------------------------------
(* Messages.                                                               *)

(* A new message of kind k, with n references. *)
NewMessage(m, k, n) ==
    /\ ~live[m]
    /\ kind' = [kind EXCEPT ![m] = k]
    /\ refs' = [refs EXCEPT ![m] = n]
    /\ live' = [live EXCEPT ![m] = n > 0]

(* shadow_msg_out_release, for each message of a set. *)
Release(msgs) ==
    /\ refs' = [m \in Msg |-> IF m \in msgs THEN refs[m] - 1 ELSE refs[m]]
    /\ live' = [m \in Msg |-> live[m] /\ ~(m \in msgs /\ refs'[m] <= 0)]
    /\ UNCHANGED kind

(* shadow_client_subsystem_process_message sends what a message says to    *)
(* the client, if that is activated, and in any case releases the message. *)
ProcessMessages(msgs) == Release(msgs)

-----------------------------------------------------------------------------
(* The subsystem thread.                                                   *)

(* The subsystem thread goes on; nothing but its own state changes. *)
SubsystemBecomes(from, to) ==
    /\ subsystem = from
    /\ subsystem' = to
    /\ UNCHANGED <<thread, deserted, job, clients, task, queue, closed, stored,
                   msgVars>>

(* shadow_subsystem_frame_update, for a refresh request, *)
FrameUpdate ==
    /\ subsystem = "run"
    /\ PublishAndWait
    /\ UNCHANGED serverVars

(* or in x11_shadow_screen_grab, which does nothing without clients and    *)
(* notes whether there is only one.                                        *)
GrabUpdate ==
    /\ clients # <<>>
    /\ PublishAndWait
    /\ SubsystemBecomes("run", IF Len(clients) = 1 THEN "grab" ELSE "run")
    /\ UNCHANGED first

(* After the frame it looks for the first client, without the list's lock, *)
FindFirstClient ==
    /\ server = "idle"
    /\ SubsystemBecomes("grab", IF clients = <<>> THEN "run" ELSE "rate")
    /\ first' = IF clients = <<>> THEN None ELSE Head(clients)
    /\ UNCHANGED mceVars

(* and takes the frame rate from its encoder. *)
TakePreferredFps ==
    /\ SubsystemBecomes("rate", "run")
    /\ first' = None
    /\ UNCHANGED mceVars

FrameUpdateWaits ==
    /\ ServerWakes \/ ServerReturns
    /\ UNCHANGED serverVars

(* shadow_client_boardcast_msg, called for a new cursor                    *)
(* (x11_shadow_pointer_alpha_update): it takes a reference of its own,     *)
(* locks the list and goes through it.                                     *)
BroadcastMsg(m, k) ==
    /\ subsystem = "run" /\ server = "idle" /\ ListUnlocked
    /\ NewMessage(m, k, 1)
    /\ subsystem' = "post"
    /\ job' = [msg |-> m, rest |-> clients]
    /\ UNCHANGED <<mceVars, thread, deserted, first, clients, task, queue, closed,
                   stored>>

(* shadow_client_dispatch_msg adds a reference, which it takes back if the *)
(* message cannot be queued: the queue is closed, or cannot grow.          *)
DispatchMsg ==
    LET c == Head(job.rest) IN
    /\ job.msg # None /\ job.rest # <<>>
    /\ job' = [job EXCEPT !.rest = Tail(@)]
    /\ \/ /\ ~closed[c]
          /\ queue' = [queue EXCEPT ![c] = Append(@, job.msg)]
          /\ refs' = [refs EXCEPT ![job.msg] = @ + 1]
       \/ UNCHANGED <<queue, refs>>
    /\ UNCHANGED <<mceVars, thread, deserted, subsystem, first, clients, task,
                   closed, stored, kind, live>>

(* The list is unlocked, the function's reference released. *)
BroadcastEnds ==
    /\ job.msg # None /\ job.rest = <<>>
    /\ Release({job.msg})
    /\ subsystem' = "run"
    /\ job' = NoJob
    /\ UNCHANGED <<mceVars, thread, deserted, first, clients, task, queue, closed,
                   stored>>

(* x11_shadow_pointer_position_update: a message for each client, under    *)
(* the lock of the list.                                                   *)
PositionUpdate ==
    /\ subsystem = "run" /\ server = "idle" /\ ListUnlocked
    /\ clients # <<>>
    /\ subsystem' = "post"
    /\ job' = [msg |-> None, rest |-> clients]
    /\ UNCHANGED <<mceVars, thread, deserted, first, clients, task, queue, closed,
                   stored, msgVars>>

(* shadow_client_post_msg of a new message; one that cannot be queued is   *)
(* freed at once.                                                          *)
PostMsg(m) ==
    LET c == Head(job.rest) IN
    /\ subsystem = "post" /\ job.msg = None /\ job.rest # <<>>
    /\ job' = [job EXCEPT !.rest = Tail(@)]
    /\ \/ /\ ~closed[c]
          /\ queue' = [queue EXCEPT ![c] = Append(@, m)]
          /\ NewMessage(m, "position", 1)
       \/ /\ NewMessage(m, "position", 0)
          /\ UNCHANGED queue
    /\ UNCHANGED <<mceVars, thread, deserted, subsystem, first, clients, task,
                   closed, stored>>

(* The client that moved the mouse last is skipped. *)
SkipLastMouseClient ==
    /\ subsystem = "post" /\ job.msg = None /\ job.rest # <<>>
    /\ job' = [job EXCEPT !.rest = Tail(@)]
    /\ UNCHANGED <<mceVars, thread, deserted, subsystem, first, clients, task, queue,
                   closed, stored, msgVars>>

(* All clients have their message, or there is no memory for another. *)
PositionUpdateEnds ==
    /\ subsystem = "post" /\ job.msg = None
    /\ job.rest = <<>> \/ \A m \in Msg : live[m]
    /\ subsystem' = "run"
    /\ job' = NoJob
    /\ UNCHANGED <<mceVars, thread, deserted, first, clients, task, queue, closed,
                   stored, msgVars>>

(* The thread finds the quit message of x11_shadow_subsystem_stop. *)
SubsystemEnds ==
    /\ thread = "join"
    /\ subsystem = "run" /\ server = "idle"
    /\ subsystem' = "ended"
    /\ UNCHANGED <<mceVars, thread, deserted, first, job, clients, task, queue,
                   closed, stored, msgVars>>

-----------------------------------------------------------------------------
(* The client threads.                                                     *)

(* shadow_server_check_peer_restrictions and shadow_client_accepted, in    *)
(* the server thread: the client is in the list before its thread runs.    *)
Accepted(c) ==
    /\ thread = "listen" /\ ListUnlocked
    /\ task[c] = "none"
    /\ MaxClients > 0 => Len(clients) < MaxClients
    /\ clients' = Append(clients, c)
    /\ task' = [task EXCEPT ![c] = "init"]
    /\ queue' = [queue EXCEPT ![c] = <<>>]
    /\ closed' = [closed EXCEPT ![c] = FALSE]
    /\ stored' = [stored EXCEPT ![c] = {}]
    /\ UNCHANGED <<mceVars, thread, deserted, subsystem, first, job, msgVars>>

(* The thread of c goes on; nothing but its task changes. *)
Becomes(c, t) ==
    /\ task' = [task EXCEPT ![c] = t]
    /\ UNCHANGED <<thread, deserted, subsystem, first, job, clients, queue, closed,
                   stored, msgVars>>

(* The thread starts: it subscribes to the frames. If peer->Initialize     *)
(* fails, or no thread can be created, the context is freed again.         *)
Subscribe(c) ==
    /\ task[c] = "init"
    /\ GetSubscriber(c)
    /\ Becomes(c, "serve")

StartFails(c) ==
    /\ task[c] = "init"
    /\ Becomes(c, "leave")
    /\ UNCHANGED mceVars

(* A frame. *)
HandleFrame(c) ==
    /\ task[c] = "serve"
    /\ StartFrame(c) \/ ConsumeFrame(c) \/ LeaveBarrier(c) \/ ResumeConsume(c)
    /\ UNCHANGED serverVars

(* The event of the queue is set: "Drain messages. Pointer update could be *)
(* accumulated."                                                           *)
BeginDrain(c) ==
    /\ task[c] = "serve" /\ client[c] = "loop"
    /\ queue[c] # <<>>
    /\ Becomes(c, "drain")
    /\ UNCHANGED mceVars

(* Mutant of DrainMessage: the previous message is forgotten. *)
DrainMessageLeaking(c) ==
    LET m == Head(queue[c])
        previous == {s \in stored[c] : kind[s] = kind[m]}
    IN
    /\ task[c] = "drain"
    /\ queue[c] # <<>> /\ m # WMQ_QUIT
    /\ queue' = [queue EXCEPT ![c] = Tail(@)]
    /\ stored' = [stored EXCEPT ![c] =
                     IF kind[m] \in Accumulated THEN (@ \ previous) \cup {m} ELSE @]
    /\ Release(IF kind[m] \in Accumulated THEN {} ELSE {m})
    /\ UNCHANGED <<mceVars, thread, deserted, subsystem, first, job, clients, task,
                   closed>>

(* A message is removed from the queue. One that is accumulated takes the  *)
(* place of the previous one of its kind, any other is handled.            *)
DrainMessage(c) ==
    LET m == Head(queue[c])
        previous == {s \in stored[c] : kind[s] = kind[m]}
    IN
    /\ task[c] = "drain"
    /\ queue[c] # <<>> /\ m # WMQ_QUIT
    /\ queue' = [queue EXCEPT ![c] = Tail(@)]
    /\ stored' = [stored EXCEPT ![c] =
                     IF kind[m] \in Accumulated THEN (@ \ previous) \cup {m} ELSE @]
    /\ IF kind[m] \in Accumulated THEN Release(previous) ELSE ProcessMessages({m})
    /\ UNCHANGED <<mceVars, thread, deserted, subsystem, first, job, clients, task,
                   closed>>

(* A quit message ends the thread. *)
DrainQuit(c) ==
    /\ task[c] = "drain"
    /\ queue[c] # <<>> /\ Head(queue[c]) = WMQ_QUIT
    /\ queue' = [queue EXCEPT ![c] = Tail(@)]
    /\ stored' = [stored EXCEPT ![c] = {}]
    /\ Release(stored[c])
    /\ task' = [task EXCEPT ![c] = "quit"]
    /\ UNCHANGED <<mceVars, thread, deserted, subsystem, first, job, clients, closed>>

(* The queue is empty: the accumulated messages are handled and released. *)
EndDrain(c) ==
    /\ task[c] = "drain"
    /\ queue[c] = <<>>
    /\ stored' = [stored EXCEPT ![c] = {}]
    /\ ProcessMessages(stored[c])
    /\ task' = [task EXCEPT ![c] = "serve"]
    /\ UNCHANGED <<mceVars, thread, deserted, subsystem, first, job, clients, queue,
                   closed>>

(* The thread leaves its loop, after a quit message or because anything it *)
(* does fails, and stops taking part in the frames.                        *)
LeaveLoop(c) ==
    /\ task[c] \in {"serve", "quit"}
    /\ ReleaseSubscriber(c)
    /\ Becomes(c, "leave")

(* Mutant of RemoveClient: the list is not locked. *)
RemoveClientUnlocked(c) ==
    /\ task[c] = "leave"
    /\ clients' = Without(clients, c)
    /\ task' = [task EXCEPT ![c] = "removing"]
    /\ UNCHANGED <<mceVars, thread, deserted, subsystem, first, job, queue, closed,
                   stored, msgVars>>

(* Mutant of RemoveClient: the client stays in the list. *)
RemoveClientNot(c) ==
    /\ task[c] = "leave"
    /\ ListUnlocked
    /\ Becomes(c, "removing")
    /\ UNCHANGED mceVars

(* shadow_client_context_free leaves the list. ArrayList_Count, which the  *)
(* server thread calls, sees the new size before ArrayList_Remove unlocks. *)
RemoveClient(c) ==
    /\ task[c] = "leave"
    /\ ListUnlocked
    /\ clients' = Without(clients, c)
    /\ task' = [task EXCEPT ![c] = "removing"]
    /\ UNCHANGED <<mceVars, thread, deserted, subsystem, first, job, queue, closed,
                   stored, msgVars>>

UnlockList(c) ==
    /\ task[c] = "removing"
    /\ Becomes(c, "removed")
    /\ UNCHANGED mceVars

(* Then it frees the encoder, and the queue with the messages left in it. *)
FreeQueue(c) ==
    /\ task[c] = "removed"
    /\ Release(Elements(queue[c]) \ {WMQ_QUIT})
    /\ queue' = [queue EXCEPT ![c] = <<>>]
    /\ closed' = [closed EXCEPT ![c] = FALSE]
    /\ task' = [task EXCEPT ![c] = "none"]
    /\ UNCHANGED <<mceVars, thread, deserted, subsystem, first, job, clients, stored>>

-----------------------------------------------------------------------------
(* The server thread, once StopEvent is set.                               *)

(* Only the server thread itself changes. *)
ServerThread(from, to) ==
    /\ thread = from
    /\ thread' = to
    /\ UNCHANGED <<mceVars, deserted, subsystem, first, job, clients, task, queue, closed, stored,
                   msgVars>>

(* It closes the listener, posts a quit message to the subsystem thread    *)
(* and waits for its end.                                                  *)
StopListening == ServerThread("listen", "join")

(* shadow_client_boardcast_quit counts the clients it has reached: a queue *)
(* that cannot grow takes no quit message either. If the count is not zero *)
(* the thread waits for the list to empty.                                 *)
BroadcastQuit ==
    /\ thread = "join" /\ subsystem = "ended" /\ ListUnlocked
    /\ \E reached \in SUBSET {c \in Elements(clients) : ~closed[c]} :
        /\ queue' = [c \in Client |-> IF c \in reached
                                      THEN Append(queue[c], WMQ_QUIT) ELSE queue[c]]
        /\ closed' = [c \in Client |-> closed[c] \/ c \in reached]
        /\ thread' = IF reached # {} THEN "wait" ELSE "exited"
        /\ deserted' = (reached = {} /\ clients # <<>>)
    /\ UNCHANGED <<mceVars, subsystem, first, job, clients, task, stored, msgVars>>

ClientsGone ==
    /\ clients = <<>>
    /\ ServerThread("wait", "exited")

(* shadow_server_stop has joined the thread; shadow_server_uninit frees    *)
(* the subsystem, its pipe and event, and last the list, which             *)
(* ArrayList_Free locks once more to clear it.                             *)
Uninit ==
    /\ ListUnlocked
    /\ ServerThread("exited", "uninit")

-----------------------------------------------------------------------------

SubsystemThread ==
    \/ FrameUpdate \/ GrabUpdate
    \/ FrameUpdateWaits
    \/ FindFirstClient \/ TakePreferredFps
    \/ \E m \in Msg, k \in Kind : BroadcastMsg(m, k)
    \/ DispatchMsg
    \/ BroadcastEnds
    \/ PositionUpdate
    \/ \E m \in Msg : PostMsg(m)
    \/ SkipLastMouseClient
    \/ PositionUpdateEnds
    \/ SubsystemEnds

ClientThread(c) ==
    \/ Subscribe(c) \/ StartFails(c)
    \/ HandleFrame(c)
    \/ BeginDrain(c) \/ DrainMessage(c) \/ DrainQuit(c) \/ EndDrain(c)
    \/ LeaveLoop(c) \/ RemoveClient(c) \/ UnlockList(c) \/ FreeQueue(c)

NextServer ==
    \/ SubsystemThread
    \/ \E c \in Client : Accepted(c) \/ ClientThread(c)
    \/ StopListening \/ BroadcastQuit \/ ClientsGone \/ Uninit

ServerSpec == InitServer /\ [][NextServer]_allVars

(* Every thread that can go on does. The subsystem thread looks for a      *)
(* message in every turn of its loop, so that frames and pointers cannot   *)
(* keep it from ending (strong fairness). A client thread is not forced to *)
(* leave its loop, unless it was told to quit, and nothing forces a stop.  *)
ServerFairness ==
    /\ WF_allVars(FrameUpdateWaits)
    /\ WF_allVars(FindFirstClient \/ TakePreferredFps)
    /\ WF_allVars(DispatchMsg \/ BroadcastEnds)
    /\ WF_allVars((\E m \in Msg : PostMsg(m)) \/ SkipLastMouseClient \/ PositionUpdateEnds)
    /\ SF_allVars(SubsystemEnds)
    /\ \A c \in Client :
        /\ WF_allVars(Subscribe(c) \/ StartFails(c))
        /\ WF_allVars(HandleFrame(c))
        /\ WF_allVars(BeginDrain(c) \/ DrainMessage(c) \/ DrainQuit(c) \/ EndDrain(c))
        /\ WF_allVars(task[c] = "quit" /\ LeaveLoop(c))
        /\ SF_allVars(RemoveClient(c)) /\ WF_allVars(UnlockList(c))
        /\ WF_allVars(FreeQueue(c))
    /\ SF_allVars(BroadcastQuit) /\ WF_allVars(ClientsGone)

FairServerSpec == ServerSpec /\ ServerFairness

-----------------------------------------------------------------------------
(* Properties.                                                             *)

PlacesOK ==
    /\ thread \in {"listen", "join", "wait", "exited", "uninit"} /\ deserted \in BOOLEAN
    /\ subsystem \in {"run", "grab", "rate", "post", "ended"}
    /\ first \in Client \cup {None} /\ (first # None <=> subsystem = "rate")
    /\ task \in [Client -> {"none", "init", "serve", "drain", "quit", "leave", "removing",
                            "removed"}]

SequencesOK ==
    /\ job \in [msg : Msg \cup {None}, rest : Seq(Client)]
    /\ clients \in Seq(Client)
    /\ queue \in [Client -> Seq(Msg \cup {WMQ_QUIT})]
    /\ stored \in [Client -> SUBSET Msg]

(* No reference count goes below zero. *)
MessagesOK ==
    /\ closed \in [Client -> BOOLEAN]
    /\ kind \in [Msg -> Accumulated \cup {"samples"}]
    /\ refs \in [Msg -> Nat]
    /\ live \in [Msg -> BOOLEAN]

ServerTypeOK == TypeOK /\ PlacesOK /\ SequencesOK /\ MessagesOK

(* Who refers to a message: clients that have it in their queue, clients   *)
(* that have drained it, and the function that broadcasts it.              *)
Queued(m) == {c \in Client : m \in Elements(queue[c])}
Drained(m) == {c \in Client : m \in stored[c]}

(* Every reference of shadow_msg_out_addref and _release is accounted for: *)
(* a message lives exactly as long as anyone refers to it, so that it is   *)
(* neither used after it was freed, nor freed twice, nor lost, whatever    *)
(* order the threads drain, abandon, fail and leave in.                    *)
RefsCounted ==
    \A m \in Msg :
        /\ refs[m] = Cardinality(Queued(m)) + Cardinality(Drained(m))
                     + (IF job.msg = m THEN 1 ELSE 0)
        /\ live[m] <=> refs[m] > 0

(* Between two posts under the list's lock no client frees its queue.      *)
QueuesOutlivePosts ==
    subsystem = "post" =>
        \A c \in Elements(job.rest) : task[c] \notin {"none", "removed"}

(* Nothing is freed that a thread still uses: when the server thread ends  *)
(* the subsystem thread has ended and no client is in the list, subscribes *)
(* or posts; and when shadow_server_uninit has freed the list no client is *)
(* still inside ArrayList_Remove, though the list was taken for empty      *)
(* before that client had left it. The exception are clients of which none *)
(* could be told to quit, because not one of their queues could grow.      *)
ServerOutlivesClients ==
    /\ thread \in {"exited", "uninit"} => subsystem = "ended" /\ server = "idle"
    /\ thread \in {"exited", "uninit"} /\ ~deserted =>
        /\ clients = <<>> /\ subscribers = {}
        /\ \A c \in Client : task[c] \in {"none", "removing", "removed"}
    /\ thread = "uninit" /\ ~deserted => \A c \in Client : task[c] # "removing"

(* The list is the list of the clients whose thread has not left it, each  *)
(* of them once.                                                           *)
NoRepeats(seq, S) ==
    \A i, j \in DOMAIN seq : seq[i] \in S /\ seq[i] = seq[j] => i = j

ListOK ==
    /\ NoRepeats(clients, Client)
    /\ Elements(clients) =
           {c \in Client : task[c] \in {"init", "serve", "drain", "quit", "leave"}}

(* What is sent goes to clients of the list, to each of them once.         *)
JobOK ==
    /\ subsystem # "post" => job = NoJob
    /\ NoRepeats(job.rest, Client)
    /\ Elements(job.rest) \subseteq Elements(clients)
    /\ \A c \in Elements(job.rest) : job.msg \notin Elements(queue[c]) \cup stored[c]

(* No client has a message twice, only a thread that drains its queue has  *)
(* drained messages, and a queue that is not used is empty.                *)
QueuesOK ==
    \A c \in Client :
        /\ NoRepeats(queue[c], Msg)
        /\ Elements(queue[c]) \cap stored[c] = {}
        /\ task[c] # "drain" => stored[c] = {}
        /\ task[c] = "none" => queue[c] = <<>>

(* Who takes part in the frames serves a client; outside its frames the    *)
(* subsystem thread is not in publish_and_wait; the server thread goes on  *)
(* only after the subsystem thread has ended, and closes the queues then.  *)
ThreadsOK ==
    /\ \A c \in Client : client[c] # "out" => task[c] \in {"serve", "drain", "quit"}
    /\ subsystem \in {"rate", "post", "ended"} => server = "idle"
    /\ thread \in {"wait", "exited", "uninit"} => subsystem = "ended"
    /\ thread \in {"listen", "join"} => \A c \in Client : ~closed[c]

(* "Return preferred fps calculated according to the last sent frame id    *)
(* and last client-acknowledged frame id" (shadow_encoder.c): the encoder  *)
(* that x11_shadow_screen_grab asks has not been freed.                    *)
EncoderIsLive == subsystem = "rate" => task[first] # "none"

(* The clients in the list that shadow_client_boardcast_quit did not reach.*)
Untold == {c \in Elements(clients) : thread = "wait" /\ ~closed[c]}

(* The server thread ends once it is told to, whatever frames, broadcasts  *)
(* and drains are under way: nobody waits on anybody for ever, unless on a *)
(* client that could not be told to quit and is still being served.        *)
ShutdownCompletes ==
    thread \in {"join", "wait"} /\ Untold = {} ~> thread = "exited" \/ Untold # {}

(* Types, and nothing that a thread of the server still uses has been freed:*)
(* no queue under a post, no list and no lock under a client that leaves.  *)
(* It rests on who is in the list and on who has which message.            *)
ServerInv ==
    /\ ServerTypeOK /\ QueuesOutlivePosts /\ ServerOutlivesClients
    /\ ListOK /\ JobOK /\ QueuesOK /\ ThreadsOK
=============================================================================
