# TLA+ models of the servers and their foundations

The repository is FreeRDP: an RDP library (`libfreerdp`, `channels`), a portable
Windows API (`winpr`), clients, and servers. This project models the code in which
threads, callbacks and messages meet: the shadow server, which shares one screen
with many clients; the proxy server; the state machines of the core library that
both rest on (connection sequence, dynamic channels, timers); and the objects of
WinPR that everything synchronises with. The models are checked with TLC on small
instances. Every safety property that a passing run checks is also proved with TLAPS, for
every number of clients, threads, peers, channels or messages; liveness is
model-checked only.

Paths below are relative to `src/`.

## 1. The system

### Components, their state and their operations

| component | state | operations | interacts through |
|---|---|---|---|
| multi-client event, `server/shadow/shadow_mcevent.c` | three manual-reset events, two counters, the subscribers and their flags | publish_and_wait; get, consume, release subscriber | called by the subsystem thread and the client threads; one lock, given up around two waits |
| subsystem thread, `server/shadow/X11/x11_shadow.c` | surface (size, pixels, invalid region), cursor | grab, resize, refresh requests, pointer messages | publishes frames; reads `MsgPipe->In`; posts to the clients' queues |
| client thread, `server/shadow/shadow_client.c` | connection, activation, size, own invalid region, graphics pipeline, message queue | loop over frame event, RDP callbacks, channels, messages; leave | multi-client event; refresh requests to the subsystem; client list |
| server thread, `server/shadow/shadow_server.c` | listener, client list, stop event | accept, stop, uninit | joins the subsystem thread; quit messages to the clients; polls the list |
| encoder, `server/shadow/shadow_encoder.c` | frame ids, frame rate | create frame id, acknowledge, reset | client thread; the subsystem reads its rate |
| connection sequence, `libfreerdp/core/peer.c`, `connection.c`, `rdp.c` | state of each side, finalization flags, `activated` | transitions by PDU; deactivate, reactivate | two byte streams; calls PostConnect and Activate of the server, which may resize from there |
| virtual channel manager, `libfreerdp/core/server.c` | dynamic channels by id, drdynvc state, output queue | open, close, read, write | serving threads, the peer's thread, the drdynvc client |
| timers, `libfreerdp/core/timer.c` | list of timers, two events, a thread | add, remove, poll, free | users' threads, main loop, abort event |
| proxy, `server/proxy/pf_server.c`, `pf_client.c` | per session two connections, two abort events, a queue; the list of peers | connect, retry, reconnect, forward, abort; accept, stop | a thread per side; the stop event; an unsynchronized list |
| message queue, `winpr/.../MessageQueue.c` | ring buffer, event, closed flag | dispatch, post, get, peek, clear | lock; event waited for outside the lock |
| object queue, `winpr/.../Queue.c` | ring buffer, event | enqueue, dequeue, peek, discard, clear | lock |
| thread pool, `winpr/libwinpr/pool` | threads, pending queue, countdown of work | submit, wait, set minimum and maximum, close | the codecs; worker threads |
| critical section, barrier, one-time initialisation, `winpr/libwinpr/synch` | a few words each | enter, leave, try; enter, delete; execute once | everything |

`PROJECT.json` lists these and the parts that stay outside (codecs, channel PDUs,
clients, platform back ends, build files) with the reason for each.

### What is hard

* One lost wake-up in the multi-client event stops the whole server: the
  subsystem thread waits for all clients without a timeout, and the clients wait
  for each other, while threads join, fail and leave in the middle of a round.
* The client threads use the surface without copying it. That is sound only
  because the subsystem thread stays inside its wait.
* A picture is only sent when a frame is published. Damage of frames that are not
  sent (output suppressed, not activated, resized, pipeline not open) has to be
  remembered, and whatever makes output possible again has to ask for a frame.
* A message is shared by several queues and freed by the last one that is
  finished with it; posting can fail half-way.
* Client threads are detached. The server frees what they use on the strength of
  the client list being empty.
* A server may ask for a reactivation while the answers to the last one, or the
  first activation, are still on their way, and the client does not wait for it.
* Dynamic channels are opened and closed from both sides while data is under way,
  and their numbers tell late messages of one from those of another.
* A session of the proxy can be ended by the peer, the target, the server and a
  hook, in each of its phases, and the library resets the event that says so.
* The thread pool counts the work of all its callers with one event, before it is
  queued and after it is done.
* Queues grow while their entries wrap; the critical section and the barrier are
  made of words that are read and written without protection.

Each is a hazard in `PROJECT.json`, at the line where it bites and with the
properties that cover it.

## 2. Modules

| module | models | uses |
|---|---|---|
| `FrameRound` | abstract: what the multi-client event promises | |
| `ShadowMultiClientEvent` | `shadow_mcevent.c` and the places that call it | refines `FrameRound` |
| `ShadowFrameUpdate` | screen, damage, client regions, activation, resizing, graphics pipeline | extends `ShadowMultiClientEvent` |
| `ShadowServer` | client list, messages, drain, shutdown, the use of a client's encoder | extends `ShadowMultiClientEvent` |
| `ShadowEncoder` | frame ids, acknowledgements and the frame rate | |
| `PeerConnection` | connection sequence and reactivation, server and client | |
| `ChannelManager` | dynamic virtual channels, server and client | |
| `CoreTimer` | timers of a connection | |
| `ProxySession` | the two threads of a session | |
| `ProxyServer` | main thread, peers' threads, the list of peers | |
| `Proxy` | the server with one session told in full | extends `ProxyServer`, instantiates `ProxySession` |
| `MessageFifo` | abstract: a FIFO with a quit message | |
| `MessageQueue` | `MessageQueue.c` | refines `MessageFifo` |
| `ObjectQueue` | `Queue.c` | refines `MessageFifo` |
| `WorkBatches` | abstract: callbacks are over when the wait for them is | |
| `ThreadPool` | `pool.c`, `work.c`, `CountdownEvent.c` | refines `WorkBatches` |
| `RecursiveLock` | abstract: a lock that its holder may take again | |
| `CriticalSection` | `critical.c` | refines `RecursiveLock` |
| `SynchronizationBarrier` | `barrier.c` | |
| `InitOnce` | `init.c` | |
| `WinPRObjects` | the five objects of WinPR side by side | extends `MessageQueue` and `CriticalSection`, instantiates the other three |
| `ShadowMultiClientEventProofs` | proofs | extends `ShadowMultiClientEvent` |
| `ShadowProofs` | proofs about frame update, server and encoder | extends these and `ShadowMultiClientEventProofs` |
| `ThreadPoolProofs`, `ProxyProofs` | proofs | extend the module they are about |
| `WinPRProofs` | proofs | extends `WinPRObjects` |
| `Streams` | streams that lead from one place of a protocol to another, and lemmas about them | |
| `PeerInvariant` | the inductive invariant of the connection sequence | extends `PeerConnection`, `Streams` |
| `ChannelInvariant` | the inductive invariant of the channel manager | extends `ChannelManager`, `Streams` |
| `CoreProofs` | proofs about timers and connection sequence | extends `CoreTimer`, `PeerInvariant` |
| `ChannelProofs` | proofs | extends `ChannelInvariant` |
| `MC...` | instances for TLC | |

Operators called mutants, and those whose names say what they leave out
(`...Not`, `...Silently`, `...Unlocked`), are variants of the operator that follows,
with a plausible bug. No specification uses them; substituted for the original,
they show that a property notices.

How they compose: `ShadowFrameUpdate` and `ShadowServer` are the same threads as in
`ShadowMultiClientEvent`, seen with the picture and with the messages. `ShadowServer`
takes message queues for sequences, `ThreadPool` and `ProxySession` the object queue,
and all of them locks for atomic sections; `MessageQueue`, `ObjectQueue` and
`CriticalSection` are shown to be that. `ProxyServer` knows of a session that it ends
when the server stops, which `Proxy` replaces by `ProxySession` itself.

### ShadowMultiClientEvent

`event`, `barrierEvent`, `doneEvent`, `consuming`, `waiting` and `pleaseHandle` are
the fields of the C structures, `subscribers` is the list. `server` and
`client[c]` are program counters. Every function of the file holds `event->lock`
but for `WaitForSingleObject(doneEvent)` and `WaitForSingleObject(barrierEvent)`,
so a locked section is one action; each wait is split into the section before it
(`PublishAndWait`, `Consume`), the wait's return, which takes no lock
(`ServerWakes`, `LeaveBarrier`), and the section after it (`ServerReturns`,
`ResumeConsume`). `StartFrame` is the client loop's look at the event without the
lock. `ReleaseSubscriber` is possible in the loop and in the middle of a frame.

`FrameRound` says what this is for: `members`, `owing`, `held` and `open`. The
refinement maps `owing` to the clients that can still find the event set, `held`
to the threads at the barrier, `open` to "the server is inside publish_and_wait".

### ShadowFrameUpdate

The screen is a row of cells and a region a set of cells. Pixels are abstracted to
`stale`: for each client, the cells it does not show as the surface has them.
`damage` is the surface's invalid region, `peer[c].invalid` the client's. A grab
makes cells stale and damaged; sending makes the extents of a region not stale, or,
with the graphics pipeline, the whole surface; a resize makes everything stale.
`BeginFrame` takes the decision of `shadow_client_thread` (save, resize or send),
`FinishFrame` carries it out and consumes the frame, so that other threads run in
between. Callbacks of the RDP core (`Activate`, `SuppressOutput`, `AllowOutput`,
`RefreshRect`, `CapsAdvertise`) happen between frames, as `CheckFileDescriptor` runs
in the same thread. An activation that has to resize is two steps, as
`shadow_client_recalc_desktop_size` and `shadow_send_desktop_resize` each read the size
of the surface without a lock: `ActivateChecks` notes the width it found in `checked`,
`ActivateResizes` asks for the one there is by then. The client is taken to do as the
protocol says: it adopts the size it is told and reactivates with an empty picture.

`SubRect` is `server->subRect`; when it is the whole row, nothing is cut off.

### MessageQueue

The fields are those of `wMessageQueue`, with `array` a function on `0..capacity-1`.
Growth is the four lines of `MessageQueue_EnsureCapacity`: when the queue is one
short of full, doubling, and the copy of wrapped entries, recognised by
`tail <= head`. `MessageQueue_Get` is `GetWakes` and then `Get` or `GetFails`.
`DispatchRefused` covers the closed queue and a failing `realloc`.

### ShadowServer

The server thread (`thread`), the subsystem thread (`subsystem`, `job`), and the
client threads (`task`, on top of the positions in `ShadowMultiClientEvent`). The
lock of the client list is held while `subsystem = "post"`. `refs` is `refCount`,
`live` whether the message is allocated. Queues are sequences, which
`MessageQueue`'s refinement allows. The kinds "samples" and "volume" are part of
the exported interface, no caller in the tree posts them; they are broadcast like
the cursor so that all branches of the drain are covered. `BroadcastQuit` reaches any
subset of the open queues, as each of them may fail to grow; `deserted` says that there
were clients and none was reached, in which case the server thread does not wait. Frames are those of
`ShadowMultiClientEvent`; their content is left out here.

### ShadowEncoder

Frame ids are numbers modulo 2^`IdBits`, and `inflight` is their unsigned difference as
in the C code. Frames and acknowledgements are on their way in two queues while
`shadow_encoder_reset` starts again at 0. The client acknowledges a frame by its id, or
leaves it out as its settings have it (`rdpgfx_main.c`, `gdi.c`). `ackIsOld` and `since` are history variables for the properties.

### PeerConnection

Both ends are state machines over the states of `CONNECTION_STATE`, joined by two
FIFOs. The server's `peer_recv_callback_internal` runs again and again on one message
while the result is "try again"; an iteration is an action and `run` says whether the
message has been read. Three hosts differ in when they resize: the shadow server from
its loop and the Windows server inside PostConnect, both on the peer's own thread, so that
`rdp_server_reactivate` is one step; the proxy when its own client is connected or
resized, on that client's thread. There it is six steps (`Resizer...`): `activated` is
cleared, Deactivate All sent, the flag set, the state set, Demand Active sent, the state
set again, and the peer's thread runs in between; `resizer` says where it is. An iteration
of the peer's thread remains one step there, too: the model has some of the proxy's
interleavings, enough to break what the other hosts keep, and not all of them. Demands carry a number, which is not on the wire and says which demand an
answer belongs to.

### ChannelManager

A serving thread opens, reads, and closes; writers split messages into chunks; the
peer's thread looks a channel up (`LookUp`) and works on it in a later step, as the
table's lock is released in between. The client is that of `channels/drdynvc/client`.
A PDU names the channel's id and, for the properties, the handle it was meant for; a
message is a sequence of chunks that tell its channel, its number there and their place.
`CloseOn` says which thread frees a channel. Memory does not run out in this model: in
the code a PDU that cannot be allocated or queued in the middle of a message
(`server.c:1685-1691`, `1722`) leaves the client a message without its end, and the quit
message of a close response may be lost, as its result is ignored (`server.c:272`).

### CoreTimer

The list of timers, with the lock that is held during callbacks, the timer thread's
loop in its steps (run, recompute, sleep), the main loop's poll, abort, reconnect and
free. Time is abstracted: a timer that is on may expire at any moment; the thread
sleeps either until one does or, when it saw none, for ever. The code also sleeps for ever
when the next timer is 2^32 - 1 ms (49.7 days) away or more (`timer.c:224-226`): that
edge is left out, and `NoTimerForgotten` and `CalledBeforeAbort` do not hold at it.

### ThreadPool

`SubmitThreadpoolWork` counts (`AddCount`) and enqueues in two steps; a worker waits for
the queue's event or the terminate event, dequeues, runs the callback and signals the
countdown event in further steps. The owner replaces all workers when the number is
changed, and `CreateThread` may fail. `WorkBatches` is seen through the callbacks that
are counted, pending or running.

### ProxySession, ProxyServer, Proxy

`front` and `back` are the positions of the two threads, `phase` whether the client is
connecting. `abortEvent` belongs to the proxy, `libAbort` to the library, which resets
it when it connects. `sendQueuedChannelData`, called when the target is reached ("flush")
and by the client's loop ("send"), takes the messages from the queue one by one under the
queue's lock: each is forwarded, or fails and ends the call, or belongs to a channel that
the target does not have (`unmapped`) and is skipped. The list of peers is modelled in the steps of `ArrayList_Append`
and `ArrayList_Remove`, as `ArrayList_New(FALSE)` gives it no lock of its own, with the
second read of the size that a build may make before it lowers it (`ReadAgain`); `races`
says, for a whole behaviour, whether connections come during a removal. In `Proxy` the
session of peer `One` begins when its thread is resumed, sees the stop event in its
loop, leaves the list when its client is joined, and frees the shared data last.

### CriticalSection, SynchronizationBarrier, InitOnce, ObjectQueue

Every access to memory of the first three is a step, with the interlocked operations
and the operating system's semaphore and events as atomic ones. The barrier's threads
spin, block, or do one after the other. The object queue works under its lock.

## 3. Runs

| run | instance | shows |
|---|---|---|
| `frame_update` | 2 clients that support the pipeline, widths 1 and 2, 1 queued refresh request | no damage lost, frames fit, obedient clients refused by one race only, surface unchanged while a client works on it |
| `frame_update_live` | 1 client with or without the pipeline, widths 2 and 3, 2 queued refresh requests | every stale cell is sent, also where extents are larger than a region |
| `shadow_server` | 2 clients, 2 messages, 2 kinds | the event's inductive invariant and refinement of `FrameRound`; references counted, no queue freed during a post, nothing freed that is in use unless no client could be told to quit |
| `shadow_server_live` | 2 clients, 1 message, limit of 2 connections | rounds end, the barrier lets go, shutdown completes unless a client could not be told |
| `shadow_server_encoder` | 2 clients, 1 message | violation, see findings |
| `shadow_encoder` | ids of 7 bits, up to 5 frames between resets, 2 on their way | the rate in its range; the unsigned difference is the number of frames since the last acknowledged one |
| `peer_connection` | 3 hosts, 2 channels, 2 resizes, 1 input, 1 shutdown request, two of these behind a proxy | activation belongs to the latest demand, PostConnect once; but in the proxy, an honest client is not disconnected, no message is lost between states and the sequence settles |
| `channel_manager` | 1 serving thread, 2 writers, 2 openings, messages of 2 chunks, 2 messages | whole messages, in order, at their own channel; honest clients stay; no orphans; a close is noticed; writes arrive |
| `core_timer` | 2 threads, 2 timers, 1 abort | no wake-up lost, a removed timer is quiet, expired ones called, freeing returns |
| `proxy` | 2 peers, one session in full, 2 messages, 2 reconnects, 2 events in all | forwarding in order and at all; sessions and the server end; nothing freed in use |
| `thread_pool` | 2 callers, 3 workers, 2 callbacks each, 1 lost | the count is what is owed, refinement of `WorkBatches`, waits end |
| `winpr_objects` | 3 threads; rings from capacity 2 to 4 messages and 5 objects; 1 spin, depth 2; 3 rounds; 2 failures | refinement of two FIFOs and of `RecursiveLock`; barrier rounds kept apart with one winner; initialised once; waiters woken |

Invariants named `...Inv` are the types of a module, properties of the same state, and
what makes both inductive (section 4):

| invariant | properties | inductive parts |
|---|---|---|
| `FrameUpdateInv` | `SendFits` | `SessionsOK` |
| `ServerInv` | `QueuesOutlivePosts`, `ServerOutlivesClients` | `ListOK`, `JobOK`, `QueuesOK`, `ThreadsOK` |
| `EncoderInv` | `InflightIsCount` | `LinkIsCounted` |
| `PoolInv` | `CountOwed` | parts of the types |
| `TimerInv` | `NoTimerForgotten` | `ListOK`, `IdsOK`, `RemovedAreOff` |
| `ProxyInv` | `NoPeerForgotten`, `FreedAfterClient` | `TurnsOK`, `SizeOK`, `ListOK`, `ConnectedOK`, `JoinedOK`, `AbortOK`, `SessionInThread` |
| `SectionInv` | `MutualExclusion`, `CountsAreRight` | `PlacesOK`, `FieldsOK`, `TokenOK`, `LockCountOK` |
| `BarrierInv` | `NobodyPassesEarly`, `OneWinner` | `PlacesOK`, `EventsOK`, `CounterOK`, `WinnersOK` |
| `ObjectsInv` | `RingOK`, `InitialisedOnce` | `ProgressOK`; the rings' shape is inductive itself |
| `PeerInv` | `ActivatedIsCurrent`, `PostConnectOnce` | in `PeerInvariant` |
| `ManagerInv` | `HonestClientStays` | in `ChannelInvariant` |

Bounds and why they are enough:

* Clients. With two, one can be the last consumer while the other is at the barrier,
  has just joined or leaves; a client handles a frame another one asked for, and a
  message is in one queue, drained from another and still being broadcast. The
  multi-client event's safety is proved for any number.
* Screen. With one cell more than the smallest width there is a cell that appears
  and disappears when the screen is resized; with three cells, damage whose extents
  are larger than itself.
* `MaxRefresh` bounds the requests in `MsgPipe->In`. More requests only repeat a
  frame. A callback that would exceed the bound waits.
* `Msg` bounds the messages alive at a time; they are reused after being freed,
  which is where a stale reference would show.
* `IdBits` 7, `MaxFps` 32: the largest frame rate, 100 divided by the frames in flight,
  still has its three cases (raise, lower, clamp), and ids reach beyond the rate's
  range; wrapping shows in the difference after a reset.
* `MaxProxied` bounds the resizes, inputs and shutdown requests of a proxy's peer together:
  two are enough for a resize to meet itself, an input or a shutdown request, in all steps.
* Two resizes let the second overtake the answers to the first; two openings let a
  late message of the first channel meet the second one. Two chunks and two writers
  interleave; a third would repeat it.
* One abort and two timers: one timer expires while the other is removed or added; the
  thread meets the abort in each of its steps.
* Two peers are what a lost update of the list needs. `MaxEvents` bounds data,
  reconnects and, twofold, the second peer together: a session with two messages, one
  with a message and a reconnect, and one next to another peer are all there.
* Pools of one and of three workers, replaced at any time, run the callbacks of two
  callers in any mixture; one lost callback makes the count wrong for good.
* Message queue of 4, object queue of 5, from capacity 2: they grow, the latter twice,
  at every position of the head. The real capacity of 32 only makes the same cases
  longer to reach. Three rounds of the barrier use each of its two events again.
* The objects of WinPR share nothing; the initial state of `WinPRObjects` picks the one
  that is used. Their joint behaviours would show no more.

`CHECK_DEADLOCK FALSE` is said where the modelled life ends or waits for an outside
event that need not come: a server after uninit, an encoder whose client says
nothing, a connection that is closed or idle, a pool that is closed, freed timers.

### Fairness

* A thread that can run does run: weak fairness of the returns of waits and of the
  steps behind them, in every module. A thread that waits for a list's lock which
  others take and release gets it in its turn: strong fairness of the removal and of
  the quit broadcast in `ShadowServer`, and of the threads of `CoreTimer`.
* A client thread that finds the event set handles it: weak fairness of
  `StartFrame`, and of consuming or failing. It is not assumed that a client ever
  comes, leaves or sends anything, nor that the server publishes, except that
  queued refresh requests are handled and a resized screen is grabbed: the
  subsystem thread takes one message a turn and grabs when the frame time is over.
  Strong fairness is used there for that grab and for the end of the subsystem
  thread, as other work in the same loop disables them again and again without
  being able to keep the loop from reaching them.
* On shutdown the client threads drain and obey their quit message. A client that
  blocks for ever in a socket write is outside the model.
* `PeerConnection` and `ChannelManager`: each side reads what has arrived, and an honest
  client answers what the protocol has it answer. Neither resizing nor data nor
  closing is assumed.
* `Proxy`: a connect returns, in one way or another. That a peer's session ends is only
  assumed of peers whose session is not told, and only once the server stops.

### Finding

`shadow_server_encoder` is expected to find a violation: `x11_shadow_screen_grab` takes
the first client from the list without the list's lock, and asks its encoder for the
frame rate (`x11_shadow.c:919`) when nothing keeps that client from leaving and freeing
it (`shadow_client.c:232`). `EncoderIsLive` states that the encoder is there.

### Where the code does not do what it says

Met while modelling, and left out of the properties by a condition that each property
names, or reachable by other values of the constants:

* Shared rectangle (`SubRect` not the whole row). The client's size is compared with
  the rectangle, but the size asked for is the surface's (`shadow_client.c:474`): an
  obedient client is disconnected, and `RefusedOnlyByRace` fails. "No rectangle means
  full screen" marks columns from 0 on without the rectangle's offset
  (`shadow_client.c:372`), and `NoLostDamage` fails.
* Resize. shadow_client_activate reads the size of the surface once to compare it and once
  to ask for it, without a lock (`shadow_client.c:408`, `474`). If the screen was resized
  and is resized back between the two, a client that has done as it was told is
  disconnected with "detected previous resize request" (`shadow_client.c:482`); with
  `~ResizeRefused` in the place of the race, `RefusedOnlyByRace` fails.
* Shutdown. "Signal to the clients that server is being stopped and wait for them to
  disconnect" (`shadow_server.c:663`): a client whose queue cannot grow gets no signal.
  Where others did, the server thread polls the list until that client leaves of itself
  (`Untold` in `ShutdownCompletes`); where none did it ends at once, and the server is freed
  under its clients (`deserted` in `ServerOutlivesClients`).
* Graphics pipeline. The full update of an activation is taken and dropped while the
  pipeline is not open, and not repeated when it cannot be opened
  (`shadow_client.c:1991`).
* Two comments say that the settings have the new size before
  `shadow_client_send_resize`; they get it inside (`shadow_client.c:2029`, `386`).
* Encoder. An acknowledgement from before a reset makes the unsigned difference huge;
  for one particular id, 100 / (inFlightFrames + 1) divides by zero
  (`shadow_encoder.c:64`). `InflightIsCount` excludes such acknowledgements.
* Object queue. `Queue_Enqueue` returns TRUE when it could not grow (`Queue.c:204`), and
  the pool then counts a callback nobody runs, so that waits never end; `WaitsEnd`
  excludes it and `CountOwed` counts it. `Queue_Contains` looks from slot 0 to the tail,
  not from the head round the ring (`Queue.c:148`).
* Timers. The timer thread ends at the first abort and is not started again on a
  reconnect (`timer.c:206`), hence `CalledBeforeAbort`. Ids are drawn without the lock
  (`timer.c:80`; two `Adder`s can get the same one). A timer removed in its own callback
  runs on if the callback returns an interval (`timer.c:128`; `CallbackInsists`).
* Connection sequence. A resize inside PostConnect (Windows and Mac servers) is
  followed by `activated` and Activate although the new demand is unanswered
  (`peer.c:772`). A second resize before the answer to the first, as the proxy can ask
  for, makes the client's second answer an error (`connection.c:1873`). The proxy
  reactivates the peer from its client's thread (`pf_client.c:68`, `pf_update.c:151`)
  without a lock. Without the condition on the host, TLC breaks all three properties:
  between `activated = FALSE` and the new state the peer's thread activates the client
  again and drops the message that it has just read (`connection.c:1908`, `peer.c:765`);
  it sends a demand of its own in the state DEMAND_ACTIVE and goes on, and the other
  thread then sets the state back, so that one resize is enough to throw an honest client
  out; and the two sides settle on different demands. A shutdown
  request during finalization is answered by an ultimatum, but the connection kept
  (`peer.c:1070`).
* Channels. The API is called thread-safe (`wtsvc.h:28`), but a channel closed by a
  thread of its own, as echo, audin, disp and ainput do, can be freed while the peer's
  thread works on it (`server.c:324`; `CloseOn = "OwnThread"` violates
  `ChannelInUseIsLive`). A received channel id is asserted to have 16 bits
  (`server.c:88`); ids only grow, with 32.
* Proxy. "Ignore unmappable channels" (`pf_client.c:506`): messages of a channel that the
  target does not have are dropped, and the peer is not told. A client whose peer has left still connects to the target, because connecting
  resets the library's abort event and does not look at the proxy's (`pf_client.c:753`).
  The ultimatum's test for `mcs` and its use are two reads while the other thread
  frees it (`freerdp.c:328`). The list of peers has no lock where it is appended to
  (`pf_server.c:769`): an update of its size can be lost and the server freed under a
  session (`races`); and it is freed when its size is 0, which is before the last
  removal has unlocked it (`pf_server.c:1056`).
* Barrier. Deleting one waits for the counter, which is reset before the events are
  switched and set (`barrier.c:248`); the model deletes only when all are through.

## 4. Proofs

All theorems are checked by TLAPS to the last leaf and hold for all constants under the
assumptions named in the modules. These say that sets that are counted are finite, that
bounds are natural numbers, that a value for "nobody" is not one of the values it is
told from, and three things about the code: a queue starts with room for at least two
(`MessageQueue_New` and `Queue_New` use 32), fewer frames are sent between two resets
than there are frame ids (2^32, so that an id is not used again before the reset), and
screen widths are positive with a largest one. Where a
theorem needs more, its statement says so. Each invariant is one that a run of section 3
checks on its instance, but for the two inductive invariants over streams: these are
modules of their own, and TLC checked them before they were proved, with the constants of
the runs `peer_connection` (594,876 states) and `channel_manager` (299,308 states, and
327,701 with `CloseOn = "OwnThread"`) and with numbers from a bounded set.

**Multi-client event** (`ShadowMultiClientEventProofs`). `IndInv` is inductive. The types
alone are not: that `consuming` stays above zero needs to know that it counts the clients
that can still consume (`CountersOK`), that each of these is flagged and nobody else can
find the event set (`SubscribersOK`), that exactly one of the three events is set
according to the counters (`EventsOK`), and that threads behind a wait still find what
they waited for (`WaitersOK`). `NextInv` has a lemma per action; the two places that
consume share `ShareCounted` (one client less owes) and `LastShareInv` (the last share
ends the round). From it follow `TypeCorrect`, `Assertions`, `FrameStability` and
`Refinement`, in which every action is a step of `FrameRound` or stutters.

**Frame update** (`ShadowProofs`). Every step of the frame update is a step of
the multi-client event, so `IndInv` holds there (`FrameUpdateEvent`); from it follows
`SurfaceStability`, the action property that nobody changes the surface between a
client's decision about a frame and its use of it. `FrameUpdateInvariance` proves
`FrameUpdateInv` with `SessionsOK` as strengthening: a decision is there exactly while
the thread works on a frame, an activation sequence under way has the size that was
asked for, and a size that an activation found to differ did. Its hypothesis is `1 \in SubRect`, that the shared part begins at the edge of the
screen; otherwise a viewport can be empty on a narrow screen, and the code's sizes are
meaningless. `DamageKept` and `RefusalIsRace` prove `NoLostDamage` and `RefusedOnlyByRace`
under `SubRect = Cell`, the whole screen; with less they are false, as section 3 says.
The argument for the damage is `Kept`, the property for one client as a function of its
record, the damage and whether it still owes the round: sending takes away at least what
it clears, and damage is cleared by the subsystem only when nobody owes.

**Server** (`ShadowProofs`). `ServerEvent` and `RoundRefinement` carry the multi-client
event over to threads that do much else. `ServerInvariance` proves that no queue is
freed under a post and, unless `deserted`, nothing under a thread at the end, whichever
clients the quit message reaches; the strengthening says that
the list has exactly the clients whose thread has not left it, each once (`ListOK`), that
a broadcast goes on to clients of the list (`JobOK`), and which thread can be where while
another is somewhere (`ThreadsOK`). `ReferencesCounted` proves `RefsCounted`. Counting needs that
no client has a message twice, queued or drained (`QueuesOK`): then the references are
two sets of clients and a flag, and each of the steps that add or release changes one
of them by one member.

**Encoder** (`ShadowProofs`). `EncoderInvariance`: the rate stays in its range, whatever
ids are acknowledged; and the difference of the ids is the number of frames since. The
latter is about the id acknowledged last, and says nothing about the next one: `LinkIsCounted`
says of each frame and acknowledgement on its way that it is from before a reset or was
followed by as many frames as its id is behind.

**Thread pool** (`ThreadPoolProofs`). `Invariance` proves `CountOwed`: the count is that of the
callers between counting and queueing, of the queue, of the workers between dequeueing
and signalling, and of what was lost. `Refinement` shows `WorkBatches` along it. A caller's
outstanding callbacks are the positions of the queue with its name and the workers
that run one; `Entries` follows the positions through append and tail.

**Timers** (`CoreProofs`). `TimerInvariance` proves `TimerInv`: the list is changed under its
lock, and a timer thread that sleeps without a timeout has not missed one. `RemovedQuiet`
proves `RemovedIsQuiet`, under `OneAdder` and `~CallbackInsists`: ids are drawn without a lock, so
two threads that add can get the same one, and a callback that removes its own timer
and returns an interval is called again (section 3). It needs that ids are distinct
and that the one being added is new (`IdsOK`), so that removing one marks no other.

**Connection sequence** (`CoreProofs`). `PeerIndInvariant` proves `PeerIndInv`, for any number of
channels and any options. The two sides run ahead of each other over two FIFOs, so what
one of them may do depends on all that is on the way. The core of the invariant is `InStep`.
The protocol in one direction is a relation: `UpStep` says which message a client may send
after which, with input and shutdown requests anywhere once a demand is confirmed,
`DownStep` the same of the server. `Linked` says that a
stream leads, message by message, from one place of the protocol to another. `Heard`, `Sent`,
`Said` and `Seen` tie the places at the ends to the states of the server and of the client;
`Taken` adds the message the server is working on, which it may have read or not. A step
of either side then takes one message from a stream or appends some, and the lemmas
`LinkedTake` and `LinkedAppend` say all there is to say about the rest of it. The other parts:
the finalization flags are those of the messages dealt with (`FlagsOK`), when a message is
gone on with after it was read (`RunOK`), demands come in order and answers answer demands
that were made (`DemandsOK`), a client that was reactivated has a server that knows
(`ReactivationOK`), no shutdown answered that was not asked for (`ShutdownOK`), a connected peer
is in the activation (`ConnectedOK`), the monitor layout (`LayoutOK`) and what cannot have happened yet (`EarlyOK`).
All this makes up `InOrder`, which holds as long as the peer's thread is alone with its state
(`Alone`): in every host but the proxy, and in the proxy until the peer is connected. What
`PeerIndInv` says beyond, of all hosts, is the types, that PostConnect was called when the
peer is connected and only then (`PostedOK`), that the other thread is at work only in a
connected peer of a proxy (`ResizerOK`), and that whoever sets the state of a connected
peer, it is one of the activation's (`LateOK`). From it follow `PeerInvariant` for `PeerInv`,
`HonestClientIsKept` for `HonestClientKept` and `EveryMessageIsRead` for `EveryMessageRead`, the
last two about the hosts that are not the proxy.

**Channels** (`ChannelProofs`). `ManagerIndInvariant` proves `ManagerIndInv`, for any serving and
writing threads, any number and length of messages, and both values of `CloseOn`. Streams
are shared by all channels, and what is said about a channel ends in the middle of a
message: `TalksOK` says for each channel that what is on the way, with the PDUs of others
skipped, leads from the place where the reader is to the place where the writer is. A place
is whether the channel is created, open or shut in that direction, how many messages are
complete and how many chunks of the next are said (`Carries`). At the reader's end `Partial`
says that the buffer is the start of that message and has the announced length; at the
writer's, `Rest` says that what is left to post is the rest of it. A freed channel hears no
more, and nothing is required of its place, unless the peer's thread has it in hand
(`Listens`): without that exception the invariant would not survive a close between look-up
and use. This needs that ids are not given twice (`IdsOK`), that a channel has one serving
thread (`OwnersOK`), and that a channel is not closed under a thread that writes to it, nor
written to by two (`WritersOK`). `ManagerInvariance` and `MessagesAreWhole` prove `ManagerInv` and
`MessagesArriveWhole` from it; `NoOrphanIsLeft` proves `NoOrphan` with `EndsOK`: a channel that
runs at the client although the server closed it after the answer has the close on its way.

**Proxy** (`ProxyProofs`). The session and the server are proved separately and put together:
a step of the proxy is a step of either, or of both where they meet, and `SessionInThread`
says where the session is while the peer's thread is in the server's code.
`ProxyInvariance` proves that the list of peers stays within its bounds however appending
and removing race (`SizeOK`), that without the race it holds each running peer once
through all the steps of `ArrayList_Append` and `ArrayList_Remove` (`ListOK`), and that nothing is
freed under a session. `DataInOrder` proves `ForwardedInOrder`, over any number of
reconnects, failing sends and channels that the target does not have; `FallbackKept` proves `FallbackKeepsPeer`, for which `AbortOK` says who can have set
the abort event.

**Objects of WinPR** (`WinPRProofs`).

* Message queue. `IndInv` is `TypeOK` and `RingOK` (`MessagesInvariance`). The crux is `Growing`: as
  the queue grows when it is one short of full, a growing queue is wrapped exactly if
  its head is not at slot 0, which is what `tail <= head` tests, also when the tail has
  just come to 0; a queue allowed to fill up, or a capacity of 1, would break it.
  `GrownContents` says that the copy leaves every message at its place behind the head.
  `MessagesAreFifo` maps the ring to the sequence of its messages.
* Object queue. `ObjectsInvariance` and `ObjectsAreFifo`, by the same argument (`QueueGrows`) with
  the copy of `Queue.c`, and with the branch in which it cannot grow and drops the object.
* Critical section. `SectionInvariance` and `SectionIsLock`. Mutual exclusion is about who has
  entered; it rests on the token (`TokenOK`): at most one thread has the lock or is about
  to post it, none while the semaphore holds it, and the counter is not -1 exactly when
  there is a token. `LockCountOK` counts what has been entered and the calls under way;
  so a thread that takes the counter from -1 to 0 finds nobody inside. `CountsAreRight`
  then follows for the moments between calls.
* Barrier. `BarrierInvariance`. At every moment there is a round `k` that is being counted, and
  each thread is outside, in `k`, or on its way out of `k - 1` (`PlacesOK`). The event of
  `k` is not set, that of `k - 1` is not reset while a thread has still to see it unless the
  last of `k` has come, by when nobody is left in `k - 1` (`EventsOK`, `CounterOK`). The step
  that switches the events turns `k` into `k + 1`; all others keep it. `RoundsApart` derives
  `NobodyPassesEarly` and `OneWinner`.
* One-time initialisation. `OnceInvariance`, from `ProgressOK`: the state is "in progress"
  exactly while one thread is between its exchange and its outcome.
* Together. `EachObject` shows that a behaviour of `WinPRSpec` is one of each object, and
  `ObjectsIntact` follows from the theorems above.

Only model-checked: liveness (`...Ends`, `...Completes`, `...Returns`, `DamageIsSent`, `Settles`,
`WriteArrives` and the like). It rests on fairness and on when actions are enabled, neither
of which the prover handles.

## 5. Plan

Modelling worth adding: the life cycle of WinPR threads (`thread.c`: join, detach, the
end of a thread during either), the stream pool, the region algebra of `region.c`, the
ring buffer of the transport and the comparison of `shadow_capture.c`, the last three as
operators against a definition; static channels and the closing of the whole channel
manager; the licence state machine.

## 6. Not modelled

The repository has more than half a million lines; the models stand for a few
thousand of them, those in which something can go wrong that is a matter of order.
The share of the whole is small and will stay small. Most of the rest is data: wire
formats and their parsers and writers (`capabilities.c`, `orders.c`, the channels), settings and
their generated accessors, command lines, status tables, icons, codecs and their
vectorised variants, cryptography, and the platform front ends. Such code has no
state that a model could abstract to anything shorter than itself, and a model of
it would restate it line by line.

Within the modelled parts: pixel data and the contents of PDUs; allocation failures
other than those of WinPR's two queues, of the shadow server's messages and quit messages,
of the pool's queue and of thread creation (in particular those of the channel manager);
timers further away than a timeout can say; the lobby (clients that may
not view); audio and input forwarding; the Windows and Mac subsystems;
authentication and the transport; codec contexts of the encoder; auto-detection,
multitransport, a required licence, redirection and failing callbacks in the
connection sequence; static channels and compressed channel data; what the proxy's
channels and modules do with data; cleanup groups of the thread pool. Events,
semaphores and threads of the operating system are taken as what they promise.
