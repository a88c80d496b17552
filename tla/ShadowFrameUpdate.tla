------------------------ MODULE ShadowFrameUpdate ------------------------
(***************************************************************************)
(* How a change of the shared screen reaches the clients: the X11          *)
(* subsystem thread (x11_shadow_subsystem_thread: resize, grab, refresh    *)
(* requests), the client threads (shadow_client_thread with the callbacks  *)
(* it runs: activate, suppress output, refresh rect, the graphics          *)
(* pipeline) and, between them, the multi-client event.                    *)
(*                                                                         *)
(* The screen is a row of cells, of which a surface of width w shows the   *)
(* first w. Pixels are left out: what is kept of them is, for each client, *)
(* the set of cells that its picture does not show as the surface has      *)
(* them. A region is a set of cells, and what is sent for a region is its  *)
(* extents.                                                                *)
(*                                                                         *)
(* The model has every client allowed to view (mayView), so the lobby      *)
(* surface is not used, and no allocation fails. A surface whose size has  *)
(* changed is taken to differ from the screen in every cell.               *)
(***************************************************************************)
EXTENDS ShadowMultiClientEvent

CONSTANTS
    Width,     \* the widths the screen can have
    SubRect,   \* the cells of server->subRect; all of them if not shared
    GfxModes,  \* subset of {"off", "wanted"}: do clients support the pipeline
    MaxRefresh \* bound: refresh requests in MsgPipe->In at a time

MaxWidth == CHOOSE w \in Width : \A v \in Width : v <= w
Cell == 1..MaxWidth

ASSUME FrameUpdateAssumption ==
    /\ Width \in SUBSET (Nat \ {0}) /\ \E w \in Width : \A v \in Width : v <= w
    /\ SubRect \in SUBSET Cell /\ SubRect # {}
    /\ GfxModes \in SUBSET {"off", "wanted"} /\ GfxModes # {}
    /\ MaxRefresh \in Nat \ {0}

VARIABLES
    width,   \* server->surface->width
    blank,   \* the surface was resized and not grabbed since
    damage,  \* server->surface->invalidRegion
    after,   \* what the subsystem thread does when its round is over
    refresh, \* refresh requests in MsgPipe->In
    peer     \* the state of each client, rdpShadowClient

shadowVars == <<width, blank, damage, after, refresh, peer>>
vars == <<mceVars, shadowVars>>

-----------------------------------------------------------------------------
(* Regions.                                                                *)

(* The smallest rectangle around a region. *)
Extents(region) ==
    {x \in Cell : \E l, r \in region : l <= x /\ x <= r}

(* The part of a surface of width w that is shared. *)
Viewport(w) == (1..w) \cap SubRect

(* shadow_client_recalc_desktop_size: has the client another size than the *)
(* shared part of the surface?                                             *)
RecalcDesktopSize(p) == p.desktop # Cardinality(Viewport(width))

(* The full screen, as shadow_client_mark_invalid has it. *)
FullScreen(p) == 1..p.desktop

(* shadow_client_convert_rects: from the client's coordinates. *)
ConvertRects(region) ==
    LET left == CHOOSE l \in SubRect : \A x \in SubRect : l <= x
    IN  {x + left - 1 : x \in region}

-----------------------------------------------------------------------------

(* shadow_client_context_new: the client before it has connected. *)
NewPeer ==
    [connected |-> FALSE,   \* PostConnect has run
     awaited |-> FALSE,     \* an activation sequence is under way
     activated |-> FALSE,
     suppressOutput |-> FALSE,
     invalid |-> {},        \* client->invalidRegion
     desktop |-> 0,         \* DesktopWidth in the client's settings
     resized |-> 0,         \* resizeWidth while resizeRequested
     checked |-> 0,         \* the width shadow_client_activate found to differ
     gfx |-> "off",         \* off, wanted, opened, ready, failed
     surface |-> 0,         \* width of the gfx surface, 0 if none
     plan |-> "none",       \* what the thread does about this frame
     stale |-> Cell]        \* cells it does not show as the surface has them

(* shadow_surface_new: an empty surface without damage. *)
InitFrameUpdate ==
    /\ Init
    /\ width \in Width
    /\ blank = TRUE
    /\ damage = {}
    /\ after = "none"
    /\ refresh = 0
    /\ peer = [c \in Client |-> NewPeer]

-----------------------------------------------------------------------------
(* The subsystem thread.                                                   *)

(* shadow_surface_resize: another size, over memory that is kept as it is. *)
(* The invalid region is not touched.                                      *)
SurfaceResize(w) ==
    /\ width' = w
    /\ blank' = TRUE
    /\ peer' = [c \in Client |-> [peer[c] EXCEPT !.stale = Cell]]
    /\ UNCHANGED damage

(* x11_shadow_check_resize: the screen has another size; so get the        *)
(* surfaces.                                                               *)
CheckResize(w) ==
    /\ server = "idle"
    /\ w # width
    /\ SurfaceResize(w)
    /\ UNCHANGED <<mceVars, after, refresh>>

(* x11_shadow_screen_grab finds the cells of changed to differ, copies the *)
(* extents of all damage and publishes the frame. With subscribers the     *)
(* damage is cleared when they are finished, without them at once.         *)
ScreenGrab(changed) ==
    LET damaged == (damage \cup Extents(changed)) \cap (1..width) IN
    /\ changed # {}
    /\ blank => changed = 1..width
    /\ PublishAndWait
    /\ peer' = [c \in Client |-> [peer[c] EXCEPT !.stale = @ \cup changed]]
    /\ blank' = FALSE
    /\ damage' = IF server' = "wait" THEN damaged ELSE {}
    /\ after' = IF server' = "wait" THEN "clear" ELSE "none"
    /\ UNCHANGED <<width, refresh>>

(* x11_shadow_subsystem_process_message: a refresh request publishes the   *)
(* surface as it is.                                                       *)
RefreshRequest ==
    /\ refresh > 0
    /\ refresh' = refresh - 1
    /\ PublishAndWait
    /\ UNCHANGED <<width, blank, damage, after, peer>>

ServerWaits ==
    /\ ServerWakes
    /\ UNCHANGED shadowVars

(* shadow_subsystem_frame_update returns, to the grab or to the message    *)
(* loop.                                                                   *)
FrameUpdateReturns ==
    /\ ServerReturns
    /\ damage' = IF after = "clear" THEN {} ELSE damage
    /\ after' = "none"
    /\ UNCHANGED <<width, blank, refresh, peer>>

-----------------------------------------------------------------------------
(* The client threads, between two looks at the update event.              *)

InLoop(c) == client[c] = "loop" /\ peer[c].checked = 0

(* A callback of the client thread: p becomes its state, and requests      *)
(* refresh requests are posted to the subsystem.                           *)
Callback(c, p, requests) ==
    /\ InLoop(c)
    /\ refresh + requests <= MaxRefresh
    /\ refresh' = refresh + requests
    /\ peer' = [peer EXCEPT ![c] = p]
    /\ UNCHANGED <<mceVars, width, blank, damage, after>>

(* shadow_client_mark_invalid: "No rectangle means full screen". *)
MarkInvalid(p, rects) ==
    [p EXCEPT !.invalid = @ \cup (IF rects = {} THEN FullScreen(p) ELSE rects)]

(* shadow_client_refresh_rect without areas, as used by the server itself. *)
RefreshAll(p) == MarkInvalid(p, {})

(* A client connects; its thread subscribes. *)
Accept(c) ==
    /\ GetSubscriber(c)
    /\ peer' = [peer EXCEPT ![c] = NewPeer]
    /\ UNCHANGED <<width, blank, damage, after, refresh>>

(* shadow_client_post_connect: the client has told its size and whether it *)
(* supports the graphics pipeline. The activation sequence starts.         *)
PostConnect(c, w, gfx) ==
    /\ ~peer[c].connected
    /\ Callback(c, RefreshAll([peer[c] EXCEPT !.connected = TRUE, !.awaited = TRUE,
                                              !.desktop = w, !.gfx = gfx]), 0)

(* shadow_send_desktop_resize refuses the size it has asked for before. *)
ResizeRefused(p) == p.resized = width

(* Mutant of SendDesktopResize: the settings keep the old size. *)
SendDesktopResizeOnly(p) ==
    [p EXCEPT !.resized = width, !.awaited = TRUE, !.stale = Cell]

(* shadow_send_desktop_resize: the client gets the size of the surface and *)
(* starts its activation again, with an empty picture.                     *)
SendDesktopResize(p) ==
    [p EXCEPT !.desktop = width, !.resized = width, !.awaited = TRUE, !.stale = Cell]

(* shadow_client_activate, at the end of an activation sequence. *)
Activate(c) ==
    /\ peer[c].awaited
    /\ ~RecalcDesktopSize(peer[c])
    /\ Callback(c, RefreshAll([peer[c] EXCEPT !.awaited = FALSE, !.activated = TRUE,
                                              !.resized = 0, !.stale = Cell]), 1)

(* It finds that the surface has another size, *)
ActivateChecks(c) ==
    /\ peer[c].awaited
    /\ RecalcDesktopSize(peer[c])
    /\ Callback(c, [peer[c] EXCEPT !.checked = width], 0)

(* and asks for the size that the surface has by then: it is read again,   *)
(* without a lock. Where that is refused the peer is dropped (Disconnect). *)
ActivateResizes(c) ==
    /\ client[c] = "loop" /\ peer[c].checked # 0
    /\ ~ResizeRefused(peer[c])
    /\ peer' = [peer EXCEPT ![c] = [SendDesktopResize(peer[c]) EXCEPT !.checked = 0]]
    /\ UNCHANGED <<mceVars, width, blank, damage, after, refresh>>

(* shadow_client_suppress_output; to allow output the client names an area *)
(* that it wants to be refreshed.                                          *)
SuppressOutput(c) ==
    /\ peer[c].connected
    /\ Callback(c, [peer[c] EXCEPT !.suppressOutput = TRUE], 1)

(* Mutant of AllowOutput: no refresh request is posted. *)
AllowOutputSilently(c, area) ==
    /\ peer[c].connected
    /\ Callback(c, MarkInvalid([peer[c] EXCEPT !.suppressOutput = FALSE],
                               ConvertRects(area)), 0)

AllowOutput(c, area) ==
    /\ peer[c].connected
    /\ Callback(c, MarkInvalid([peer[c] EXCEPT !.suppressOutput = FALSE],
                               ConvertRects(area)), 1)

(* shadow_client_refresh_rect on behalf of the client. *)
RefreshRect(c, areas) ==
    /\ peer[c].connected
    /\ Callback(c, MarkInvalid(peer[c], ConvertRects(areas)), 1)

(* The dynamic channels are ready: rdpgfx->Open. If that fails, the client *)
(* is served without the pipeline.                                         *)
OpenGfx(c) ==
    /\ peer[c].activated
    /\ peer[c].gfx = "wanted"
    /\ \/ Callback(c, [peer[c] EXCEPT !.gfx = "opened"], 0)
       \/ Callback(c, [peer[c] EXCEPT !.gfx = "failed"], 0)

(* shadow_client_rdpgfx_caps_advertise: the client has opened the channel. *)
CapsAdvertise(c) ==
    /\ peer[c].gfx \in {"opened", "ready"}
    /\ Callback(c, RefreshAll([peer[c] EXCEPT !.gfx = "ready"]), 1)

-----------------------------------------------------------------------------
(* The client threads at a frame.                                          *)

(* The update event is set: decide what to do about the frame. *)
BeginFrame(c) ==
    LET p == peer[c] IN
    /\ InLoop(c)
    /\ StartFrame(c)
    /\ peer' = [peer EXCEPT ![c].plan =
                   IF ~p.activated \/ p.suppressOutput THEN "save"
                   ELSE IF RecalcDesktopSize(p) THEN "resize" ELSE "send"]
    /\ UNCHANGED <<width, blank, damage, after, refresh>>

(* Mutant of NoSurfaceUpdate: the damage of a skipped frame is dropped. *)
ForgetSurfaceUpdate(p) == p

(* shadow_client_no_surface_update: the damage is kept for later. A region *)
(* without rectangles is marked as the full screen.                        *)
NoSurfaceUpdate(p) == MarkInvalid(p, damage)

(* Mutant of SendResize: the graphics surface is kept. *)
SendResizeKeepsSurface(p) ==
    [SendDesktopResize(p) EXCEPT !.activated = FALSE, !.resized = 0, !.invalid = {}]

(* shadow_client_send_resize, unless the resize is refused. *)
SendResize(p) ==
    [SendDesktopResize(p) EXCEPT !.activated = FALSE, !.surface = 0,
                                 !.resized = 0, !.invalid = {}]

(* shadow_client_send_surface_update: takes the client's own region and    *)
(* the damage of the frame, and sends what is shared of them. The graphics *)
(* pipeline sends its whole surface, which it creates for the first frame; *)
(* before it is ready nothing is sent.                                     *)
SendSurfaceUpdate(p) ==
    LET region == (p.invalid \cup damage) \cap Viewport(width)
        taken == [p EXCEPT !.invalid = {}]
    IN  IF region = {} \/ p.gfx \in {"wanted", "opened"} THEN taken
        ELSE IF p.gfx = "ready"
        THEN [taken EXCEPT !.surface = IF @ = 0 THEN p.desktop ELSE @,
                           !.stale = @ \ ConvertRects(1..p.desktop)]
        ELSE [taken EXCEPT !.stale = @ \ Extents(region)]

FrameWork(p) ==
    CASE p.plan = "save" -> NoSurfaceUpdate(p)
      [] p.plan = "resize" -> SendResize(p)
      [] p.plan = "send" -> SendSurfaceUpdate(p)

(* The frame is handled and consumed. *)
FinishFrame(c) ==
    LET p == peer[c] IN
    /\ ConsumeFrame(c)
    /\ p.plan = "resize" => ~ResizeRefused(p)
    /\ peer' = [peer EXCEPT ![c] = [FrameWork(p) EXCEPT !.plan = "none"]]
    /\ UNCHANGED <<width, blank, damage, after, refresh>>

(* The client disconnects, or anything its thread does fails. *)
Disconnect(c) ==
    /\ ReleaseSubscriber(c)
    /\ peer' = [peer EXCEPT ![c] = NewPeer]
    /\ UNCHANGED <<width, blank, damage, after, refresh>>

(* The barrier. *)
PassBarrier(c) ==
    /\ LeaveBarrier(c) \/ ResumeConsume(c)
    /\ UNCHANGED shadowVars

-----------------------------------------------------------------------------

SubsystemNext ==
    \/ \E w \in Width : CheckResize(w)
    \/ \E changed \in SUBSET (1..width) : ScreenGrab(changed)
    \/ RefreshRequest
    \/ ServerWaits
    \/ FrameUpdateReturns

PeerNext(c) ==
    \/ Accept(c)
    \/ \E w \in Width, gfx \in GfxModes : PostConnect(c, w, gfx)
    \/ Activate(c)
    \/ ActivateChecks(c)
    \/ ActivateResizes(c)
    \/ SuppressOutput(c)
    \/ \E area \in SUBSET Cell \ {{}} : AllowOutput(c, area)
    \/ \E areas \in SUBSET Cell : RefreshRect(c, areas)
    \/ OpenGfx(c)
    \/ CapsAdvertise(c)
    \/ BeginFrame(c)
    \/ FinishFrame(c)
    \/ PassBarrier(c)
    \/ Disconnect(c)

NextFrameUpdate == SubsystemNext \/ \E c \in Client : PeerNext(c)

FrameUpdateSpec == InitFrameUpdate /\ [][NextFrameUpdate]_vars

(* The subsystem thread takes one message per turn of its loop and, in the *)
(* same turn, grabs the screen when that is due, so that messages cannot   *)
(* keep it from grabbing (strong fairness). A client thread ends a resize  *)
(* that it has begun, handles the event it finds and passes the barrier.   *)
FrameUpdateFairness ==
    /\ WF_vars(ServerWaits) /\ WF_vars(FrameUpdateReturns)
    /\ WF_vars(RefreshRequest)
    /\ SF_vars(blank /\ ScreenGrab(1..width))
    /\ \A c \in Client :
        /\ WF_vars(ActivateResizes(c) \/ (peer[c].checked # 0 /\ Disconnect(c)))
        /\ WF_vars(BeginFrame(c))
        /\ WF_vars(FinishFrame(c) \/ (client[c] = "frame" /\ Disconnect(c)))
        /\ WF_vars(PassBarrier(c))

FairFrameUpdateSpec == FrameUpdateSpec /\ FrameUpdateFairness

-----------------------------------------------------------------------------
(* Properties.                                                             *)

PeerType ==
    [connected : BOOLEAN, awaited : BOOLEAN, activated : BOOLEAN,
     suppressOutput : BOOLEAN, invalid : SUBSET Cell, desktop : {0} \cup Width,
     resized : {0} \cup Width, checked : {0} \cup Width,
     gfx : {"off", "wanted", "opened", "ready", "failed"},
     surface : {0} \cup Width, plan : {"none", "save", "resize", "send"},
     stale : SUBSET Cell]

(* Types; no region leaves the screen. *)
FrameUpdateTypeOK ==
    /\ TypeOK
    /\ width \in Width
    /\ blank \in BOOLEAN
    /\ damage \in SUBSET Cell
    /\ after \in {"none", "clear"}
    /\ refresh \in 0..MaxRefresh
    /\ peer \in [Client -> PeerType]

(* A client that gets pictures at the size of the shared part. *)
Viewing(c, modes) ==
    /\ peer[c].activated
    /\ peer[c].gfx \in modes
    /\ ~RecalcDesktopSize(peer[c])

Stale(c) == peer[c].stale \cap Viewport(width)

(* No damage is lost between x11_shadow_screen_grab and a client: not by   *)
(* suppressed output, activation, resizes, refresh requests, the pipeline  *)
(* opening late or rounds that other clients start.  Whatever a viewing    *)
(* client does not show as the surface has it is in the client's own       *)
(* invalid region, or in the damage of the round the client still has to   *)
(* handle, or the surface itself has still to be grabbed.                  *)
NoLostDamage ==
    \A c \in Client :
        Viewing(c, {"off", "ready"}) /\ ~blank =>
            Stale(c) \subseteq peer[c].invalid \cup (IF c \in Owing THEN damage ELSE {})

(* The comment in shadow_client_thread again, over the surface itself:     *)
(* between a client's decision about a frame and its use of the surface,   *)
(* size and damage stay as they were when the frame was published.         *)
SurfaceStable ==
    [][\A c \in Client : client[c] = "frame" => UNCHANGED <<width, blank, damage>>]_vars

(* What is decided for a frame still fits when it is done: an update is    *)
(* only sent to an activated client that has the size of the shared part,  *)
(* and a graphics surface has the client's size.                           *)
SendFits ==
    \A c \in Client :
        /\ peer[c].plan = "send" =>
               peer[c].activated /\ ~RecalcDesktopSize(peer[c])
        /\ peer[c].activated /\ peer[c].surface # 0 => peer[c].surface = peer[c].desktop

(* A client is activated, or is in its activation sequence, only after it  *)
(* has connected and not both; the size that was asked of it is the one it *)
(* has, and nothing is asked of it once it is activated; it has no graphics*)
(* surface before it is activated; and what shadow_client_activate found   *)
(* to differ from its size did.                                            *)
SessionOK(p) ==
    /\ ~p.connected => ~p.awaited /\ ~p.activated /\ p.surface = 0 /\ p.resized = 0
    /\ p.awaited => ~p.activated /\ p.surface = 0 /\ p.resized \in {0, p.desktop}
    /\ p.activated => p.resized = 0
    /\ p.checked # 0 => p.awaited /\ p.desktop # Cardinality(Viewport(p.checked))

(* What a thread has decided about a frame is there exactly while it works *)
(* on one, it sends nothing and resizes nothing before the client is       *)
(* activated, and who has no thread is not connected.                      *)
SessionsOK ==
    \A c \in Client :
        /\ SessionOK(peer[c])
        /\ peer[c].plan # "none" <=> client[c] = "frame"
        /\ peer[c].plan \in {"resize", "send"} => peer[c].activated
        /\ client[c] = "out" => ~peer[c].connected

(* A client that does what shadow_send_desktop_resize asked of it, so that *)
(* its settings have the size asked for, is refused for being asked twice  *)
(* ("detected previous resize request ..., disconnecting peer") only if    *)
(* the surface was resized back between the two reads of its size in one   *)
(* shadow_client_activate. Neither a refusal at a frame, nor one of a size *)
(* that the client does not have, can happen to it.                        *)
RefusedOnlyByRace ==
    \A c \in Client :
        /\ peer[c].checked # 0 /\ ResizeRefused(peer[c]) =>
               width # peer[c].checked /\ width = peer[c].desktop
        /\ peer[c].plan = "resize" => ~ResizeRefused(peer[c])

(* Every cell that a viewing client with output allowed does not show as   *)
(* the surface has it is sent, without any further change of the screen:   *)
(* no refresh request is missing.                                          *)
DamageIsSent ==
    \A c \in Client : \A x \in Cell :
        LET Wanting == /\ Viewing(c, {"off", "ready"})
                       /\ ~peer[c].suppressOutput
                       /\ x \in Stale(c)
        IN  Wanting ~> ~Wanting

(* The state invariant of the frame update: types, and what a client thread*)
(* decides about a frame still fits when it carries it out.                *)
FrameUpdateInv == FrameUpdateTypeOK /\ SendFits /\ SessionsOK
=============================================================================
