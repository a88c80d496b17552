---------------------------- MODULE ShadowProofs ----------------------------
(***************************************************************************)
(* Proofs about the shadow server (server/shadow): the frame update, the   *)
(* frame ids and the frame rate, and the threads of the server.            *)
(***************************************************************************)
EXTENDS ShadowFrameUpdate, ShadowEncoder, ShadowServer, ShadowMultiClientEventProofs, SequenceTheorems

-----------------------------------------------------------------------------
(***************************************************************************)
(* Proofs about the frame update, for any finite set of clients and any    *)
(* set of screen widths with a largest one: what a client thread decides   *)
(* about a frame stays right until it is done, and no damage is lost. They *)
(* rest on the invariant of the multi-client event, of which every step of *)
(* the frame update is a step.                                             *)
(***************************************************************************)

-----------------------------------------------------------------------------
(***************************************************************************)
(* The multi-client event inside the frame update.                         *)
(***************************************************************************)

(* Every step of the frame update is a step of the multi-client event, or  *)
(* does not touch it.                                                      *)
LEMMA FrameUpdateStepOfEvent == [NextFrameUpdate]_vars => [Next]_mceVars
<1> SUFFICES ASSUME [NextFrameUpdate]_vars PROVE [Next]_mceVars
  OBVIOUS
<1>1. CASE SubsystemNext
  BY <1>1 DEF SubsystemNext, CheckResize, ScreenGrab, RefreshRequest, ServerWaits,
              FrameUpdateReturns, Next, ServerNext
<1>2. ASSUME NEW c \in Client, PeerNext(c) PROVE [Next]_mceVars
  BY <1>2 DEF PeerNext, Accept, PostConnect, Activate, ActivateChecks, ActivateResizes,
              SuppressOutput, AllowOutput, RefreshRect, OpenGfx, CapsAdvertise, BeginFrame, FinishFrame,
              PassBarrier, Disconnect, Callback, Next, ClientNext
<1>3. CASE UNCHANGED vars
  BY <1>3 DEF vars
<1> QED
  BY <1>1, <1>2, <1>3 DEF NextFrameUpdate

(* So its inductive invariant holds here as well. *)
THEOREM FrameUpdateEvent == FrameUpdateSpec => []IndInv
<1>1. InitFrameUpdate => IndInv
  BY InitInv DEF InitFrameUpdate
<1>2. IndInv /\ [NextFrameUpdate]_vars => IndInv'
  BY FrameUpdateStepOfEvent, NextInv
<1> QED
  BY <1>1, <1>2, PTL DEF FrameUpdateSpec

(* A client that works on a frame keeps the subsystem thread in its wait. *)
LEMMA FrameHoldsServer ==
    ASSUME IndInv, NEW c \in Client, client[c] = "frame"
    PROVE  server = "wait" /\ event /\ ~doneEvent /\ c \in Owing
<1>1. event
  BY DEF IndInv, SubscribersOK
<1>2. ~doneEvent
  BY <1>1 DEF IndInv, EventsOK, TypeOK
<1> QED
  BY <1>1, <1>2 DEF IndInv, WaitersOK, Owing

(* The comment in shadow_client_thread, for any number of clients: between *)
(* a client's decision about a frame and its use of the surface, size and  *)
(* damage of the surface stay as they were published.                      *)
THEOREM SurfaceStability == FrameUpdateSpec => SurfaceStable
<1>1. IndInv /\ [NextFrameUpdate]_vars =>
        [\A c \in Client : client[c] = "frame" => UNCHANGED <<width, blank, damage>>]_vars
  <2> SUFFICES ASSUME IndInv, NextFrameUpdate, NEW c \in Client, client[c] = "frame"
               PROVE  UNCHANGED <<width, blank, damage>>
    OBVIOUS
  <2>1. server = "wait" /\ ~doneEvent
    BY FrameHoldsServer
  <2>2. CASE SubsystemNext
    BY <2>1, <2>2 DEF SubsystemNext, CheckResize, ScreenGrab, RefreshRequest, ServerWaits,
                      FrameUpdateReturns, PublishAndWait, ServerWakes, ServerReturns
  <2>3. ASSUME NEW d \in Client, PeerNext(d) PROVE UNCHANGED <<width, blank, damage>>
    BY <2>3 DEF PeerNext, Accept, PostConnect, Activate, ActivateChecks, ActivateResizes,
                SuppressOutput, AllowOutput, RefreshRect, OpenGfx, CapsAdvertise, BeginFrame, FinishFrame,
                PassBarrier, Disconnect, Callback, shadowVars
  <2> QED
    BY <2>2, <2>3 DEF NextFrameUpdate
<1> QED
  BY <1>1, FrameUpdateEvent, PTL DEF FrameUpdateSpec, SurfaceStable

-----------------------------------------------------------------------------
(***************************************************************************)
(* Regions and sessions.                                                   *)
(***************************************************************************)

(* The screen has a largest width. *)
LEMMA Widest ==
    /\ MaxWidth \in Width /\ MaxWidth \in Nat \ {0}
    /\ \A w \in Width : w \in Nat \ {0} /\ w <= MaxWidth /\ 1..w \subseteq Cell
<1>1. MaxWidth \in Width /\ \A w \in Width : w <= MaxWidth
  BY FrameUpdateAssumption DEF MaxWidth
<1>2. \A w \in Width : w \in Nat \ {0}
  BY FrameUpdateAssumption
<1>3. ASSUME NEW w \in Width PROVE 1..w \subseteq 1..MaxWidth
  BY <1>1, <1>2
<1> QED
  BY <1>1, <1>2, <1>3 DEF Cell

(* Where the shared part starts at the edge of the screen, the coordinates *)
(* of a client are those of the surface.                                   *)
LEMMA ConvertIsIdentity ==
    ASSUME 1 \in SubRect, NEW region \in SUBSET Cell
    PROVE  ConvertRects(region) = region
<1>1. SubRect \subseteq Cell /\ Cell \subseteq Nat \ {0}
  BY FrameUpdateAssumption, Widest DEF Cell
<1> DEFINE left == CHOOSE l \in SubRect : \A x \in SubRect : l <= x
<1>2. \A x \in SubRect : 1 <= x
  BY <1>1
<1>3. \E l \in SubRect : \A x \in SubRect : l <= x
  BY <1>2
<1>4. left = 1
  <2>1. left \in SubRect /\ \A x \in SubRect : left <= x
    BY <1>3, Zenon
  <2> HIDE DEF left
  <2>2. left \in Nat \ {0} /\ left <= 1
    BY <1>1, <2>1
  <2> QED
    BY <2>2
<1>5. ConvertRects(region) = {x + left - 1 : x \in region}
  BY Zenon DEF ConvertRects
<1> HIDE DEF left
<1>6. \A x \in region : x + left - 1 = x
  BY <1>1, <1>4
<1> QED
  BY <1>5, <1>6

(* The full screen of a client is within the screen. *)
LEMMA FullScreenFits ==
    ASSUME NEW p \in PeerType
    PROVE  FullScreen(p) \in SUBSET Cell
<1>1. p.desktop \in {0} \cup Width
  BY DEF PeerType
<1>2. 1..0 = {}
  OBVIOUS
<1> QED
  BY <1>1, <1>2, Widest DEF FullScreen

(* What holds of the state of each client. *)
PeerOK(p) ==
    /\ p \in PeerType /\ SessionOK(p)
    /\ p.activated /\ p.surface # 0 => p.surface = p.desktop

(* A client before it has connected. *)
LEMMA NewPeerOK == PeerOK(NewPeer) /\ NewPeer.plan = "none" /\ ~NewPeer.connected
<1>1. NewPeer \in PeerType
  BY DEF NewPeer, PeerType
<1> QED
  BY <1>1 DEF PeerOK, SessionOK, NewPeer

(* Marking a region keeps the rest of the state. *)
LEMMA MarkInvalidOK ==
    ASSUME NEW p, PeerOK(p), NEW rects \in SUBSET Cell
    PROVE  /\ PeerOK(MarkInvalid(p, rects))
           /\ MarkInvalid(p, rects).plan = p.plan
           /\ MarkInvalid(p, rects).connected = p.connected
<1> DEFINE q == MarkInvalid(p, rects)
           i == p.invalid \cup (IF rects = {} THEN FullScreen(p) ELSE rects)
<1>1. p \in PeerType
  BY DEF PeerOK
<1>2. i \in SUBSET Cell
  BY <1>1, FullScreenFits DEF PeerType
<1>3. q = [p EXCEPT !.invalid = i]
  BY DEF MarkInvalid
<1> HIDE DEF q, i
<1>4. q \in PeerType
  BY <1>1, <1>2, <1>3 DEF PeerType
<1>5. /\ q.connected = p.connected /\ q.awaited = p.awaited /\ q.activated = p.activated
      /\ q.surface = p.surface /\ q.resized = p.resized /\ q.desktop = p.desktop
      /\ q.checked = p.checked /\ q.plan = p.plan
  BY <1>1, <1>3 DEF PeerType
<1>6. PeerOK(q) /\ q.plan = p.plan /\ q.connected = p.connected
  BY <1>4, <1>5 DEF PeerOK, SessionOK
<1> QED
  BY <1>6 DEF q

(* A request for another size leaves a client in its activation sequence,  *)
(* without a graphics surface.                                             *)
LEMMA SendDesktopResizeOK ==
    ASSUME NEW p, p \in PeerType, p.connected, ~p.activated, p.surface = 0, width \in Width
    PROVE  LET q == [SendDesktopResize(p) EXCEPT !.checked = 0]
           IN  PeerOK(q) /\ q.plan = p.plan /\ q.connected /\ ~q.activated
<1> DEFINE q == [SendDesktopResize(p) EXCEPT !.checked = 0]
<1>1. q = [p EXCEPT !.desktop = width, !.resized = width, !.awaited = TRUE, !.stale = Cell,
                    !.checked = 0]
  BY DEF SendDesktopResize, PeerType
<1>2. q \in PeerType
  BY <1>1 DEF PeerType
<1>3. /\ q.connected /\ ~q.activated /\ q.surface = 0 /\ q.resized = q.desktop
      /\ q.checked = 0 /\ q.plan = p.plan
  BY <1>1 DEF PeerType
<1> QED
  BY <1>2, <1>3 DEF PeerOK, SessionOK

(* What shadow_client_send_resize leaves. *)
LEMMA SendResizeOK ==
    ASSUME NEW p, PeerOK(p), p.connected, p.activated, width \in Width
    PROVE  LET q == SendResize(p)
           IN  PeerOK(q) /\ q.connected /\ ~q.activated
<1> DEFINE q == SendResize(p)
<1>1. q = [p EXCEPT !.desktop = width, !.resized = 0, !.awaited = TRUE, !.stale = Cell,
                    !.activated = FALSE, !.surface = 0, !.invalid = {}]
  BY DEF SendResize, SendDesktopResize, PeerOK, PeerType
<1>2. q \in PeerType
  BY <1>1 DEF PeerOK, PeerType
<1>3. q.connected /\ ~q.activated /\ q.surface = 0 /\ q.resized = 0 /\ q.checked = p.checked
  BY <1>1 DEF PeerOK, PeerType
<1>4. p.checked = 0
  BY DEF PeerOK, SessionOK
<1> QED
  BY <1>2, <1>3, <1>4 DEF PeerOK, SessionOK

(* What shadow_client_send_surface_update leaves: the client's own region  *)
(* is taken, the surface has the client's size, and less is stale.         *)
LEMMA SendSurfaceUpdateOK ==
    ASSUME NEW p, PeerOK(p), p.activated
    PROVE  LET q == SendSurfaceUpdate(p)
           IN  /\ PeerOK(q) /\ q.connected = p.connected /\ q.activated
               /\ q.gfx = p.gfx /\ q.desktop = p.desktop
<1> DEFINE region == (p.invalid \cup damage) \cap Viewport(width)
           taken == [p EXCEPT !.invalid = {}]
           shown == [taken EXCEPT !.surface = IF @ = 0 THEN p.desktop ELSE @,
                                  !.stale = @ \ ConvertRects(1..p.desktop)]
           drawn == [taken EXCEPT !.stale = @ \ Extents(region)]
<1>1. p \in PeerType /\ SessionOK(p) /\ p.connected /\ ~p.awaited /\ p.checked = 0
  BY DEF PeerOK, SessionOK, PeerType
<1>2. PeerOK(taken) /\ taken.connected = p.connected /\ taken.activated
      /\ taken.gfx = p.gfx /\ taken.desktop = p.desktop
  <2>1. taken \in PeerType
    BY <1>1 DEF PeerType
  <2> QED
    BY <1>1, <2>1 DEF PeerType, PeerOK, SessionOK
<1>3. PeerOK(drawn) /\ drawn.connected = p.connected /\ drawn.activated
      /\ drawn.gfx = p.gfx /\ drawn.desktop = p.desktop
  <2>1. drawn \in PeerType
    BY <1>1 DEF PeerType
  <2> QED
    BY <1>1, <2>1 DEF PeerType, PeerOK, SessionOK
<1>4. PeerOK(shown) /\ shown.connected = p.connected /\ shown.activated
      /\ shown.gfx = p.gfx /\ shown.desktop = p.desktop
  <2>1. shown \in PeerType
    BY <1>1 DEF PeerType
  <2>2. shown.surface = shown.desktop
    BY <1>1 DEF PeerType, PeerOK
  <2>3. /\ shown.connected = p.connected /\ shown.activated = p.activated
        /\ shown.gfx = p.gfx /\ shown.desktop = p.desktop /\ shown.awaited = p.awaited
        /\ shown.resized = p.resized /\ shown.checked = p.checked
    BY <1>1 DEF PeerType
  <2> QED
    BY <1>1, <2>1, <2>2, <2>3 DEF PeerOK, SessionOK
<1>5. SendSurfaceUpdate(p) \in {taken, shown, drawn}
  BY DEF SendSurfaceUpdate
<1> HIDE DEF taken, shown, drawn
<1> QED
  BY <1>2, <1>3, <1>4, <1>5

-----------------------------------------------------------------------------
(***************************************************************************)
(* What a step of a client leaves alone.                                   *)
(***************************************************************************)

(* A step of one client thread neither moves the others nor takes their    *)
(* share of the round.                                                     *)
LEMMA OnlyOneMoves ==
    ASSUME IndInv, NEW c \in Client, ClientNext(c)
    PROVE  /\ \A d \in Client : d # c => client'[d] = client[d] /\ (d \in Owing' <=> d \in Owing)
           /\ client' \in [Client -> {"out", "loop", "frame", "barrier", "awake"}]
<1>1. client \in [Client -> {"out", "loop", "frame", "barrier", "awake"}]
  BY DEF IndInv, TypeOK
<1>2. PICK x \in {"out", "loop", "frame", "barrier", "awake"} :
        client' = [client EXCEPT ![c] = x]
  BY DEF ClientNext, GetSubscriber, StartFrame, ConsumeFrame, LeaveBarrier, ResumeConsume,
         ReleaseSubscriber, Consume
<1>3. \A d \in Client : d # c => client'[d] = client[d]
  BY <1>1, <1>2
<1>4. (\E d \in Owing : d # c) => (event' <=> event)
  <2>1. CASE StartFrame(c) \/ LeaveBarrier(c) \/ ResumeConsume(c)
    BY <2>1 DEF StartFrame, LeaveBarrier, ResumeConsume
  <2>2. CASE GetSubscriber(c)
    <3> SUFFICES ASSUME NEW d \in Owing PROVE event' <=> event
      OBVIOUS
    <3>1. event /\ consuming \in Nat /\ consuming > 0
      BY DEF Owing, IndInv, EventsOK, TypeOK
    <3>2. consuming' = consuming /\ consuming' # 0
      BY <2>2, <3>1 DEF GetSubscriber, Consume
    <3> QED
      BY <2>2, <3>2 DEF GetSubscriber, Consume
  <2>3. CASE ConsumeFrame(c) \/ ReleaseSubscriber(c)
    <3> SUFFICES ASSUME NEW d \in Owing, d # c PROVE event' <=> event
      OBVIOUS
    <3>1. event /\ client[c] \in {"loop", "frame"}
      BY <2>3 DEF Owing, ConsumeFrame, ReleaseSubscriber
    <3>2. Owing # {c}
      OBVIOUS
    <3>3. pleaseHandle[c] /\ consuming - 1 # 0
      BY <3>1, <3>2, ShareCounted
    <3>4. consuming' = consuming - 1
      BY <2>3, <3>1, <3>3 DEF ConsumeFrame, ReleaseSubscriber, Consume
    <3> QED
      BY <2>3, <3>3, <3>4 DEF ConsumeFrame, ReleaseSubscriber, Consume
  <2> QED
    BY <2>1, <2>2, <2>3 DEF ClientNext
<1>5. ~event => ~event'
  BY DEF ClientNext, GetSubscriber, StartFrame, ConsumeFrame, LeaveBarrier, ResumeConsume,
         ReleaseSubscriber, Consume
<1>6. ASSUME NEW d \in Client, d # c PROVE d \in Owing' <=> d \in Owing
  <2>1. CASE d \in Owing
    BY <1>3, <1>4, <1>6, <2>1 DEF Owing
  <2>2. CASE d \notin Owing
    BY <1>3, <1>5, <1>6, <2>2 DEF Owing
  <2> QED
    BY <2>1, <2>2
<1> QED
  BY <1>1, <1>2, <1>3, <1>6

(* A step that changes the state of one client keeps the invariant, if it  *)
(* does for that client.                                                   *)
LEMMA PeerStepInv ==
    ASSUME IndInv', FrameUpdateInv, NEW c \in Client, NEW p, PeerOK(p),
           peer' = [peer EXCEPT ![c] = p],
           UNCHANGED <<width, blank, damage, after>>, refresh' \in 0..MaxRefresh,
           \A d \in Client : d # c => client'[d] = client[d],
           p.plan # "none" <=> client'[c] = "frame",
           client'[c] = "out" => ~p.connected,
           p.plan = "send" => ~RecalcDesktopSize(p),
           p.plan \in {"resize", "send"} => p.activated
    PROVE  FrameUpdateInv'
<1>1. peer \in [Client -> PeerType] /\ peer' \in [Client -> PeerType]
  BY DEF FrameUpdateInv, FrameUpdateTypeOK, PeerOK
<1>2. peer'[c] = p /\ \A d \in Client : d # c => peer'[d] = peer[d]
  BY <1>1
<1>3. FrameUpdateTypeOK'
  BY <1>1 DEF FrameUpdateInv, FrameUpdateTypeOK, IndInv
<1>4. SendFits'
  <2> SUFFICES ASSUME NEW d \in Client
               PROVE  /\ peer'[d].plan = "send" =>
                           peer'[d].activated /\ ~RecalcDesktopSize(peer[d])'
                      /\ peer'[d].activated /\ peer'[d].surface # 0
                           => peer'[d].surface = peer'[d].desktop
    BY DEF SendFits
  <2>1. CASE d = c
    BY <1>2, <2>1 DEF PeerOK, RecalcDesktopSize, Viewport
  <2>2. CASE d # c
    BY <1>2, <2>2 DEF FrameUpdateInv, SendFits, RecalcDesktopSize, Viewport
  <2> QED
    BY <2>1, <2>2
<1>5. SessionsOK'
  <2> SUFFICES ASSUME NEW d \in Client
               PROVE  /\ SessionOK(peer'[d])
                      /\ peer'[d].plan # "none" <=> client'[d] = "frame"
                      /\ peer'[d].plan \in {"resize", "send"} => peer'[d].activated
                      /\ client'[d] = "out" => ~peer'[d].connected
    BY DEF SessionsOK, SessionOK
  <2>1. CASE d = c
    BY <1>2, <2>1 DEF PeerOK
  <2>2. CASE d # c
    BY <1>2, <2>2 DEF FrameUpdateInv, SessionsOK
  <2> QED
    BY <2>1, <2>2
<1> QED
  BY <1>3, <1>4, <1>5 DEF FrameUpdateInv

-----------------------------------------------------------------------------
(***************************************************************************)
(* FrameUpdateInv is preserved.                                            *)
(***************************************************************************)

(* Two states of a client that differ in what is stale at most. *)
SameSession(p, q) ==
    /\ q.connected = p.connected /\ q.awaited = p.awaited /\ q.activated = p.activated
    /\ q.invalid = p.invalid /\ q.desktop = p.desktop /\ q.resized = p.resized
    /\ q.checked = p.checked /\ q.gfx = p.gfx /\ q.surface = p.surface /\ q.plan = p.plan

(* Two states of a client that differ in the decision about a frame. *)
SameSessionButPlan(p, q) ==
    /\ q.connected = p.connected /\ q.awaited = p.awaited /\ q.activated = p.activated
    /\ q.invalid = p.invalid /\ q.desktop = p.desktop /\ q.resized = p.resized
    /\ q.checked = p.checked /\ q.gfx = p.gfx /\ q.surface = p.surface /\ q.stale = p.stale

(* The subsystem thread changes nothing of the clients but what is stale,  *)
(* and the width only while no client works on a frame.                    *)
LEMMA SubsystemLeavesSessions ==
    ASSUME IndInv, FrameUpdateInv, SubsystemNext
    PROVE  /\ peer' \in [Client -> PeerType]
           /\ \A c \in Client : SameSession(peer[c], peer'[c])
           /\ UNCHANGED client /\ width' \in Width
           /\ width' = width \/ \A c \in Client : client[c] # "frame"
<1>1. peer \in [Client -> PeerType] /\ width \in Width
  BY DEF FrameUpdateInv, FrameUpdateTypeOK
<1>2. ASSUME NEW w \in Width, CheckResize(w)
      PROVE  /\ peer' \in [Client -> PeerType]
             /\ \A c \in Client : SameSession(peer[c], peer'[c])
             /\ UNCHANGED client /\ width' \in Width
             /\ \A c \in Client : client[c] # "frame"
  <2>1. /\ peer' = [c \in Client |-> [peer[c] EXCEPT !.stale = Cell]]
        /\ UNCHANGED client /\ width' = w /\ server = "idle"
    BY <1>2 DEF CheckResize, SurfaceResize, mceVars
  <2>2. \A c \in Client : client[c] # "frame"
    BY <2>1, FrameHoldsServer
  <2> QED
    BY <1>1, <2>1, <2>2 DEF PeerType, SameSession
<1>3. ASSUME NEW changed \in SUBSET (1..width), ScreenGrab(changed)
      PROVE  /\ peer' \in [Client -> PeerType]
             /\ \A c \in Client : SameSession(peer[c], peer'[c])
             /\ UNCHANGED <<client, width>>
  <2>1. /\ peer' = [c \in Client |-> [peer[c] EXCEPT !.stale = peer[c].stale \cup changed]]
        /\ UNCHANGED <<client, width>>
    BY <1>3 DEF ScreenGrab, PublishAndWait
  <2>2. \A c \in Client : peer[c].stale \cup changed \in SUBSET Cell
    <3>1. changed \subseteq Cell
      BY <1>1, Widest
    <3> QED
      BY <1>1, <3>1 DEF PeerType
  <2>3. \A c \in Client : \A st \in SUBSET Cell :
            [peer[c] EXCEPT !.stale = st] \in PeerType
    BY <1>1 DEF PeerType
  <2>4. peer' \in [Client -> PeerType]
    BY <2>1, <2>2, <2>3
  <2>5. \A c \in Client : SameSession(peer[c], peer'[c])
    BY <1>1, <2>1 DEF PeerType, SameSession
  <2> QED
    BY <2>1, <2>4, <2>5
<1>4. CASE RefreshRequest \/ ServerWaits \/ FrameUpdateReturns
  <2>1. UNCHANGED <<peer, client, width>>
    BY <1>4 DEF RefreshRequest, ServerWaits, FrameUpdateReturns, PublishAndWait, ServerWakes,
                ServerReturns, shadowVars
  <2> QED
    BY <1>1, <2>1 DEF SameSession
<1> QED
  BY <1>1, <1>2, <1>3, <1>4 DEF SubsystemNext

(* The subsystem thread. *)
LEMMA SubsystemInv ==
    ASSUME IndInv, IndInv', FrameUpdateInv, SubsystemNext
    PROVE  FrameUpdateInv'
<1>1. /\ width \in Width /\ damage \in SUBSET Cell /\ refresh \in 0..MaxRefresh
      /\ after \in {"none", "clear"} /\ blank \in BOOLEAN
  BY DEF FrameUpdateInv, FrameUpdateTypeOK
<1>2. damage' \in SUBSET Cell
  <2>1. ASSUME NEW changed \in SUBSET (1..width), ScreenGrab(changed)
        PROVE  damage' \in SUBSET Cell
    <3>1. (damage \cup Extents(changed)) \cap (1..width) \in SUBSET Cell
      BY <1>1, Widest
    <3> QED
      BY <2>1, <3>1 DEF ScreenGrab
  <2> QED
    BY <1>1, <2>1 DEF SubsystemNext, CheckResize, SurfaceResize, RefreshRequest, ServerWaits,
                      FrameUpdateReturns, shadowVars
<1>3. after' \in {"none", "clear"} /\ blank' \in BOOLEAN
  BY <1>1 DEF SubsystemNext, CheckResize, SurfaceResize, ScreenGrab, RefreshRequest,
              ServerWaits, FrameUpdateReturns, shadowVars
<1>4. refresh' \in 0..MaxRefresh
  <2>1. CASE RefreshRequest
    BY <1>1, <2>1, FrameUpdateAssumption DEF RefreshRequest
  <2>2. CASE ~RefreshRequest
    BY <1>1, <2>2 DEF SubsystemNext, CheckResize, ScreenGrab, ServerWaits,
                      FrameUpdateReturns, shadowVars
  <2> QED
    BY <2>1, <2>2
<1>5. FrameUpdateTypeOK'
  BY <1>2, <1>3, <1>4, SubsystemLeavesSessions DEF FrameUpdateTypeOK, IndInv
<1>6. SendFits'
  <2> SUFFICES ASSUME NEW c \in Client
               PROVE  /\ peer'[c].plan = "send" =>
                           peer'[c].activated /\ ~RecalcDesktopSize(peer[c])'
                      /\ peer'[c].activated /\ peer'[c].surface # 0
                           => peer'[c].surface = peer'[c].desktop
    BY DEF SendFits
  <2>1. SameSession(peer[c], peer'[c])
    BY SubsystemLeavesSessions
  <2>2. ASSUME peer'[c].plan = "send" PROVE width' = width
    <3>1. client[c] = "frame"
      BY <2>1, <2>2 DEF SameSession, FrameUpdateInv, SessionsOK
    <3> QED
      BY <3>1, SubsystemLeavesSessions
  <2> QED
    BY <2>1, <2>2 DEF FrameUpdateInv, SendFits, SameSession, RecalcDesktopSize, Viewport
<1>7. SessionsOK'
  BY SubsystemLeavesSessions DEF FrameUpdateInv, SessionsOK, SessionOK, SameSession
<1> QED
  BY <1>5, <1>6, <1>7 DEF FrameUpdateInv

(* A callback of a client thread, outside its work on a frame. *)
LEMMA CallbackInv ==
    ASSUME IndInv', FrameUpdateInv, NEW c \in Client, NEW p, NEW n \in {0, 1},
           Callback(c, p, n), PeerOK(p), p.plan = peer[c].plan
    PROVE  FrameUpdateInv'
<1>1. /\ client[c] = "loop" /\ peer' = [peer EXCEPT ![c] = p] /\ UNCHANGED client
      /\ UNCHANGED <<width, blank, damage, after>>
      /\ refresh' = refresh + n /\ refresh + n <= MaxRefresh
  BY DEF Callback, InLoop, mceVars
<1>2. p.plan = "none"
  BY <1>1 DEF FrameUpdateInv, SessionsOK
<1>3. refresh' \in 0..MaxRefresh
  BY <1>1, FrameUpdateAssumption DEF FrameUpdateInv, FrameUpdateTypeOK
<1> QED
  BY <1>1, <1>2, <1>3, PeerStepInv

(* The callbacks one by one. *)
LEMMA CallbacksInv ==
    ASSUME IndInv', FrameUpdateInv, 1 \in SubRect, NEW c \in Client,
           \/ \E w \in Width, gfx \in GfxModes : PostConnect(c, w, gfx)
           \/ Activate(c) \/ ActivateChecks(c) \/ ActivateResizes(c) \/ SuppressOutput(c)
           \/ \E area \in SUBSET Cell \ {{}} : AllowOutput(c, area)
           \/ \E areas \in SUBSET Cell : RefreshRect(c, areas)
           \/ OpenGfx(c) \/ CapsAdvertise(c)
    PROVE  FrameUpdateInv'
<1> DEFINE p == peer[c]
<1>1. PeerOK(p) /\ p \in PeerType /\ SessionOK(p) /\ width \in Width
  BY DEF FrameUpdateInv, FrameUpdateTypeOK, SendFits, SessionsOK, PeerOK
<1>2. ASSUME NEW w \in Width, NEW gfx \in GfxModes, PostConnect(c, w, gfx)
      PROVE  FrameUpdateInv'
  <2> DEFINE q == [p EXCEPT !.connected = TRUE, !.awaited = TRUE, !.desktop = w, !.gfx = gfx]
  <2>1. Callback(c, RefreshAll(q), 0) /\ ~p.connected
    BY <1>2 DEF PostConnect
  <2>2. q \in PeerType
    BY <1>1, FrameUpdateAssumption DEF PeerType
  <2>3. /\ q.connected /\ ~q.activated /\ q.surface = 0 /\ q.resized = 0 /\ q.checked = 0 /\ q.plan = p.plan
    BY <1>1, <2>1 DEF PeerType, SessionOK
  <2>4. PeerOK(q)
    BY <2>2, <2>3 DEF PeerOK, SessionOK
  <2> HIDE DEF q
  <2> QED
    BY <2>1, <2>3, <2>4, MarkInvalidOK, CallbackInv DEF RefreshAll
<1>3. CASE Activate(c)
  <2> DEFINE q == [p EXCEPT !.awaited = FALSE, !.activated = TRUE, !.resized = 0,
                            !.stale = Cell]
  <2>1. Callback(c, RefreshAll(q), 1) /\ p.awaited
    BY <1>3 DEF Activate
  <2>2. q \in PeerType
    BY <1>1 DEF PeerType
  <2>3. q.connected /\ ~q.awaited /\ q.surface = 0 /\ q.resized = 0 /\ q.plan = p.plan
    BY <1>1, <2>1 DEF PeerType, SessionOK
  <2>5. q.checked = 0
    BY <1>1, <2>1 DEF PeerType, Callback, InLoop
  <2>4. PeerOK(q)
    BY <2>2, <2>3, <2>5 DEF PeerOK, SessionOK
  <2> HIDE DEF q
  <2> QED
    BY <2>1, <2>3, <2>4, MarkInvalidOK, CallbackInv DEF RefreshAll
<1>12. CASE ActivateChecks(c)
  <2> DEFINE q == [p EXCEPT !.checked = width]
  <2>1. Callback(c, q, 0) /\ p.awaited /\ p.desktop # Cardinality(Viewport(width))
    BY <1>12 DEF ActivateChecks, RecalcDesktopSize
  <2>2. q \in PeerType
    BY <1>1 DEF PeerType
  <2>3. /\ q.connected = p.connected /\ q.awaited = p.awaited /\ q.activated = p.activated
        /\ q.surface = p.surface /\ q.resized = p.resized /\ q.desktop = p.desktop
        /\ q.checked = width /\ q.plan = p.plan
    BY <1>1 DEF PeerType
  <2>4. PeerOK(q)
    BY <1>1, <2>1, <2>2, <2>3 DEF PeerOK, SessionOK
  <2> HIDE DEF q
  <2> QED
    BY <2>1, <2>3, <2>4, CallbackInv
<1>4. CASE ActivateResizes(c)
  <2> DEFINE q == [SendDesktopResize(p) EXCEPT !.checked = 0]
  <2>1. /\ peer' = [peer EXCEPT ![c] = q] /\ p.checked # 0 /\ client[c] = "loop"
        /\ UNCHANGED <<client, width, blank, damage, after, refresh>>
    BY <1>4 DEF ActivateResizes, mceVars
  <2>2. p.connected /\ ~p.activated /\ p.surface = 0
    BY <1>1, <2>1 DEF PeerType, SessionOK
  <2>3. PeerOK(q) /\ q.plan = p.plan
    BY <1>1, <2>2, SendDesktopResizeOK
  <2>4. p.plan = "none" /\ refresh' \in 0..MaxRefresh
    BY <2>1 DEF FrameUpdateInv, FrameUpdateTypeOK, SessionsOK
  <2> HIDE DEF q
  <2> QED
    BY <2>1, <2>3, <2>4, PeerStepInv
<1>5. ASSUME NEW b \in BOOLEAN, NEW q, q = [p EXCEPT !.suppressOutput = b]
      PROVE  PeerOK(q) /\ q.plan = p.plan
  <2>1. q \in PeerType
    BY <1>1, <1>5 DEF PeerType
  <2>2. /\ q.connected = p.connected /\ q.awaited = p.awaited /\ q.activated = p.activated
        /\ q.surface = p.surface /\ q.resized = p.resized /\ q.desktop = p.desktop
        /\ q.checked = p.checked /\ q.plan = p.plan
    BY <1>1, <1>5 DEF PeerType
  <2> QED
    BY <1>1, <2>1, <2>2 DEF PeerOK, SessionOK
<1>6. CASE SuppressOutput(c)
  BY <1>5, <1>6, CallbackInv DEF SuppressOutput
<1>7. ASSUME NEW area \in SUBSET Cell, AllowOutput(c, area) PROVE FrameUpdateInv'
  <2> DEFINE q == [p EXCEPT !.suppressOutput = FALSE]
  <2>1. Callback(c, MarkInvalid(q, area), 1)
    BY <1>7, ConvertIsIdentity DEF AllowOutput
  <2>2. PeerOK(q) /\ q.plan = p.plan
    BY <1>5
  <2> HIDE DEF q
  <2> QED
    BY <2>1, <2>2, MarkInvalidOK, CallbackInv
<1>8. ASSUME NEW areas \in SUBSET Cell, RefreshRect(c, areas) PROVE FrameUpdateInv'
  <2>1. Callback(c, MarkInvalid(p, areas), 1)
    BY <1>8, ConvertIsIdentity DEF RefreshRect
  <2> QED
    BY <1>1, <2>1, MarkInvalidOK, CallbackInv
<1>9. ASSUME NEW g \in {"opened", "failed", "ready"}, NEW q, q = [p EXCEPT !.gfx = g]
      PROVE  PeerOK(q) /\ q.plan = p.plan
  <2>1. q \in PeerType
    BY <1>1, <1>9 DEF PeerType
  <2>2. /\ q.connected = p.connected /\ q.awaited = p.awaited /\ q.activated = p.activated
        /\ q.surface = p.surface /\ q.resized = p.resized /\ q.desktop = p.desktop
        /\ q.checked = p.checked /\ q.plan = p.plan
    BY <1>1, <1>9 DEF PeerType
  <2> QED
    BY <1>1, <2>1, <2>2 DEF PeerOK, SessionOK
<1>10. CASE OpenGfx(c)
  BY <1>9, <1>10, CallbackInv DEF OpenGfx
<1>11. CASE CapsAdvertise(c)
  <2> DEFINE q == [p EXCEPT !.gfx = "ready"]
  <2>1. Callback(c, RefreshAll(q), 1) /\ PeerOK(q) /\ q.plan = p.plan
    BY <1>9, <1>11 DEF CapsAdvertise
  <2> HIDE DEF q
  <2> QED
    BY <2>1, MarkInvalidOK, CallbackInv DEF RefreshAll
<1> QED
  BY <1>2, <1>3, <1>4, <1>6, <1>7, <1>8, <1>10, <1>11, <1>12

(* What a thread has done about a frame, whatever it had decided. *)
LEMMA FrameWorkOK ==
    ASSUME IndInv, FrameUpdateInv, NEW c \in Client, client[c] = "frame"
    PROVE  PeerOK(FrameWork(peer[c]))
<1> DEFINE p == peer[c]
<1>1. /\ PeerOK(p) /\ p \in PeerType /\ SessionOK(p) /\ width \in Width
      /\ damage \in SUBSET Cell /\ p.plan # "none"
  BY DEF FrameUpdateInv, FrameUpdateTypeOK, SendFits, SessionsOK, PeerOK
<1>2. p.plan \in {"save", "resize", "send"}
  BY <1>1 DEF PeerType
<1>3. CASE p.plan = "save"
  <2>1. FrameWork(p) = MarkInvalid(p, damage)
    BY <1>3 DEF FrameWork, NoSurfaceUpdate
  <2> QED
    BY <1>1, <2>1, MarkInvalidOK
<1>4. CASE p.plan = "resize"
  <2>1. FrameWork(p) = SendResize(p)
    BY <1>4 DEF FrameWork
  <2>2. p.connected /\ p.activated
    BY <1>1, <1>4 DEF FrameUpdateInv, SessionsOK, SessionOK
  <2> QED
    BY <1>1, <2>1, <2>2, SendResizeOK
<1>5. CASE p.plan = "send"
  <2>1. FrameWork(p) = SendSurfaceUpdate(p)
    BY <1>5 DEF FrameWork
  <2>2. p.activated
    BY <1>5 DEF FrameUpdateInv, SendFits
  <2> QED
    BY <1>1, <2>1, <2>2, SendSurfaceUpdateOK
<1> QED
  BY <1>2, <1>3, <1>4, <1>5

(* The steps of a client thread that touch the multi-client event. *)
LEMMA FrameStepsInv ==
    ASSUME IndInv, IndInv', FrameUpdateInv, NEW c \in Client,
           Accept(c) \/ BeginFrame(c) \/ FinishFrame(c) \/ PassBarrier(c) \/ Disconnect(c)
    PROVE  FrameUpdateInv'
<1> DEFINE p == peer[c]
<1>1. /\ PeerOK(p) /\ p \in PeerType /\ SessionOK(p) /\ peer \in [Client -> PeerType]
      /\ refresh \in 0..MaxRefresh
  BY DEF FrameUpdateInv, FrameUpdateTypeOK, SendFits, SessionsOK, PeerOK
<1>2. client \in [Client -> {"out", "loop", "frame", "barrier", "awake"}]
  BY DEF IndInv, TypeOK
<1>3. \A d \in Client : d # c => client'[d] = client[d]
  BY OnlyOneMoves DEF Accept, BeginFrame, FinishFrame, PassBarrier, Disconnect, ClientNext
<1>4. CASE Accept(c) \/ Disconnect(c)
  <2>1. /\ peer' = [peer EXCEPT ![c] = NewPeer] /\ client'[c] # "frame"
        /\ UNCHANGED <<width, blank, damage, after, refresh>>
    BY <1>2, <1>4 DEF Accept, Disconnect, GetSubscriber, ReleaseSubscriber, Consume
  <2> QED
    BY <1>1, <1>3, <2>1, NewPeerOK, PeerStepInv
<1>5. CASE BeginFrame(c)
  <2> DEFINE x == IF ~p.activated \/ p.suppressOutput THEN "save"
                  ELSE IF RecalcDesktopSize(p) THEN "resize" ELSE "send"
             q == [p EXCEPT !.plan = x]
  <2>1. /\ peer' = [peer EXCEPT ![c].plan = x] /\ client'[c] = "frame"
        /\ UNCHANGED <<width, blank, damage, after, refresh>>
    BY <1>2, <1>5 DEF BeginFrame, StartFrame
  <2>2. /\ x \in {"save", "resize", "send"} /\ (x # "save" => p.activated)
        /\ x = "send" => ~RecalcDesktopSize(p)
    OBVIOUS
  <2> HIDE DEF x
  <2>3. q \in PeerType
    BY <1>1, <2>2 DEF PeerType
  <2>4. SameSessionButPlan(p, q) /\ q.plan = x
    BY <1>1 DEF PeerType, SameSessionButPlan
  <2>5. PeerOK(q)
    BY <1>1, <2>3, <2>4 DEF PeerOK, SessionOK, SameSessionButPlan
  <2>6. peer' = [peer EXCEPT ![c] = q]
    BY <1>1, <2>1
  <2>7. RecalcDesktopSize(q) <=> RecalcDesktopSize(p)
    BY <2>4 DEF RecalcDesktopSize, SameSessionButPlan
  <2>8. q.activated = p.activated
    BY <2>4 DEF SameSessionButPlan
  <2> HIDE DEF q
  <2> QED
    BY <1>1, <1>3, <2>1, <2>2, <2>4, <2>5, <2>6, <2>7, <2>8, PeerStepInv
<1>6. CASE FinishFrame(c)
  <2> DEFINE r == FrameWork(p)
             q == [r EXCEPT !.plan = "none"]
  <2>1. /\ peer' = [peer EXCEPT ![c] = q] /\ client[c] = "frame" /\ client'[c] # "frame"
        /\ client'[c] # "out" /\ UNCHANGED <<width, blank, damage, after, refresh>>
    BY <1>2, <1>6 DEF FinishFrame, ConsumeFrame, Consume
  <2>2. PeerOK(r)
    BY <2>1, FrameWorkOK
  <2> HIDE DEF r
  <2>3. q \in PeerType /\ q.plan = "none"
    BY <2>2 DEF PeerOK, PeerType
  <2>4. SameSessionButPlan(r, q)
    BY <2>2 DEF PeerOK, PeerType, SameSessionButPlan
  <2>5. PeerOK(q)
    BY <2>2, <2>3, <2>4 DEF PeerOK, SessionOK, SameSessionButPlan
  <2> HIDE DEF q
  <2> QED
    BY <1>1, <1>3, <2>1, <2>3, <2>5, PeerStepInv
<1>7. CASE PassBarrier(c)
  <2>1. /\ client[c] \in {"barrier", "awake"} /\ client'[c] \in {"awake", "loop"}
        /\ UNCHANGED shadowVars
    BY <1>2, <1>7 DEF PassBarrier, LeaveBarrier, ResumeConsume
  <2>2. peer' = [peer EXCEPT ![c] = p] /\ p.plan = "none"
    BY <1>1, <2>1 DEF shadowVars, FrameUpdateInv, SessionsOK
  <2> HIDE DEF p
  <2> QED
    BY <1>1, <1>3, <2>1, <2>2, PeerStepInv DEF shadowVars
<1> QED
  BY <1>4, <1>5, <1>6, <1>7

(* Every step keeps FrameUpdateInv, where the shared part starts at the    *)
(* edge of the screen.                                                     *)
LEMMA FrameUpdateStep ==
    ASSUME 1 \in SubRect, IndInv, IndInv', FrameUpdateInv, [NextFrameUpdate]_vars
    PROVE  FrameUpdateInv'
<1>1. CASE SubsystemNext
  BY <1>1, SubsystemInv
<1>2. ASSUME NEW c \in Client, PeerNext(c) PROVE FrameUpdateInv'
  BY <1>2, CallbacksInv, FrameStepsInv DEF PeerNext
<1>3. CASE UNCHANGED vars
  BY <1>3 DEF vars, mceVars, shadowVars, FrameUpdateInv, FrameUpdateTypeOK, TypeOK, SendFits,
              SessionsOK, SessionOK, RecalcDesktopSize, Viewport
<1> QED
  BY <1>1, <1>2, <1>3 DEF NextFrameUpdate

(* Where the shared part starts at the edge of the screen (the whole       *)
(* screen, unless the server was told to share less), for any number of    *)
(* clients and any widths: no region leaves the screen, an update is only  *)
(* sent to an activated client that has the size of the shared part, a     *)
(* graphics surface has its client's size, and nothing is sent before the  *)
(* client is activated (shadow_client.c).                                  *)
THEOREM FrameUpdateInvariance == 1 \in SubRect => (FrameUpdateSpec => []FrameUpdateInv)
<1> SUFFICES ASSUME 1 \in SubRect PROVE FrameUpdateSpec => []FrameUpdateInv
  OBVIOUS
<1>1. InitFrameUpdate => FrameUpdateInv
  <2> SUFFICES ASSUME InitFrameUpdate PROVE FrameUpdateInv
    OBVIOUS
  <2>1. TypeOK
    BY InitInv DEF InitFrameUpdate, IndInv
  <2>2. FrameUpdateTypeOK
    BY <2>1, NewPeerOK, FrameUpdateAssumption DEF InitFrameUpdate, FrameUpdateTypeOK, PeerOK
  <2>3. SendFits /\ SessionsOK
    BY NewPeerOK DEF InitFrameUpdate, Init, SendFits, SessionsOK, PeerOK, SessionOK
  <2> QED
    BY <2>2, <2>3 DEF FrameUpdateInv
<1>2. IndInv /\ IndInv' /\ FrameUpdateInv /\ [NextFrameUpdate]_vars => FrameUpdateInv'
  BY FrameUpdateStep
<1> QED
  BY <1>1, <1>2, FrameUpdateEvent, PTL DEF FrameUpdateSpec

-----------------------------------------------------------------------------
(***************************************************************************)
(* No damage is lost, and who obeys is refused by a race only, where the   *)
(* whole screen is shared (the server's default).                          *)
(***************************************************************************)

(* All of a surface is shared. *)
LEMMA WholeScreen ==
    ASSUME SubRect = Cell, NEW w \in Width
    PROVE  Viewport(w) = 1..w /\ Cardinality(Viewport(w)) = w
<1>1. w \in Nat \ {0} /\ 1..w \subseteq Cell
  BY Widest
<1>2. Viewport(w) = 1..w
  BY <1>1 DEF Viewport
<1>3. Cardinality(1..w) = w
  BY <1>1, FS_Interval
<1> QED
  BY <1>2, <1>3

(* A region is within its extents. *)
LEMMA ExtentsCover ==
    ASSUME NEW region \in SUBSET Cell
    PROVE  region \subseteq Extents(region)
<1>1. Cell \subseteq Nat
  BY Widest DEF Cell
<1> QED
  BY <1>1 DEF Extents

(* What a client p that gets pictures of the surface does not show is kept *)
(* for it: in its own region, or in the damage d of a round it owes.       *)
Kept(p, owes, d, w) ==
    p.activated /\ p.gfx \in {"off", "ready"} /\ p.desktop = w =>
        p.stale \cap (1..w) \subseteq p.invalid \cup (IF owes THEN d ELSE {})

(* NoLostDamage, with the whole screen shared. *)
LEMMA LostDamageMeansKept ==
    ASSUME SubRect = Cell, width \in Width
    PROVE  NoLostDamage <=>
               (~blank => \A c \in Client : Kept(peer[c], c \in Owing, damage, width))
<1>1. Viewport(width) = 1..width /\ Cardinality(Viewport(width)) = width
  BY WholeScreen
<1> QED
  BY <1>1 DEF NoLostDamage, Viewing, Stale, RecalcDesktopSize, Kept

(* Growing the client's own region, or its share of the round, loses       *)
(* nothing.                                                                *)
LEMMA KeptGrows ==
    ASSUME NEW p, NEW q, NEW owes, NEW owed, NEW d, NEW w,
           Kept(p, owes, d, w), owes => owed,
           q.activated = p.activated, q.gfx = p.gfx, q.desktop = p.desktop,
           q.stale = p.stale, p.invalid \subseteq q.invalid
    PROVE  Kept(q, owed, d, w)
  BY DEF Kept

(* The subsystem thread. *)
LEMMA SubsystemKeeps ==
    ASSUME SubRect = Cell, IndInv, FrameUpdateInv, NoLostDamage, SubsystemNext
    PROVE  NoLostDamage'
<1>1. /\ peer \in [Client -> PeerType] /\ width \in Width /\ damage \in SUBSET Cell
      /\ blank \in BOOLEAN
  BY DEF FrameUpdateInv, FrameUpdateTypeOK
<1>2. width' \in Width
  BY SubsystemLeavesSessions
<1>3. ~blank => \A c \in Client : Kept(peer[c], c \in Owing, damage, width)
  BY <1>1, LostDamageMeansKept
<1>4. NoLostDamage' <=>
        (~blank' => \A c \in Client : Kept(peer'[c], c \in Owing', damage', width'))
  <2>1. Viewport(width') = 1..width' /\ Cardinality(Viewport(width')) = width'
    BY <1>2, WholeScreen
  <2> QED
    BY <2>1 DEF NoLostDamage, Viewing, Stale, RecalcDesktopSize, Kept, Viewport
<1>5. ASSUME server # "wait" PROVE Owing = {} /\ ~event
  BY <1>5, QuietServer
<1>6. ASSUME NEW w \in Width, CheckResize(w) PROVE NoLostDamage'
  BY <1>4, <1>6 DEF CheckResize, SurfaceResize
<1>7. ASSUME NEW changed \in SUBSET (1..width), ScreenGrab(changed) PROVE NoLostDamage'
  <2>1. /\ server = "idle" /\ width' = width /\ client' = client
        /\ peer' = [c \in Client |-> [peer[c] EXCEPT !.stale = peer[c].stale \cup changed]]
        /\ blank => changed = 1..width
        /\ PublishAndWait
        /\ damage' = IF server' = "wait"
                     THEN (damage \cup Extents(changed)) \cap (1..width) ELSE {}
    BY <1>7 DEF ScreenGrab, PublishAndWait
  <2>2. changed \subseteq Extents(changed)
    BY <1>1, ExtentsCover, Widest
  <2> SUFFICES ASSUME NEW c \in Client PROVE Kept(peer'[c], c \in Owing', damage', width')
    BY <1>4
  <2>3. SameSession(peer[c], peer'[c]) /\ peer'[c].stale = peer[c].stale \cup changed
    BY <1>1, <2>1, SubsystemLeavesSessions, <1>7 DEF SubsystemNext, PeerType
  <2>4. ASSUME peer[c].activated PROVE c \in Owing' /\ server' = "wait"
    <3>1. client[c] # "out"
      BY <2>4 DEF FrameUpdateInv, SessionsOK, SessionOK
    <3>2. client[c] = "loop"
      <4>1. ~event /\ c \notin Held
        BY <2>1, QuietServer
      <4>2. client[c] # "frame" /\ client[c] \in {"out", "loop", "frame", "barrier", "awake"}
        BY <4>1 DEF IndInv, SubscribersOK, TypeOK
      <4> QED
        BY <3>1, <4>1, <4>2 DEF Held
    <3>3. c \in subscribers
      BY <3>1 DEF IndInv, SubscribersOK
    <3>4. Cardinality(subscribers) \in Nat /\ Cardinality(subscribers) # 0
      BY <3>3, ClientFinite, FS_Subset, FS_EmptySet, FS_CardinalityType
         DEF IndInv, TypeOK
    <3>5. consuming' > 0
      BY <2>1, <3>4 DEF PublishAndWait, Publish, IndInv, TypeOK
    <3> QED
      BY <2>1, <3>2, <3>5 DEF PublishAndWait, Publish, Owing
  <2>5. ASSUME peer[c].activated, peer[c].gfx \in {"off", "ready"}, peer[c].desktop = width
        PROVE  peer'[c].stale \cap (1..width) \subseteq peer'[c].invalid \cup damage'
    <3>1. changed \subseteq damage'
      BY <2>1, <2>2, <2>4, <2>5
    <3>2. CASE blank
      BY <2>1, <3>1, <3>2
    <3>3. CASE ~blank
      <4>1. peer[c].stale \cap (1..width) \subseteq peer[c].invalid
        BY <1>3, <1>5, <2>1, <2>5, <3>3 DEF Kept
      <4> QED
        BY <2>3, <3>1, <4>1 DEF SameSession
    <3> QED
      BY <3>2, <3>3
  <2> QED
    BY <2>1, <2>3, <2>4, <2>5 DEF Kept, SameSession
<1>8. CASE RefreshRequest \/ FrameUpdateReturns
  <2>1. UNCHANGED <<width, blank, peer>> /\ Owing = {}
    BY <1>5, <1>8 DEF RefreshRequest, FrameUpdateReturns, PublishAndWait, ServerReturns
  <2> SUFFICES ASSUME ~blank, NEW c \in Client
               PROVE  Kept(peer[c], c \in Owing', damage', width)
    BY <1>4, <2>1
  <2>2. Kept(peer[c], FALSE, damage, width)
    BY <1>3, <2>1 DEF Kept
  <2> QED
    BY <2>2 DEF Kept
<1>9. CASE ServerWaits
  <2>1. UNCHANGED shadowVars /\ Owing' = Owing
    BY <1>9 DEF ServerWaits, ServerWakes, Owing
  <2> QED
    BY <1>3, <1>4, <2>1 DEF shadowVars
<1> QED
  BY <1>6, <1>7, <1>8, <1>9 DEF SubsystemNext

(* A step of one client thread loses nothing, if it does not for that      *)
(* client.                                                                 *)
LEMMA PeerKeeps ==
    ASSUME SubRect = Cell, FrameUpdateInv, NoLostDamage, NEW c \in Client,
           UNCHANGED <<width, blank, damage>>,
           \A d \in Client : d # c => peer'[d] = peer[d] /\ (d \in Owing' <=> d \in Owing),
           ~blank /\ Kept(peer[c], c \in Owing, damage, width)
               => Kept(peer'[c], c \in Owing', damage, width)
    PROVE  NoLostDamage'
<1>1. width \in Width
  BY DEF FrameUpdateInv, FrameUpdateTypeOK
<1>2. ~blank => \A d \in Client : Kept(peer[d], d \in Owing, damage, width)
  BY <1>1, LostDamageMeansKept
<1>3. Viewport(width) = 1..width /\ Cardinality(Viewport(width)) = width
  BY <1>1, WholeScreen
<1>4. ASSUME ~blank, NEW d \in Client PROVE Kept(peer'[d], d \in Owing', damage, width)
  <2>1. CASE d = c
    BY <1>2, <1>4, <2>1
  <2>2. CASE d # c
    <3>1. Kept(peer[d], d \in Owing, damage, width)
      BY <1>2, <1>4
    <3> QED
      BY <2>2, <3>1
  <2> QED
    BY <2>1, <2>2
<1> QED
  BY <1>3, <1>4 DEF NoLostDamage, Viewing, Stale, RecalcDesktopSize, Kept, Viewport

(* What MarkInvalid adds: the rectangles, or the full screen for none. *)
LEMMA MarkInvalidMarks ==
    ASSUME NEW p \in PeerType, NEW rects \in SUBSET Cell
    PROVE  LET q == MarkInvalid(p, rects)
           IN  /\ q.activated = p.activated /\ q.gfx = p.gfx /\ q.desktop = p.desktop
               /\ q.stale = p.stale /\ p.invalid \subseteq q.invalid
               /\ rects \subseteq q.invalid
               /\ rects = {} => 1..p.desktop \subseteq q.invalid
<1> DEFINE q == MarkInvalid(p, rects)
           i == p.invalid \cup (IF rects = {} THEN FullScreen(p) ELSE rects)
<1>1. p.invalid \subseteq i /\ rects \subseteq i /\ (rects = {} => 1..p.desktop \subseteq i)
  BY DEF FullScreen
<1>2. q = [p EXCEPT !.invalid = i]
  BY DEF MarkInvalid
<1> HIDE DEF q, i
<1>3. /\ q.activated = p.activated /\ q.gfx = p.gfx /\ q.desktop = p.desktop
      /\ q.stale = p.stale /\ q.invalid = i
  BY <1>2 DEF PeerType
<1> QED
  BY <1>1, <1>3 DEF q

(* Who is told to refresh all of its screen has nothing to lose. *)
LEMMA RefreshAllKeeps ==
    ASSUME NEW p \in PeerType, NEW owes, NEW d, NEW w
    PROVE  Kept(RefreshAll(p), owes, d, w)
<1>1. /\ RefreshAll(p).desktop = p.desktop
      /\ 1..p.desktop \subseteq RefreshAll(p).invalid
  BY MarkInvalidMarks DEF RefreshAll
<1> QED
  BY <1>1 DEF Kept

(* The callbacks of a client thread. *)
LEMMA CallbacksKeep ==
    ASSUME SubRect = Cell, FrameUpdateInv, NoLostDamage, NEW c \in Client,
           \/ \E w \in Width, gfx \in GfxModes : PostConnect(c, w, gfx)
           \/ Activate(c) \/ ActivateChecks(c) \/ ActivateResizes(c) \/ SuppressOutput(c)
           \/ \E area \in SUBSET Cell \ {{}} : AllowOutput(c, area)
           \/ \E areas \in SUBSET Cell : RefreshRect(c, areas)
           \/ OpenGfx(c) \/ CapsAdvertise(c)
    PROVE  NoLostDamage'
<1> DEFINE p == peer[c]
<1>1. /\ p \in PeerType /\ SessionOK(p) /\ width \in Width
      /\ peer \in [Client -> PeerType]
  BY DEF FrameUpdateInv, FrameUpdateTypeOK, SessionsOK
<1>2. 1 \in SubRect
  BY Widest DEF Cell
<1>3. ASSUME NEW q, NEW n, Callback(c, q, n),
             ~blank /\ Kept(p, c \in Owing, damage, width)
                 => Kept(q, c \in Owing, damage, width)
      PROVE  NoLostDamage'
  <2>1. /\ peer' = [peer EXCEPT ![c] = q] /\ Owing' = Owing
        /\ UNCHANGED <<width, blank, damage>>
    BY <1>3 DEF Callback, mceVars, Owing
  <2>2. peer'[c] = q /\ \A d \in Client : d # c => peer'[d] = peer[d]
    BY <1>1, <2>1
  <2> HIDE DEF p
  <2>3. Kept(peer[c], c \in Owing, damage, width) <=> Kept(p, c \in Owing, damage, width)
    BY DEF p
  <2> QED
    BY <1>3, <2>1, <2>2, <2>3, PeerKeeps
<1>4. ASSUME NEW w \in Width, NEW gfx \in GfxModes, PostConnect(c, w, gfx)
      PROVE  NoLostDamage'
  <2> DEFINE q == [p EXCEPT !.connected = TRUE, !.awaited = TRUE, !.desktop = w, !.gfx = gfx]
  <2>1. Callback(c, RefreshAll(q), 0)
    BY <1>4 DEF PostConnect
  <2>2. q \in PeerType
    BY <1>1, FrameUpdateAssumption DEF PeerType
  <2> HIDE DEF q
  <2>3. Kept(RefreshAll(q), c \in Owing, damage, width)
    BY <2>2, RefreshAllKeeps
  <2> QED
    BY <1>3, <2>1, <2>3
<1>5. CASE Activate(c)
  <2> DEFINE q == [p EXCEPT !.awaited = FALSE, !.activated = TRUE, !.resized = 0,
                            !.stale = Cell]
  <2>1. Callback(c, RefreshAll(q), 1)
    BY <1>5 DEF Activate
  <2>2. q \in PeerType
    BY <1>1 DEF PeerType
  <2> HIDE DEF q
  <2>3. Kept(RefreshAll(q), c \in Owing, damage, width)
    BY <2>2, RefreshAllKeeps
  <2> QED
    BY <1>3, <2>1, <2>3
<1>13. CASE ActivateChecks(c)
  <2> DEFINE q == [p EXCEPT !.checked = width]
  <2>1. Callback(c, q, 0)
    BY <1>13 DEF ActivateChecks
  <2>2. /\ q.activated = p.activated /\ q.gfx = p.gfx /\ q.desktop = p.desktop
        /\ q.stale = p.stale /\ q.invalid = p.invalid
    BY <1>1 DEF PeerType
  <2> HIDE DEF q
  <2>3. Kept(p, c \in Owing, damage, width) => Kept(q, c \in Owing, damage, width)
    BY <2>2, KeptGrows
  <2> QED
    BY <1>3, <2>1, <2>3
<1>6. CASE ActivateResizes(c)
  <2> DEFINE q == [SendDesktopResize(p) EXCEPT !.checked = 0]
  <2>1. /\ peer' = [peer EXCEPT ![c] = q] /\ p.checked # 0 /\ Owing' = Owing
        /\ UNCHANGED <<width, blank, damage>>
    BY <1>6 DEF ActivateResizes, mceVars, Owing
  <2>2. ~q.activated
    <3>1. p.connected /\ ~p.activated /\ p.surface = 0
      BY <1>1, <2>1 DEF PeerType, SessionOK
    <3> QED
      BY <1>1, <3>1, SendDesktopResizeOK
  <2> HIDE DEF q
  <2>3. Kept(q, c \in Owing, damage, width)
    BY <2>2 DEF Kept
  <2>4. peer'[c] = q /\ \A d \in Client : d # c => peer'[d] = peer[d]
    BY <1>1, <2>1
  <2> QED
    BY <2>1, <2>3, <2>4, PeerKeeps
<1>7. ASSUME NEW b \in BOOLEAN, NEW q, q = [p EXCEPT !.suppressOutput = b]
      PROVE  /\ q \in PeerType
             /\ q.activated = p.activated /\ q.gfx = p.gfx /\ q.desktop = p.desktop
             /\ q.stale = p.stale /\ q.invalid = p.invalid
  BY <1>1, <1>7 DEF PeerType
<1>8. CASE SuppressOutput(c)
  <2> DEFINE q == [p EXCEPT !.suppressOutput = TRUE]
  <2>1. Callback(c, q, 1)
    BY <1>8 DEF SuppressOutput
  <2>2. /\ q.activated = p.activated /\ q.gfx = p.gfx /\ q.desktop = p.desktop
        /\ q.stale = p.stale /\ q.invalid = p.invalid
    BY <1>7
  <2> HIDE DEF q
  <2>3. Kept(p, c \in Owing, damage, width) => Kept(q, c \in Owing, damage, width)
    BY <2>2, KeptGrows
  <2> QED
    BY <1>3, <2>1, <2>3
<1>9. ASSUME NEW area \in SUBSET Cell, AllowOutput(c, area) PROVE NoLostDamage'
  <2> DEFINE r == [p EXCEPT !.suppressOutput = FALSE]
             q == MarkInvalid(r, area)
  <2>1. Callback(c, q, 1)
    BY <1>2, <1>9, ConvertIsIdentity DEF AllowOutput
  <2>2. /\ r \in PeerType
        /\ r.activated = p.activated /\ r.gfx = p.gfx /\ r.desktop = p.desktop
        /\ r.stale = p.stale /\ r.invalid = p.invalid
    BY <1>7
  <2> HIDE DEF r
  <2>3. /\ q.activated = p.activated /\ q.gfx = p.gfx /\ q.desktop = p.desktop
        /\ q.stale = p.stale /\ p.invalid \subseteq q.invalid
    BY <2>2, MarkInvalidMarks
  <2> HIDE DEF q
  <2>4. Kept(p, c \in Owing, damage, width) => Kept(q, c \in Owing, damage, width)
    BY <2>3, KeptGrows
  <2> QED
    BY <1>3, <2>1, <2>4
<1>10. ASSUME NEW areas \in SUBSET Cell, RefreshRect(c, areas) PROVE NoLostDamage'
  <2> DEFINE q == MarkInvalid(p, areas)
  <2>1. Callback(c, q, 1)
    BY <1>2, <1>10, ConvertIsIdentity DEF RefreshRect
  <2>2. /\ q.activated = p.activated /\ q.gfx = p.gfx /\ q.desktop = p.desktop
        /\ q.stale = p.stale /\ p.invalid \subseteq q.invalid
    BY <1>1, MarkInvalidMarks
  <2> HIDE DEF q
  <2>3. Kept(p, c \in Owing, damage, width) => Kept(q, c \in Owing, damage, width)
    BY <2>2, KeptGrows
  <2> QED
    BY <1>3, <2>1, <2>3
<1>11. CASE OpenGfx(c)
  <2>1. PICK g \in {"opened", "failed"} : Callback(c, [p EXCEPT !.gfx = g], 0)
    BY <1>11 DEF OpenGfx
  <2>2. [p EXCEPT !.gfx = g].gfx = g
    BY <1>1 DEF PeerType
  <2>3. Kept([p EXCEPT !.gfx = g], c \in Owing, damage, width)
    BY <2>2 DEF Kept
  <2> QED
    BY <1>3, <2>1, <2>3
<1>12. CASE CapsAdvertise(c)
  <2> DEFINE q == [p EXCEPT !.gfx = "ready"]
  <2>1. Callback(c, RefreshAll(q), 1)
    BY <1>12 DEF CapsAdvertise
  <2>2. q \in PeerType
    BY <1>1 DEF PeerType
  <2> HIDE DEF q
  <2>3. Kept(RefreshAll(q), c \in Owing, damage, width)
    BY <2>2, RefreshAllKeeps
  <2> QED
    BY <1>3, <2>1, <2>3
<1> QED
  BY <1>4, <1>5, <1>6, <1>8, <1>9, <1>10, <1>11, <1>12, <1>13

(* After shadow_client_send_surface_update a client that gets pictures     *)
(* shows all of the surface as it is.                                      *)
LEMMA SendShowsAll ==
    ASSUME SubRect = Cell, NEW p, p \in PeerType, width \in Width, damage \in SUBSET Cell,
           p.desktop = width, p.gfx \in {"off", "ready"}, Kept(p, TRUE, damage, width),
           p.activated
    PROVE  SendSurfaceUpdate(p).stale \cap (1..width) = {}
<1> DEFINE region == (p.invalid \cup damage) \cap Viewport(width)
           taken == [p EXCEPT !.invalid = {}]
           shown == [taken EXCEPT !.surface = IF @ = 0 THEN p.desktop ELSE @,
                                  !.stale = @ \ ConvertRects(1..p.desktop)]
           drawn == [taken EXCEPT !.stale = @ \ Extents(region)]
<1>1. p.stale \cap (1..width) \subseteq p.invalid \cup damage
  BY DEF Kept
<1>2. region = (p.invalid \cup damage) \cap (1..width) /\ region \in SUBSET Cell
  BY WholeScreen, Widest
<1>3. taken.stale = p.stale
  BY DEF PeerType
<1>4. shown.stale = p.stale \ (1..width)
  <2>1. 1 \in SubRect /\ 1..p.desktop \in SUBSET Cell
    BY Widest DEF Cell
  <2> QED
    BY <2>1, ConvertIsIdentity DEF PeerType
<1>5. drawn.stale = p.stale \ Extents(region)
  BY DEF PeerType
<1>6. region \subseteq Extents(region)
  BY <1>2, ExtentsCover
<1>7. /\ region = {} => SendSurfaceUpdate(p) = taken
      /\ region # {} => SendSurfaceUpdate(p) \in {shown, drawn}
  BY DEF SendSurfaceUpdate
<1> HIDE DEF region, taken, shown, drawn
<1>8. CASE region = {}
  BY <1>1, <1>2, <1>3, <1>7, <1>8
<1>9. CASE region # {}
  <2>1. shown.stale \cap (1..width) = {}
    BY <1>4
  <2>2. drawn.stale \cap (1..width) = {}
    BY <1>1, <1>2, <1>5, <1>6
  <2> QED
    BY <1>7, <1>9, <2>1, <2>2
<1> QED
  BY <1>8, <1>9

(* What a thread has done about a frame keeps what it did not send,        *)
(* whether or not it owes a share of a later round.                        *)
LEMMA FrameWorkKeeps ==
    ASSUME SubRect = Cell, IndInv, FrameUpdateInv, NEW c \in Client, client[c] = "frame",
           Kept(peer[c], TRUE, damage, width), NEW owes
    PROVE  Kept(FrameWork(peer[c]), owes, damage, width)
<1> DEFINE p == peer[c]
<1>1. /\ PeerOK(p) /\ p \in PeerType /\ width \in Width
      /\ damage \in SUBSET Cell /\ p.plan # "none"
  BY DEF FrameUpdateInv, FrameUpdateTypeOK, SendFits, SessionsOK, PeerOK
<1>2. p.plan \in {"save", "resize", "send"}
  BY <1>1 DEF PeerType
<1>3. CASE p.plan = "save"
  <2> DEFINE q == MarkInvalid(p, damage)
  <2>1. FrameWork(p) = q
    BY <1>3 DEF FrameWork, NoSurfaceUpdate
  <2>2. /\ q.activated = p.activated /\ q.gfx = p.gfx /\ q.desktop = p.desktop
        /\ q.stale = p.stale /\ p.invalid \subseteq q.invalid /\ damage \subseteq q.invalid
    BY <1>1, MarkInvalidMarks
  <2> HIDE DEF q
  <2>3. Kept(q, owes, damage, width)
    BY <2>2 DEF Kept
  <2> QED
    BY <2>1, <2>3
<1>4. CASE p.plan = "resize"
  <2>1. FrameWork(p) = SendResize(p)
    BY <1>4 DEF FrameWork
  <2>2. p.connected /\ p.activated
    BY <1>1, <1>4 DEF FrameUpdateInv, SessionsOK, SessionOK
  <2>3. ~SendResize(p).activated
    BY <1>1, <2>2, SendResizeOK
  <2> QED
    BY <2>1, <2>3 DEF Kept
<1>5. CASE p.plan = "send"
  <2> DEFINE q == SendSurfaceUpdate(p)
  <2>1. FrameWork(p) = q
    BY <1>5 DEF FrameWork
  <2>2. p.activated
    BY <1>5 DEF FrameUpdateInv, SendFits
  <2>3. q.gfx = p.gfx /\ q.desktop = p.desktop
    BY <1>1, <2>2, SendSurfaceUpdateOK
  <2>4. p.gfx \in {"off", "ready"} /\ p.desktop = width => q.stale \cap (1..width) = {}
    BY <1>1, <2>2, SendShowsAll
  <2> HIDE DEF q
  <2>5. Kept(q, owes, damage, width)
    BY <2>3, <2>4 DEF Kept
  <2> QED
    BY <2>1, <2>5
<1> QED
  BY <1>2, <1>3, <1>4, <1>5

(* The steps of a client thread that touch the multi-client event. *)
LEMMA FrameStepsKeep ==
    ASSUME SubRect = Cell, IndInv, FrameUpdateInv, NoLostDamage, NEW c \in Client,
           Accept(c) \/ BeginFrame(c) \/ FinishFrame(c) \/ PassBarrier(c) \/ Disconnect(c)
    PROVE  NoLostDamage'
<1> DEFINE p == peer[c]
<1>1. p \in PeerType /\ peer \in [Client -> PeerType]
  BY DEF FrameUpdateInv, FrameUpdateTypeOK
<1>2. client \in [Client -> {"out", "loop", "frame", "barrier", "awake"}]
  BY DEF IndInv, TypeOK
<1>3. \A d \in Client : d # c => (d \in Owing' <=> d \in Owing)
  BY OnlyOneMoves DEF Accept, BeginFrame, FinishFrame, PassBarrier, Disconnect, ClientNext
<1>4. ASSUME NEW q, peer' = [peer EXCEPT ![c] = q], UNCHANGED <<width, blank, damage>>,
             Kept(peer[c], c \in Owing, damage, width) => Kept(q, c \in Owing', damage, width)
      PROVE  NoLostDamage'
  <2>1. peer'[c] = q /\ \A d \in Client : d # c => peer'[d] = peer[d]
    BY <1>1, <1>4
  <2> QED
    BY <1>3, <1>4, <2>1, PeerKeeps
<1>5. CASE Accept(c) \/ Disconnect(c)
  <2>1. peer' = [peer EXCEPT ![c] = NewPeer] /\ UNCHANGED <<width, blank, damage>>
    BY <1>5 DEF Accept, Disconnect
  <2>2. Kept(NewPeer, c \in Owing', damage, width)
    BY DEF Kept, NewPeer
  <2> QED
    BY <1>4, <2>1, <2>2
<1>6. CASE BeginFrame(c)
  <2>1. PICK x \in {"save", "resize", "send"} : peer' = [peer EXCEPT ![c].plan = x]
    BY <1>6 DEF BeginFrame
  <2> DEFINE q == [p EXCEPT !.plan = x]
  <2>2. peer' = [peer EXCEPT ![c] = q]
    BY <1>1, <2>1
  <2>3. UNCHANGED <<width, blank, damage>> /\ (c \in Owing => c \in Owing')
    BY <1>2, <1>6 DEF BeginFrame, StartFrame, Owing
  <2>4. SameSessionButPlan(p, q)
    BY <1>1 DEF PeerType, SameSessionButPlan
  <2> HIDE DEF q
  <2>5. Kept(p, c \in Owing, damage, width) => Kept(q, c \in Owing', damage, width)
    BY <2>3, <2>4 DEF SameSessionButPlan, Kept
  <2> QED
    BY <1>4, <2>2, <2>3, <2>5
<1>7. CASE FinishFrame(c)
  <2> DEFINE r == FrameWork(p)
             q == [r EXCEPT !.plan = "none"]
  <2>1. /\ peer' = [peer EXCEPT ![c] = q] /\ client[c] = "frame"
        /\ UNCHANGED <<width, blank, damage>>
    BY <1>7 DEF FinishFrame, ConsumeFrame
  <2>2. PeerOK(r) /\ c \in Owing
    BY <2>1, FrameWorkOK, FrameHoldsServer
  <2>3. Kept(p, TRUE, damage, width) => Kept(r, c \in Owing', damage, width)
    BY <2>1, FrameWorkKeeps
  <2> HIDE DEF r
  <2>4. SameSessionButPlan(r, q)
    BY <2>2 DEF PeerOK, PeerType, SameSessionButPlan
  <2> HIDE DEF q
  <2>5. Kept(r, c \in Owing', damage, width) => Kept(q, c \in Owing', damage, width)
    BY <2>4, KeptGrows DEF SameSessionButPlan
  <2>6. Kept(p, c \in Owing, damage, width) => Kept(p, TRUE, damage, width)
    BY <2>2 DEF Kept
  <2> QED
    BY <1>4, <2>1, <2>3, <2>5, <2>6
<1>8. CASE PassBarrier(c)
  <2>1. client[c] \in {"barrier", "awake"} /\ UNCHANGED shadowVars
    BY <1>8 DEF PassBarrier, LeaveBarrier, ResumeConsume
  <2>2. peer' = [peer EXCEPT ![c] = p] /\ UNCHANGED <<width, blank, damage>>
    BY <1>1, <2>1 DEF shadowVars
  <2>3. c \notin Owing
    BY <2>1 DEF Owing
  <2>4. Kept(p, c \in Owing, damage, width) => Kept(p, c \in Owing', damage, width)
    BY <2>3 DEF Kept
  <2> HIDE DEF p
  <2>5. Kept(peer[c], c \in Owing, damage, width) => Kept(p, c \in Owing', damage, width)
    BY <2>4 DEF p
  <2> QED
    BY <1>4, <2>2, <2>5
<1> QED
  BY <1>5, <1>6, <1>7, <1>8

(* With the whole screen shared, for any number of clients and any widths, *)
(* no damage is lost between x11_shadow_screen_grab and a client: what a   *)
(* viewing client does not show is in its own region, or in the damage of  *)
(* the round it has still to handle, or the surface has to be grabbed.     *)
THEOREM DamageKept == SubRect = Cell => (FrameUpdateSpec => []NoLostDamage)
<1> SUFFICES ASSUME SubRect = Cell PROVE FrameUpdateSpec => []NoLostDamage
  OBVIOUS
<1>1. InitFrameUpdate => NoLostDamage
  BY DEF InitFrameUpdate, NoLostDamage
<1>2. ASSUME IndInv, FrameUpdateInv, NoLostDamage, [NextFrameUpdate]_vars
      PROVE  NoLostDamage'
  <2>1. CASE SubsystemNext
    BY <1>2, <2>1, SubsystemKeeps
  <2>2. ASSUME NEW c \in Client, PeerNext(c) PROVE NoLostDamage'
    BY <1>2, <2>2, CallbacksKeep, FrameStepsKeep DEF PeerNext
  <2>3. CASE UNCHANGED vars
    BY <1>2, <2>3 DEF vars, mceVars, shadowVars, NoLostDamage, Viewing, Stale,
                      RecalcDesktopSize, Viewport, Owing
  <2> QED
    BY <1>2, <2>1, <2>2, <2>3 DEF NextFrameUpdate
<1>3. 1 \in SubRect
  BY Widest DEF Cell
<1>4. FrameUpdateSpec => []FrameUpdateInv
  BY <1>3, FrameUpdateInvariance
<1> QED
  BY <1>1, <1>2, <1>4, FrameUpdateEvent, PTL DEF FrameUpdateSpec

(* With the whole screen shared, for any number of clients and any widths: *)
(* a client that did what shadow_send_desktop_resize asked of it is        *)
(* refused only if the surface was resized between the check of            *)
(* shadow_client_activate and the request, and never at a frame.           *)
THEOREM RefusalIsRace == SubRect = Cell => (FrameUpdateSpec => []RefusedOnlyByRace)
<1> SUFFICES ASSUME SubRect = Cell PROVE FrameUpdateSpec => []RefusedOnlyByRace
  OBVIOUS
<1>1. FrameUpdateInv => RefusedOnlyByRace
  <2> SUFFICES ASSUME FrameUpdateInv, NEW c \in Client, ResizeRefused(peer[c])
               PROVE  /\ peer[c].checked # 0 =>
                             width # peer[c].checked /\ width = peer[c].desktop
                      /\ peer[c].plan # "resize"
    BY DEF RefusedOnlyByRace
  <2>1. width \in Width /\ width # 0 /\ peer[c] \in PeerType /\ SessionOK(peer[c])
    BY Widest DEF FrameUpdateInv, FrameUpdateTypeOK, SessionsOK
  <2>2. peer[c].resized = width
    BY DEF ResizeRefused
  <2>3. ASSUME peer[c].checked # 0
        PROVE  width # peer[c].checked /\ width = peer[c].desktop
    <3>1. peer[c].awaited /\ peer[c].desktop # Cardinality(Viewport(peer[c].checked))
      BY <2>1, <2>3 DEF SessionOK
    <3>2. peer[c].checked \in Width
      BY <2>1, <2>3 DEF PeerType
    <3>3. peer[c].desktop # peer[c].checked
      BY <3>1, <3>2, WholeScreen
    <3>4. peer[c].desktop = width
      BY <2>1, <2>2, <3>1 DEF SessionOK
    <3> QED
      BY <3>3, <3>4
  <2>4. peer[c].plan # "resize"
    BY <2>1, <2>2 DEF FrameUpdateInv, SessionsOK, SessionOK
  <2> QED
    BY <2>3, <2>4
<1>2. 1 \in SubRect
  BY Widest DEF Cell
<1>3. FrameUpdateSpec => []FrameUpdateInv
  BY <1>2, FrameUpdateInvariance
<1> QED
  BY <1>1, <1>3, PTL

-----------------------------------------------------------------------------
(***************************************************************************)
(* Proofs about the frame ids and the frame rate of a shadow client, for   *)
(* ids of any width, any maximum and initial rate, and any number of       *)
(* frames and acknowledgements on their way.                               *)
(***************************************************************************)

(* What is known of the bounds, without the power of two. *)
LEMMA Bounds ==
    /\ Modulus \in Nat /\ MaxFrame \in Nat /\ MaxFrame >= 1
    /\ MaxFrame + 2 <= Modulus
    /\ MaxFps \in Nat /\ InitFps \in 1..MaxFps
BY ShadowEncoderAssumption DEF Modulus

(* Ids below the modulus: their unsigned difference is their difference.   *)
LEMMA UnsignedDifference ==
    ASSUME NEW m \in Nat, NEW a \in 0..(m - 1), NEW b \in 0..(m - 1)
    PROVE  /\ (a + m - b) % m \in 0..(m - 1)
           /\ b <= a => (a + m - b) % m = a - b
<1> DEFINE d == a + m - b
<1>1. d \in Nat /\ d < 2 * m /\ m > 0
  OBVIOUS
<1>2. d % m \in 0..(m - 1)
  BY <1>1, Z3
<1>3. ASSUME b <= a PROVE d % m = a - b
  <2>1. d = (a - b) + m /\ a - b \in 0..(m - 1)
    BY <1>3
  <2> QED
    BY <2>1, <1>1, Z3
<1> QED
  BY <1>2, <1>3

(* The rate while it is throttled: a share of the greatest rate.           *)
LEMMA ThrottledRate ==
    ASSUME NEW d \in Nat, d > 0, NEW m \in Nat
    PROVE  ((100 \div d) * m) \div 100 \in 0..m
<1> DEFINE q == 100 \div d
<1>1. q \in 0..100
  BY Z3
<1> HIDE DEF q
<1>2. q * m \in Nat /\ q * m <= 100 * m
  BY <1>1, Z3
<1> DEFINE p == q * m
<1>3. p \in Nat /\ p <= 100 * m
  BY <1>2
<1> HIDE DEF p
<1>4. p \div 100 \in 0..m
  BY <1>3, Z3
<1> QED
  BY <1>4 DEF p, q


-----------------------------------------------------------------------------
(* What the link carries.                                                  *)

(* Counted(seq, f) is IsCounted with the id of the last frame spelt out.   *)
Counted(seq, f) ==
    /\ seq \in Seq(OnLink)
    /\ \A i \in DOMAIN seq : ~seq[i].old => seq[i].id + seq[i].later = f

(* A function on the places of a sequence is a sequence.                   *)
LEMMA SeqByIndex ==
    ASSUME NEW T, NEW s \in Seq(T), NEW U, NEW f \in [DOMAIN s -> U]
    PROVE  f \in Seq(U)
<1>1. Len(s) \in Nat /\ DOMAIN s = 1..Len(s)
  OBVIOUS
<1>2. f \in [1..Len(s) -> U]
  BY <1>1
<1> QED
  BY <1>1, <1>2

(* A frame is sent: what is on its way is followed by one more.            *)
LEMMA LaterCounted ==
    ASSUME NEW seq, NEW f \in Nat, f < MaxFrame, Counted(seq, f)
    PROVE  Counted(OneLater(seq), f + 1)
<1> USE Bounds
<1> DEFINE new(i) == [seq[i] EXCEPT !.later = @ + (IF seq[i].old THEN 0 ELSE 1)]
<1>1. ASSUME NEW i \in DOMAIN seq
      PROVE  /\ new(i) \in OnLink
             /\ ~new(i).old => new(i).id + new(i).later = f + 1
  <2>1. seq[i] \in OnLink
    BY <1>1 DEF Counted
  <2>2. /\ seq[i].id \in 0..MaxFrame /\ seq[i].later \in 0..MaxFrame
        /\ seq[i].old \in BOOLEAN
    BY <2>1 DEF OnLink
  <2>3. ~seq[i].old => seq[i].id + seq[i].later = f
    BY DEF Counted
  <2>4. seq[i] = [id |-> seq[i].id, later |-> seq[i].later, old |-> seq[i].old]
    BY <2>1 DEF OnLink
  <2>5. CASE seq[i].old
    <3>1. new(i) = seq[i]
      BY <2>1, <2>2, <2>4, <2>5 DEF OnLink
    <3> QED
      BY <3>1, <2>1, <2>5
  <2>6. CASE ~seq[i].old
    <3>1. new(i) = [id |-> seq[i].id, later |-> seq[i].later + 1, old |-> seq[i].old]
      BY <2>1, <2>2, <2>4, <2>6 DEF OnLink
    <3>2. seq[i].later + 1 \in 0..MaxFrame
      BY <2>2, <2>3, <2>6
    <3>3. new(i) \in OnLink
      BY <3>1, <3>2, <2>2 DEF OnLink
    <3> QED
      BY <3>1, <3>3, <2>2, <2>3, <2>6
  <2> QED
    BY <2>5, <2>6
<1> HIDE DEF new
<1>2. OneLater(seq) = [i \in DOMAIN seq |-> new(i)]
  BY DEF OneLater, new
<1>3. OneLater(seq) \in [DOMAIN seq -> OnLink]
  BY <1>1, <1>2, Zenon
<1>4. OneLater(seq) \in Seq(OnLink)
  BY <1>3, SeqByIndex DEF Counted
<1> QED
  BY <1>1, <1>2, <1>4 DEF Counted

(* The encoder is reset: all that is on its way is from before.            *)
LEMMA OldCounted ==
    ASSUME NEW seq, NEW f, NEW g, Counted(seq, f)
    PROVE  Counted(AllOld(seq), g)
<1> USE Bounds
<1> DEFINE new(i) == [seq[i] EXCEPT !.later = 0, !.old = TRUE]
<1>1. ASSUME NEW i \in DOMAIN seq PROVE new(i) \in OnLink /\ new(i).old
  <2>1. seq[i] \in OnLink
    BY <1>1 DEF Counted
  <2>2. seq[i].id \in 0..MaxFrame /\ 0 \in 0..MaxFrame
    BY <2>1 DEF OnLink
  <2>3. new(i) \in OnLink
    BY <2>1, <2>2, Zenon DEF OnLink
  <2>4. new(i).old
    BY <2>1, Zenon DEF OnLink
  <2> QED
    BY <2>3, <2>4
<1> HIDE DEF new
<1>2. AllOld(seq) = [i \in DOMAIN seq |-> new(i)]
  BY DEF AllOld, new
<1>3. AllOld(seq) \in [DOMAIN seq -> OnLink]
  BY <1>1, <1>2, Zenon
<1>4. AllOld(seq) \in Seq(OnLink)
  BY <1>3, SeqByIndex DEF Counted
<1> QED
  BY <1>1, <1>2, <1>4 DEF Counted

(* An item is put at the end.                                              *)
LEMMA AppendCounted ==
    ASSUME NEW seq, NEW f, Counted(seq, f), NEW x \in OnLink,
           ~x.old => x.id + x.later = f
    PROVE  Counted(Append(seq, x), f)
<1>1. seq \in Seq(OnLink) /\ Append(seq, x) \in Seq(OnLink)
  BY DEF Counted
<1>2. ASSUME NEW i \in DOMAIN Append(seq, x)
      PROVE  ~Append(seq, x)[i].old => Append(seq, x)[i].id + Append(seq, x)[i].later = f
  <2>1. i \in 1..(Len(seq) + 1) /\ DOMAIN seq = 1..Len(seq)
    BY <1>1, <1>2
  <2>2. CASE i = Len(seq) + 1
    BY <2>2, <1>1
  <2>3. CASE i \in 1..Len(seq)
    BY <2>1, <2>3, <1>1 DEF Counted
  <2> QED
    BY <2>1, <2>2, <2>3, <1>1
<1> QED
  BY <1>1, <1>2 DEF Counted

(* The first item is taken.                                                *)
LEMMA TailCounted ==
    ASSUME NEW seq, NEW f, Counted(seq, f), seq # <<>>
    PROVE  /\ Counted(Tail(seq), f)
           /\ Head(seq) \in OnLink
           /\ ~Head(seq).old => Head(seq).id + Head(seq).later = f
<1>1. seq \in Seq(OnLink) /\ Len(seq) \in Nat /\ Len(seq) >= 1
  BY EmptySeq DEF Counted
<1>2. Tail(seq) \in Seq(OnLink) /\ Len(Tail(seq)) = Len(seq) - 1
  BY <1>1
<1>3. ASSUME NEW i \in DOMAIN Tail(seq)
      PROVE  ~Tail(seq)[i].old => Tail(seq)[i].id + Tail(seq)[i].later = f
  <2>1. i \in 1..(Len(seq) - 1) /\ i + 1 \in DOMAIN seq
    BY <1>1, <1>2, <1>3
  <2>2. Tail(seq)[i] = seq[i + 1]
    BY <1>1, <2>1
  <2> QED
    BY <2>1, <2>2 DEF Counted
<1>4. Head(seq) = seq[1] /\ 1 \in DOMAIN seq
  BY <1>1
<1> QED
  BY <1>1, <1>2, <1>3, <1>4 DEF Counted


-----------------------------------------------------------------------------
(* The invariant.                                                          *)

(* The ids in a state where the invariant holds.                           *)
LEMMA Ids ==
    ASSUME EncoderInv
    PROVE  /\ frameId \in Nat /\ lastAckframeId \in Nat /\ since \in Nat
           /\ frameId <= MaxFrame /\ since <= frameId
           /\ Counted(frames, frameId) /\ Counted(acks, frameId)
           /\ ~ackIsOld => lastAckframeId + since = frameId
           /\ fps \in 1..MaxFps /\ captureFrameRate \in 1..MaxFps
           /\ lastAckframeId \in 0..(Modulus - 1)
           /\ suspended \in BOOLEAN /\ running \in BOOLEAN /\ ackIsOld \in BOOLEAN
<1>1. EncoderTypeOK /\ LinkIsCounted
  BY DEF EncoderInv
<1>2. /\ frameId \in Nat /\ lastAckframeId \in Nat /\ since \in Nat
      /\ fps \in 1..MaxFps /\ captureFrameRate \in 1..MaxFps
      /\ lastAckframeId \in 0..(Modulus - 1)
  BY <1>1, Bounds DEF EncoderTypeOK
<1>3. suspended \in BOOLEAN /\ running \in BOOLEAN /\ ackIsOld \in BOOLEAN
  BY <1>1 DEF EncoderTypeOK
<1>4. Counted(frames, frameId) /\ Counted(acks, frameId)
  BY <1>1, Zenon DEF LinkIsCounted, IsCounted, Counted
<1>5. /\ frameId <= MaxFrame /\ since <= frameId
      /\ ~ackIsOld => lastAckframeId + since = frameId
  BY <1>1 DEF LinkIsCounted
<1> QED
  BY <1>2, <1>3, <1>4, <1>5

(* While nothing acknowledged is from before a reset, the unsigned         *)
(* difference of the ids is the number of frames since.                    *)
LEMMA DifferenceIsCount ==
    ASSUME NEW f \in Nat, NEW a \in Nat, NEW s \in Nat,
           f <= MaxFrame, a + s = f
    PROVE  (f + Modulus - a) % Modulus = s
<1>1. f \in 0..(Modulus - 1) /\ a \in 0..(Modulus - 1) /\ a <= f /\ f - a = s /\ Modulus \in Nat
  BY Bounds
<1> DEFINE m == Modulus
<1> HIDE DEF m
<1>2. m \in Nat /\ f \in 0..(m - 1) /\ a \in 0..(m - 1)
  BY <1>1 DEF m
<1>3. (f + m - a) % m = f - a
  BY <1>1, <1>2, UnsignedDifference
<1> QED
  BY <1>1, <1>3 DEF m

(* What there is to show of the state after a step: the invariant without  *)
(* the modulus.                                                            *)
EncoderParts ==
    /\ frameId \in Nat /\ lastAckframeId \in Nat /\ since \in Nat
    /\ frameId <= MaxFrame /\ since <= frameId
    /\ Counted(frames, frameId) /\ Counted(acks, frameId)
    /\ ~ackIsOld => lastAckframeId + since = frameId
    /\ fps \in 1..MaxFps /\ captureFrameRate \in 1..MaxFps
    /\ lastAckframeId \in 0..(Modulus - 1)
    /\ suspended \in BOOLEAN /\ running \in BOOLEAN /\ ackIsOld \in BOOLEAN

(* It is enough for the invariant.                                         *)
LEMMA InvFrom == EncoderParts => EncoderInv
<1> SUFFICES ASSUME EncoderParts PROVE EncoderInv
  OBVIOUS
<1> USE DEF EncoderParts
<1>1. frameId \in 0..(Modulus - 1) /\ since \in 0..MaxFrame
  BY Bounds
<1>2. EncoderTypeOK
  BY <1>1, Zenon DEF EncoderTypeOK
<1>3. LinkIsCounted
  BY Zenon DEF LinkIsCounted, IsCounted, Counted
<1>4. InflightIsCount
  <2> SUFFICES ASSUME ~ackIsOld, ~suspended PROVE InflightFrames = since
    BY DEF InflightIsCount
  <2>1. (frameId + Modulus - lastAckframeId) % Modulus = since
    BY DifferenceIsCount
  <2> QED
    BY <2>1, Zenon DEF InflightFrames
<1> QED
  BY <1>2, <1>3, <1>4 DEF EncoderInv

(* shadow_encoder_new.                                                     *)
LEMMA EncoderInit == InitEncoder => EncoderInv
<1> SUFFICES ASSUME InitEncoder PROVE EncoderInv
  OBVIOUS
<1>1. Counted(<<>>, frameId)
  BY EmptySeq DEF Counted
<1>2. /\ frameId = 0 /\ lastAckframeId = 0 /\ since = 0
      /\ fps = InitFps /\ captureFrameRate = InitFps /\ frames = <<>> /\ acks = <<>>
  BY DEF InitEncoder
<1>3. suspended = FALSE /\ running = TRUE /\ ackIsOld = FALSE
  BY DEF InitEncoder
<1>4. /\ frameId \in Nat /\ lastAckframeId \in Nat /\ since \in Nat
      /\ frameId <= MaxFrame /\ since <= frameId /\ lastAckframeId + since = frameId
      /\ fps \in 1..MaxFps /\ captureFrameRate \in 1..MaxFps
      /\ lastAckframeId \in 0..(Modulus - 1)
  BY <1>2, Bounds
<1>5. suspended \in BOOLEAN /\ running \in BOOLEAN /\ ackIsOld \in BOOLEAN
  BY <1>3
<1>6. Counted(frames, frameId) /\ Counted(acks, frameId)
  BY <1>1, <1>2
<1> QED
  BY <1>4, <1>5, <1>6, InvFrom, Zenon DEF EncoderParts

(* The rate that is chosen is one the encoder may have, whatever the       *)
(* difference of the ids is, as long as the process does not die of it.    *)
LEMMA RateInRange ==
    ASSUME EncoderInv, InflightFrames > 1 => Divisor # 0
    PROVE  PreferredFps \in 1..MaxFps
<1> DEFINE m == Modulus
           n == InflightFrames
           d == Divisor
           t == ((100 \div d) * MaxFps) \div 100
           r == IF fps + 2 > MaxFps THEN MaxFps ELSE fps + 2
           ch == IF n > 1 THEN t ELSE r
<1>1. m \in Nat /\ m > 0
  BY Bounds
<1>2. n \in Nat
  <2>1. CASE suspended
    BY <2>1 DEF InflightFrames
  <2>2. CASE ~suspended
    <3>1. frameId \in 0..(m - 1) /\ lastAckframeId \in 0..(m - 1)
      BY Ids, Bounds
    <3>2. n = (frameId + m - lastAckframeId) % m
      BY <2>2 DEF InflightFrames
    <3> HIDE DEF m, n
    <3>3. (frameId + m - lastAckframeId) % m \in 0..(m - 1)
      BY <3>1, <1>1, UnsignedDifference
    <3> QED
      BY <3>2, <3>3, <1>1
  <2> QED
    BY <2>1, <2>2
<1>3. d \in Nat /\ (n > 1 => d # 0)
  <2>1. d = (n + 1) % m /\ (n > 1 => d # 0)
    BY DEF Divisor
  <2> HIDE DEF m, n, d
  <2>2. (n + 1) % m \in Nat
    BY <1>1, <1>2, Z3
  <2> QED
    BY <2>1, <2>2
<1>4. r \in 1..MaxFps
  BY Ids, Bounds
<1>5. PreferredFps = IF ch < 1 THEN 1 ELSE ch
  BY DEF PreferredFps
<1> HIDE DEF n, d, r, m
<1>6. n > 1 => t \in 0..MaxFps
  BY <1>3, Bounds, ThrottledRate
<1> HIDE DEF t
<1>7. ch \in 0..MaxFps
  BY <1>2, <1>4, <1>6
<1> HIDE DEF ch
<1> QED
  BY <1>5, <1>7, Bounds


(* shadow_encoder_create_frame_id.                                         *)
LEMMA CreateFrameIdKeeps == ASSUME EncoderInv, CreateFrameId PROVE EncoderInv'
<1>1. frameId' = frameId + 1 /\ frameId < MaxFrame
  <2>1. frameId \in Nat /\ frameId < MaxFrame /\ frameId' = (frameId + 1) % Modulus
    BY Ids DEF CreateFrameId
  <2>2. (frameId + 1) % Modulus = frameId + 1
    <3> DEFINE m == Modulus
    <3>1. m \in Nat /\ frameId + 1 < m
      BY <2>1, Bounds
    <3> HIDE DEF m
    <3>2. (frameId + 1) % m = frameId + 1
      BY <3>1, <2>1, Z3
    <3> QED
      BY <3>2 DEF m
  <2> QED
    BY <2>1, <2>2
<1>2. Counted(OneLater(frames), frameId') /\ Counted(OneLater(acks), frameId')
  BY <1>1, Ids, LaterCounted
<1>3. /\ Item(frameId') \in OnLink /\ Item(frameId').id = frameId'
      /\ Item(frameId').later = 0
  BY <1>1, Ids, Bounds DEF Item, OnLink
<1>4. Item(frameId').id + Item(frameId').later = frameId'
  BY <1>1, <1>3, Ids
<1>5. Counted(frames', frameId') /\ Counted(acks', frameId')
  <2>1. Counted(Append(OneLater(frames), Item(frameId')), frameId')
    BY <1>2, <1>3, <1>4, AppendCounted
  <2> QED
    BY <2>1, <1>2 DEF CreateFrameId
<1>6. fps' \in 1..MaxFps
  BY RateInRange DEF CreateFrameId
<1>7. /\ since' = since + 1 /\ lastAckframeId' = lastAckframeId
      /\ captureFrameRate' = captureFrameRate
  BY DEF CreateFrameId
<1>8. suspended' = suspended /\ running' = running /\ ackIsOld' = ackIsOld
  BY DEF CreateFrameId
<1>9. /\ frameId' \in Nat /\ lastAckframeId' \in Nat /\ since' \in Nat
      /\ frameId' <= MaxFrame /\ since' <= frameId'
      /\ captureFrameRate' \in 1..MaxFps /\ lastAckframeId' \in 0..(Modulus - 1)
  BY <1>1, <1>7, Ids, Bounds
<1>10. ~ackIsOld' => lastAckframeId' + since' = frameId'
  BY <1>1, <1>7, <1>8, Ids
<1>11. suspended' \in BOOLEAN /\ running' \in BOOLEAN /\ ackIsOld' \in BOOLEAN
  BY <1>8, Ids, Zenon
<1>12. (EncoderParts => EncoderInv)'
  BY InvFrom, PTL
<1> QED
  BY <1>5, <1>6, <1>9, <1>10, <1>11, <1>12, Zenon DEF EncoderParts

(* An acknowledgement, of the surface commands or of the graphics channel. *)
LEMMA AcknowledgeKeeps ==
    ASSUME EncoderInv, CommonFrameAcknowledge, suspended' \in BOOLEAN
    PROVE  EncoderInv'
<1> DEFINE ack == Head(acks)
<1>1. /\ acks # <<>> /\ acks' = Tail(acks) /\ lastAckframeId' = ack.id
      /\ frameId' = frameId /\ fps' = fps /\ captureFrameRate' = captureFrameRate
      /\ frames' = frames
      /\ since' = IF ack.old THEN since ELSE ack.later
  BY DEF CommonFrameAcknowledge
<1>2. running' = running /\ ackIsOld' = ack.old
  BY DEF CommonFrameAcknowledge
<1>3. /\ Counted(Tail(acks), frameId) /\ ack \in OnLink
      /\ ~ack.old => ack.id + ack.later = frameId
  BY <1>1, Ids, TailCounted
<1>4. /\ ack.id \in 0..MaxFrame /\ ack.later \in 0..MaxFrame /\ ack.old \in BOOLEAN
  BY <1>3, Zenon DEF OnLink
<1> HIDE DEF ack
<1>5. Counted(frames', frameId') /\ Counted(acks', frameId')
  BY <1>1, <1>3, Ids
<1>6. /\ frameId' \in Nat /\ lastAckframeId' \in Nat /\ frameId' <= MaxFrame
      /\ fps' \in 1..MaxFps /\ captureFrameRate' \in 1..MaxFps
      /\ lastAckframeId' \in 0..(Modulus - 1)
  BY <1>1, <1>4, Ids, Bounds
<1>7. since' \in Nat /\ since' <= frameId'
  BY <1>1, <1>3, <1>4, Ids, Bounds
<1>8. ~ackIsOld' => lastAckframeId' + since' = frameId'
  BY <1>1, <1>2, <1>3
<1>9. running' \in BOOLEAN /\ ackIsOld' \in BOOLEAN
  BY <1>2, <1>4, Ids, Zenon
<1>10. (EncoderParts => EncoderInv)'
  BY InvFrom, PTL
<1> QED
  BY <1>5, <1>6, <1>7, <1>8, <1>9, <1>10, Zenon DEF EncoderParts

(* shadow_encoder_reset.                                                   *)
LEMMA ResetKeeps == ASSUME EncoderInv, Reset PROVE EncoderInv'
<1>1. /\ fps' = InitFps /\ frameId' = 0 /\ lastAckframeId' = 0 /\ since' = 0
      /\ frames' = AllOld(frames) /\ acks' = AllOld(acks)
      /\ captureFrameRate' = captureFrameRate
  BY DEF Reset
<1>2. suspended' = suspended /\ running' = running /\ ackIsOld' = FALSE
  BY DEF Reset
<1>3. Counted(AllOld(frames), frameId') /\ Counted(AllOld(acks), frameId')
  BY Ids, OldCounted
<1>4. Counted(frames', frameId') /\ Counted(acks', frameId')
  BY <1>1, <1>3
<1>5. /\ frameId' \in Nat /\ lastAckframeId' \in Nat /\ since' \in Nat
      /\ frameId' <= MaxFrame /\ since' <= frameId'
      /\ lastAckframeId' + since' = frameId'
      /\ fps' \in 1..MaxFps /\ captureFrameRate' \in 1..MaxFps
      /\ lastAckframeId' \in 0..(Modulus - 1)
  BY <1>1, Ids, Bounds
<1>6. suspended' \in BOOLEAN /\ running' \in BOOLEAN /\ ackIsOld' \in BOOLEAN
  BY <1>2, Ids, Zenon
<1>7. (EncoderParts => EncoderInv)'
  BY InvFrom, PTL
<1> QED
  BY <1>4, <1>5, <1>6, <1>7, Zenon DEF EncoderParts

(* Steps that leave the encoder's ids alone: of the client, of the         *)
(* subsystem that takes the rate, of the process that dies, and none.      *)
LEMMA IdsKept ==
    ASSUME EncoderInv, UNCHANGED <<encoderVars, ackIsOld, since>>,
           captureFrameRate' \in {captureFrameRate, fps}, running' \in BOOLEAN,
           Counted(frames', frameId), Counted(acks', frameId)
    PROVE  EncoderInv'
<1>1. /\ frameId' = frameId /\ lastAckframeId' = lastAckframeId /\ fps' = fps
      /\ since' = since
  BY DEF encoderVars
<1>2. suspended' = suspended /\ ackIsOld' = ackIsOld
  BY DEF encoderVars
<1>3. captureFrameRate' \in 1..MaxFps
  BY Ids
<1>4. EncoderParts'
  <2>1. /\ frameId' \in Nat /\ lastAckframeId' \in Nat /\ since' \in Nat
        /\ frameId' <= MaxFrame /\ since' <= frameId'
        /\ fps' \in 1..MaxFps /\ lastAckframeId' \in 0..(Modulus - 1)
        /\ ~ackIsOld' => lastAckframeId' + since' = frameId'
    BY <1>1, <1>2, Ids
  <2>2. Counted(frames', frameId') /\ Counted(acks', frameId')
    BY <1>1
  <2>3. suspended' \in BOOLEAN /\ ackIsOld' \in BOOLEAN
    BY <1>2, Ids, Zenon
  <2> QED
    BY <1>3, <2>1, <2>2, <2>3, Zenon DEF EncoderParts
<1>5. (EncoderParts => EncoderInv)'
  BY InvFrom, PTL
<1> QED
  BY <1>4, <1>5

(* Every step keeps the invariant.                                         *)
LEMMA EncoderNext == EncoderInv /\ [NextEncoder]_seVars => EncoderInv'
<1> SUFFICES ASSUME EncoderInv, [NextEncoder]_seVars PROVE EncoderInv'
  OBVIOUS
<1>1. CASE CreateFrameId
  BY <1>1, CreateFrameIdKeeps
<1>2. CASE DivideByZero
  <2>1. running' \in BOOLEAN /\ captureFrameRate' = captureFrameRate
    BY <1>2 DEF DivideByZero
  <2>2. Counted(frames', frameId) /\ Counted(acks', frameId)
    BY <1>2, Ids DEF DivideByZero, linkVars
  <2> QED
    BY <1>2, <2>1, <2>2, IdsKept DEF DivideByZero
<1>3. CASE ClientAcknowledges
  <2>1. running' \in BOOLEAN /\ captureFrameRate' = captureFrameRate
    BY <1>3, Ids DEF ClientAcknowledges
  <2>2. /\ Counted(Tail(frames), frameId) /\ Head(frames) \in OnLink
        /\ ~Head(frames).old => Head(frames).id + Head(frames).later = frameId
    BY <1>3, Ids, TailCounted DEF ClientAcknowledges
  <2>3. Counted(Append(acks, Head(frames)), frameId)
    BY <2>2, Ids, AppendCounted
  <2>4. Counted(frames', frameId) /\ Counted(acks', frameId)
    BY <1>3, <2>2, <2>3 DEF ClientAcknowledges
  <2> QED
    BY <1>3, <2>1, <2>4, IdsKept DEF ClientAcknowledges
<1>4. CASE ClientSkips
  <2>1. running' \in BOOLEAN /\ captureFrameRate' = captureFrameRate
    BY <1>4, Ids DEF ClientSkips
  <2>2. Counted(Tail(frames), frameId)
    BY <1>4, Ids, TailCounted DEF ClientSkips
  <2>3. Counted(frames', frameId) /\ Counted(acks', frameId)
    BY <1>4, <2>2, Ids DEF ClientSkips
  <2> QED
    BY <1>4, <2>1, <2>3, IdsKept DEF ClientSkips
<1>5. CASE SurfaceFrameAcknowledge
  <2>1. CommonFrameAcknowledge /\ suspended' \in BOOLEAN
    BY <1>5 DEF SurfaceFrameAcknowledge
  <2> QED
    BY <2>1, AcknowledgeKeeps
<1>6. ASSUME NEW suspend \in BOOLEAN, RdpgfxFrameAcknowledge(suspend) PROVE EncoderInv'
  <2>1. CommonFrameAcknowledge /\ suspended' \in BOOLEAN
    BY <1>6, Zenon DEF RdpgfxFrameAcknowledge
  <2> QED
    BY <2>1, AcknowledgeKeeps
<1>7. CASE Reset
  BY <1>7, ResetKeeps
<1>8. CASE SubsystemTakesFps
  <2>1. running' \in BOOLEAN /\ captureFrameRate' = fps
    BY <1>8, Ids DEF SubsystemTakesFps
  <2>2. Counted(frames', frameId) /\ Counted(acks', frameId)
    BY <1>8, Ids DEF SubsystemTakesFps, linkVars
  <2> QED
    BY <1>8, <2>1, <2>2, IdsKept DEF SubsystemTakesFps
<1>9. CASE UNCHANGED seVars
  <2>1. running' \in BOOLEAN /\ captureFrameRate' = captureFrameRate
    BY <1>9, Ids DEF seVars
  <2>2. Counted(frames', frameId) /\ Counted(acks', frameId)
    BY <1>9, Ids DEF seVars, linkVars
  <2> QED
    BY <1>9, <2>1, <2>2, IdsKept DEF seVars
<1> QED
  BY <1>1, <1>2, <1>3, <1>4, <1>5, <1>6, <1>7, <1>8, <1>9 DEF NextEncoder

(* For ids of any width and any rates: the rate that the subsystem divides *)
(* by is never zero and never above the greatest, whatever is acknowledged *)
(* and when; and until an acknowledgement from before a reset arrives,     *)
(* shadow_encoder_inflight_frames is the number of frames that were sent   *)
(* after the one acknowledged last.                                        *)
THEOREM EncoderInvariance == EncoderSpec => []EncoderInv
<1> QED
  BY EncoderInit, EncoderNext, PTL DEF EncoderSpec

-----------------------------------------------------------------------------
(***************************************************************************)
(* Proofs about the threads of the shadow server, for any finite set of    *)
(* clients and any memory for messages: every reference to a message is    *)
(* counted, nothing is freed that a thread still uses, and the frames are  *)
(* still the rounds of FrameRound. They rest on the invariant of the       *)
(* multi-client event, of which every step of the server is a step.        *)
(***************************************************************************)

-----------------------------------------------------------------------------
(***************************************************************************)
(* The multi-client event inside the server.                               *)
(***************************************************************************)

(* Every step of the server is a step of the multi-client event, or does   *)
(* not touch it.                                                           *)
LEMMA ServerStepOfEvent == [NextServer]_allVars => [Next]_mceVars
<1> SUFFICES ASSUME [NextServer]_allVars PROVE [Next]_mceVars
  OBVIOUS
<1>1. CASE SubsystemThread
  BY <1>1 DEF SubsystemThread, FrameUpdate, GrabUpdate, FrameUpdateWaits, FindFirstClient,
              TakePreferredFps, BroadcastMsg, DispatchMsg, BroadcastEnds, PositionUpdate,
              PostMsg, SkipLastMouseClient, PositionUpdateEnds, SubsystemEnds, Next, ServerNext
<1>2. ASSUME NEW c \in Client, Accepted(c) \/ ClientThread(c) PROVE [Next]_mceVars
  BY <1>2 DEF Accepted, ClientThread, Subscribe, StartFails, HandleFrame, BeginDrain,
              DrainMessage, DrainQuit, EndDrain, LeaveLoop, RemoveClient, UnlockList,
              FreeQueue, Next, ClientNext
<1>3. CASE StopListening \/ BroadcastQuit \/ ClientsGone \/ Uninit
  BY <1>3 DEF StopListening, BroadcastQuit, ClientsGone, Uninit, ServerThread
<1>4. CASE UNCHANGED allVars
  BY <1>4 DEF allVars
<1> QED
  BY <1>1, <1>2, <1>3, <1>4 DEF NextServer

(* So its inductive invariant holds here as well. *)
THEOREM ServerEvent == ServerSpec => []IndInv
<1>1. InitServer => IndInv
  BY InitInv DEF InitServer
<1>2. IndInv /\ [NextServer]_allVars => IndInv'
  BY ServerStepOfEvent, NextInv
<1> QED
  BY <1>1, <1>2, PTL DEF ServerSpec

(* And in the server, whose threads do much else besides, the event is     *)
(* still the round of FrameRound: shadow_mcevent.c, used as shadow_client.c*)
(* and x11_shadow.c use it.                                                *)
THEOREM RoundRefinement == ServerSpec => IsFrameRound
<1>1. InitServer => Abstract!Init
  BY InitAbstract DEF InitServer
<1>2. IndInv /\ IndInv' /\ [NextServer]_allVars => [Abstract!Next]_(Abstract!frVars)
  BY ServerStepOfEvent, NextAbstract
<1> QED
  BY <1>1, <1>2, ServerEvent, PTL DEF ServerSpec, IsFrameRound, Abstract!Spec

-----------------------------------------------------------------------------
(***************************************************************************)
(* Sequences and counts.                                                   *)
(***************************************************************************)

(* What is appended is an element, and repeats nothing that is new. *)
LEMMA AppendElements ==
    ASSUME NEW T, NEW s \in Seq(T), NEW x \in T, NEW S
    PROVE  /\ Append(s, x) \in Seq(T)
           /\ Elements(Append(s, x)) = Elements(s) \cup {x}
           /\ NoRepeats(s, S) /\ (x \in S => x \notin Elements(s))
                  => NoRepeats(Append(s, x), S)
<1> DEFINE a == Append(s, x)
<1>1. /\ a \in Seq(T) /\ Len(a) = Len(s) + 1 /\ DOMAIN a = 1..(Len(s) + 1)
      /\ DOMAIN s = 1..Len(s) /\ Len(s) \in Nat
      /\ \A i \in 1..Len(s) : a[i] = s[i]
      /\ a[Len(s) + 1] = x
  OBVIOUS
<1> HIDE DEF a
<1>2. Elements(a) = Elements(s) \cup {x}
  <2>1. \A i \in DOMAIN a : a[i] \in Elements(s) \cup {x}
    BY <1>1 DEF Elements
  <2>2. \A y \in Elements(s) \cup {x} : \E i \in DOMAIN a : a[i] = y
    <3>1. \A i \in DOMAIN s : i \in DOMAIN a /\ a[i] = s[i]
      BY <1>1
    <3>2. Len(s) + 1 \in DOMAIN a
      BY <1>1
    <3> QED
      BY <1>1, <3>1, <3>2 DEF Elements
  <2> QED
    BY <2>1, <2>2 DEF Elements
<1>3. ASSUME NoRepeats(s, S), x \in S => x \notin Elements(s) PROVE NoRepeats(a, S)
  <2> SUFFICES ASSUME NEW i \in DOMAIN a, NEW j \in DOMAIN a, a[i] \in S, a[i] = a[j]
               PROVE  i = j
    BY DEF NoRepeats
  <2>1. \A k \in 1..Len(s) : s[k] \in Elements(s)
    BY <1>1 DEF Elements
  <2>2. CASE i \in 1..Len(s) /\ j \in 1..Len(s)
    BY <1>1, <1>3, <2>2 DEF NoRepeats
  <2>3. CASE i = Len(s) + 1 \/ j = Len(s) + 1
    BY <1>1, <1>3, <2>1, <2>3
  <2> QED
    BY <1>1, <2>2, <2>3
<1> QED
  BY <1>1, <1>2, <1>3 DEF a

(* The head goes; if nothing is repeated it is not in the tail. *)
LEMMA HeadTailElements ==
    ASSUME NEW T, NEW s \in Seq(T), s # <<>>, NEW S
    PROVE  /\ Head(s) \in T /\ Tail(s) \in Seq(T)
           /\ Elements(s) = Elements(Tail(s)) \cup {Head(s)}
           /\ NoRepeats(s, S) =>
                  /\ NoRepeats(Tail(s), S)
                  /\ Head(s) \in S => Head(s) \notin Elements(Tail(s))
<1> DEFINE t == Tail(s)
           h == Head(s)
<1>1. /\ Len(s) \in Nat \ {0} /\ DOMAIN s = 1..Len(s)
      /\ t \in Seq(T) /\ Len(t) = Len(s) - 1 /\ DOMAIN t = 1..(Len(s) - 1)
      /\ \A i \in 1..(Len(s) - 1) : t[i] = s[i + 1]
      /\ h = s[1] /\ h \in T
  OBVIOUS
<1> HIDE DEF t, h
<1>2. \A i \in DOMAIN s : s[i] \in Elements(t) \cup {h}
  <2> SUFFICES ASSUME NEW i \in DOMAIN s, i # 1 PROVE s[i] \in Elements(t)
    BY <1>1
  <2>1. i - 1 \in DOMAIN t /\ t[i - 1] = s[i]
    BY <1>1
  <2> QED
    BY <2>1 DEF Elements
<1>3. \A i \in DOMAIN t : i + 1 \in DOMAIN s /\ t[i] = s[i + 1]
  BY <1>1
<1>4. Elements(s) = Elements(t) \cup {h}
  <2>1. 1 \in DOMAIN s
    BY <1>1
  <2> QED
    BY <1>1, <1>2, <1>3, <2>1 DEF Elements
<1>5. ASSUME NoRepeats(s, S) PROVE NoRepeats(t, S) /\ (h \in S => h \notin Elements(t))
  <2>1. ASSUME NEW i \in DOMAIN t, NEW j \in DOMAIN t, t[i] \in S, t[i] = t[j] PROVE i = j
    BY <1>1, <1>3, <1>5, <2>1 DEF NoRepeats
  <2>2. ASSUME NEW i \in DOMAIN t, h \in S PROVE t[i] # h
    <3>1. 1 \in DOMAIN s /\ i + 1 \in DOMAIN s /\ i + 1 # 1
      BY <1>1
    <3> QED
      BY <1>1, <1>3, <1>5, <2>2, <3>1 DEF NoRepeats
  <2> QED
    BY <2>1, <2>2 DEF NoRepeats, Elements
<1> QED
  BY <1>1, <1>4, <1>5 DEF t, h

(* ArrayList_Remove takes an item from a list that has it once. *)
LEMMA WithoutElements ==
    ASSUME NEW T, NEW s \in Seq(T), NEW x \in T, NoRepeats(s, T)
    PROVE  /\ Without(s, x) \in Seq(T)
           /\ Elements(Without(s, x)) = Elements(s) \ {x}
           /\ NoRepeats(Without(s, x), T)
<1>1. CASE x \notin Elements(s)
  BY <1>1 DEF Without
<1>2. CASE x \in Elements(s)
  <2> DEFINE First(i) == s[i] = x /\ \A j \in DOMAIN s : s[j] = x => i <= j
             k == CHOOSE i \in DOMAIN s : First(i)
             r == [i \in 1..(Len(s) - 1) |-> IF i < k THEN s[i] ELSE s[i + 1]]
  <2>1. DOMAIN s = 1..Len(s) /\ Len(s) \in Nat /\ \A i \in DOMAIN s : s[i] \in T
    OBVIOUS
  <2>2. PICK n \in DOMAIN s : s[n] = x
    BY <1>2 DEF Elements
  <2>3. \A j \in DOMAIN s : s[j] = x => n <= j
    BY <2>1, <2>2 DEF NoRepeats
  <2>4. k \in DOMAIN s /\ s[k] = x
    BY <2>2, <2>3, Zenon
  <2>5. Without(s, x) = r
    BY <1>2, Zenon DEF Without
  <2> HIDE DEF k, First
  <2>6. r \in Seq(T) /\ Len(r) = Len(s) - 1
    <3>1. \A i \in 1..(Len(s) - 1) : i \in DOMAIN s /\ i + 1 \in DOMAIN s
      BY <2>1
    <3>2. r \in [1..(Len(s) - 1) -> T]
      BY <2>1, <3>1
    <3>3. Len(s) - 1 \in Nat
      BY <2>1, <2>4
    <3> QED
      BY <3>2, <3>3
  <2>7. \A i \in 1..(Len(s) - 1) : r[i] = s[IF i < k THEN i ELSE i + 1]
    OBVIOUS
  <2>8. DOMAIN r = 1..(Len(s) - 1)
    OBVIOUS
  <2> HIDE DEF r
  <2>9. ASSUME NEW i \in DOMAIN r
        PROVE  LET n1 == IF i < k THEN i ELSE i + 1
               IN  n1 \in DOMAIN s /\ n1 # k
    BY <2>1, <2>4, <2>8
  <2>10. Elements(r) = Elements(s) \ {x}
    <3>1. ASSUME NEW i \in DOMAIN r PROVE r[i] \in Elements(s) \ {x}
      <4> DEFINE n1 == IF i < k THEN i ELSE i + 1
      <4>1. n1 \in DOMAIN s /\ n1 # k /\ r[i] = s[n1]
        BY <2>7, <2>8, <2>9
      <4> HIDE DEF n1
      <4>2. s[n1] # x
        BY <2>1, <2>4, <4>1 DEF NoRepeats
      <4> QED
        BY <4>1, <4>2 DEF Elements
    <3>2. ASSUME NEW j \in DOMAIN s, s[j] # x PROVE \E i \in DOMAIN r : r[i] = s[j]
      <4>1. j # k
        BY <2>4, <3>2
      <4>2. CASE j < k
        <5>1. j \in DOMAIN r /\ r[j] = s[j]
          BY <2>1, <2>4, <2>7, <2>8, <4>2
        <5> QED
          BY <5>1
      <4>3. CASE j > k
        <5>1. j - 1 \in DOMAIN r /\ ~(j - 1 < k) /\ (j - 1) + 1 = j
          BY <2>1, <2>4, <2>8, <4>3
        <5>2. r[j - 1] = s[j]
          BY <2>7, <2>8, <5>1
        <5> QED
          BY <5>1, <5>2
      <4> QED
        BY <2>1, <2>4, <4>1, <4>2, <4>3
    <3> QED
      BY <3>1, <3>2 DEF Elements
  <2>11. NoRepeats(r, T)
    <3> SUFFICES ASSUME NEW i \in DOMAIN r, NEW j \in DOMAIN r, r[i] = r[j] PROVE i = j
      BY DEF NoRepeats
    <3> DEFINE a == IF i < k THEN i ELSE i + 1
               b == IF j < k THEN j ELSE j + 1
    <3>1. a \in DOMAIN s /\ b \in DOMAIN s /\ s[a] = s[b]
      BY <2>7, <2>8, <2>9
    <3>2. a = b
      <4> HIDE DEF a, b
      <4> QED
        BY <2>1, <3>1 DEF NoRepeats
    <3> QED
      BY <2>1, <2>4, <2>8, <3>2
  <2> QED
    BY <2>5, <2>6, <2>10, <2>11
<1> QED
  BY <1>1, <1>2

(* Counting clients. *)
LEMMA CountClients ==
    ASSUME NEW S \in SUBSET Client
    PROVE  /\ Cardinality(S) \in Nat
           /\ Cardinality(S) = 0 <=> S = {}
           /\ \A c \in S : Cardinality(S \ {c}) = Cardinality(S) - 1
           /\ \A c \in Client \ S : Cardinality(S \cup {c}) = Cardinality(S) + 1
<1>1. IsFiniteSet(S)
  BY ClientFinite, FS_Subset
<1> QED
  BY <1>1, FS_CardinalityType, FS_EmptySet, FS_RemoveElement, FS_AddElement

-----------------------------------------------------------------------------
(***************************************************************************)
(* Types.                                                                  *)
(***************************************************************************)

(* Where the threads are. *)
LEMMA PlacesStep ==
    ASSUME ServerInv, [NextServer]_allVars
    PROVE  PlacesOK'
<1>1. PlacesOK /\ clients \in Seq(Client)
  BY DEF ServerInv, ServerTypeOK, SequencesOK
<1> DEFINE Task == {"none", "init", "serve", "drain", "quit", "leave", "removing", "removed"}
<1>2. ASSUME UNCHANGED <<thread, deserted, subsystem, first, task>> PROVE PlacesOK'
  BY <1>1, <1>2 DEF PlacesOK
<1>3. ASSUME NEW c \in Client, NEW t \in Task, task' = [task EXCEPT ![c] = t],
             UNCHANGED <<thread, deserted, subsystem, first>>
      PROVE  PlacesOK'
  BY <1>1, <1>3 DEF PlacesOK
<1>4. ASSUME subsystem # "rate", subsystem' \in {"run", "grab", "post", "ended"},
             UNCHANGED <<thread, deserted, first, task>>
      PROVE  PlacesOK'
  BY <1>1, <1>4 DEF PlacesOK
<1>5. CASE FrameUpdate \/ FrameUpdateWaits
  BY <1>2, <1>5 DEF FrameUpdate, FrameUpdateWaits, serverVars
<1>6. CASE GrabUpdate
  BY <1>4, <1>6 DEF GrabUpdate, SubsystemBecomes
<1>7. CASE FindFirstClient
  <2>1. clients # <<>> => Head(clients) \in Client /\ Head(clients) # None
    BY <1>1, ShadowServerAssumption
  <2>2. subsystem' = IF clients = <<>> THEN "run" ELSE "rate"
    BY <1>7 DEF FindFirstClient, SubsystemBecomes
  <2>3. first' = IF clients = <<>> THEN None ELSE Head(clients)
    BY <1>7 DEF FindFirstClient
  <2>4. UNCHANGED <<thread, deserted, task>>
    BY <1>7 DEF FindFirstClient, SubsystemBecomes
  <2> QED
    BY <1>1, <2>1, <2>2, <2>3, <2>4 DEF PlacesOK
<1>8. CASE TakePreferredFps
  BY <1>1, <1>8 DEF TakePreferredFps, SubsystemBecomes, PlacesOK
<1>9. ASSUME NEW m \in Msg, NEW k \in Kind, BroadcastMsg(m, k) PROVE PlacesOK'
  BY <1>4, <1>9 DEF BroadcastMsg
<1>10. CASE DispatchMsg
  BY <1>2, <1>10 DEF DispatchMsg
<1>11. CASE BroadcastEnds
  <2>1. subsystem = "post"
    BY <1>11 DEF BroadcastEnds, ServerInv, JobOK, NoJob
  <2> QED
    BY <1>4, <1>11, <2>1 DEF BroadcastEnds
<1>12. CASE PositionUpdate \/ PositionUpdateEnds \/ SubsystemEnds
  BY <1>4, <1>12 DEF PositionUpdate, PositionUpdateEnds, SubsystemEnds
<1>13. ASSUME NEW m \in Msg, PostMsg(m) PROVE PlacesOK'
  BY <1>2, <1>13 DEF PostMsg
<1>14. CASE SkipLastMouseClient
  BY <1>2, <1>14 DEF SkipLastMouseClient
<1>15. ASSUME NEW c \in Client, Accepted(c) \/ ClientThread(c) PROVE PlacesOK'
  <2>1. CASE HandleFrame(c) \/ DrainMessage(c)
    BY <1>2, <2>1 DEF HandleFrame, DrainMessage, serverVars
  <2>2. CASE ~(HandleFrame(c) \/ DrainMessage(c))
    <3>1. /\ \E t \in Task : task' = [task EXCEPT ![c] = t]
          /\ UNCHANGED <<thread, deserted, subsystem, first>>
      BY <1>15, <2>2 DEF Accepted, ClientThread, Subscribe, StartFails, BeginDrain, DrainQuit,
                         EndDrain, LeaveLoop, RemoveClient, UnlockList, FreeQueue, Becomes
    <3> QED
      BY <1>3, <3>1
  <2> QED
    BY <2>1, <2>2
<1>16. CASE StopListening \/ ClientsGone \/ Uninit
  BY <1>1, <1>16 DEF StopListening, ClientsGone, Uninit, ServerThread, PlacesOK
<1>18. CASE BroadcastQuit
  <2>1. deserted' \in BOOLEAN
    BY <1>18 DEF BroadcastQuit
  <2> QED
    BY <1>1, <1>18, <2>1 DEF BroadcastQuit, PlacesOK
<1>17. CASE UNCHANGED allVars
  BY <1>2, <1>17 DEF allVars, serverVars
<1> QED
  BY <1>5, <1>6, <1>7, <1>8, <1>9, <1>10, <1>11, <1>12, <1>13, <1>14, <1>15, <1>16, <1>17, <1>18
     DEF NextServer, SubsystemThread

(* The steps that touch neither a list nor a queue nor a message, nor what *)
(* is being sent.                                                          *)
Idles ==
    \/ FrameUpdate \/ GrabUpdate \/ FrameUpdateWaits \/ FindFirstClient \/ TakePreferredFps
    \/ SubsystemEnds \/ StopListening \/ ClientsGone \/ Uninit
    \/ \E c \in Client : \/ Subscribe(c) \/ StartFails(c) \/ HandleFrame(c) \/ BeginDrain(c)
                         \/ LeaveLoop(c) \/ UnlockList(c)
    \/ UNCHANGED allVars

(* Those of the subsystem thread that send something. *)
Posts ==
    \/ \E m \in Msg, k \in Kind : BroadcastMsg(m, k)
    \/ DispatchMsg \/ BroadcastEnds \/ PositionUpdate
    \/ \E m \in Msg : PostMsg(m)
    \/ SkipLastMouseClient \/ PositionUpdateEnds

(* Those of a client thread that handle messages or leave the list. *)
Handles(c) ==
    \/ Accepted(c) \/ DrainMessage(c) \/ DrainQuit(c) \/ EndDrain(c) \/ RemoveClient(c)
    \/ FreeQueue(c)

(* There are no others. *)
LEMMA Steps ==
    [NextServer]_allVars => Idles \/ Posts \/ (\E c \in Client : Handles(c)) \/ BroadcastQuit
  BY DEF NextServer, SubsystemThread, ClientThread, Idles, Posts, Handles

(* What the first of them leave alone. *)
LEMMA IdlesLeave ==
    ASSUME Idles
    PROVE  UNCHANGED <<job, clients, queue, closed, stored, kind, refs, live>>
  BY DEF Idles, FrameUpdate, GrabUpdate, FrameUpdateWaits, FindFirstClient, TakePreferredFps,
         SubsystemEnds, StopListening, ClientsGone, Uninit, Subscribe, StartFails, HandleFrame,
         BeginDrain, LeaveLoop, UnlockList, allVars, serverVars, msgVars, SubsystemBecomes,
         ServerThread, Becomes

(* A thread that sends something is the only one to work on the list. *)
LEMMA PostsLeave ==
    ASSUME Posts
    PROVE  UNCHANGED <<mceVars, thread, deserted, clients, task, closed, stored>>
  BY DEF Posts, BroadcastMsg, DispatchMsg, BroadcastEnds, PositionUpdate, PostMsg,
         SkipLastMouseClient, PositionUpdateEnds

(* The sequences and sets of messages. *)
LEMMA SequencesStep ==
    ASSUME ServerInv, [NextServer]_allVars
    PROVE  SequencesOK'
<1>1. SequencesOK
  BY DEF ServerInv, ServerTypeOK
<1>2. CASE Idles
  BY <1>1, <1>2, IdlesLeave DEF SequencesOK
<1>3. CASE Posts
  <2>1. UNCHANGED <<clients, stored>>
    BY <1>3, PostsLeave
  <2>2. job' \in [msg : Msg \cup {None}, rest : Seq(Client)]
    <3>1. /\ job.msg \in Msg \cup {None} /\ job.rest \in Seq(Client) /\ clients \in Seq(Client)
          /\ job = [msg |-> job.msg, rest |-> job.rest] /\ <<>> \in Seq(Client)
      BY <1>1 DEF SequencesOK
    <3>2. job.rest # <<>> => Tail(job.rest) \in Seq(Client)
      BY <3>1
    <3>3. \E m \in Msg \cup {None}, r \in Seq(Client) : job' = [msg |-> m, rest |-> r]
      <4>1. CASE BroadcastEnds \/ PositionUpdate \/ PositionUpdateEnds
        BY <3>1, <4>1 DEF BroadcastEnds, PositionUpdate, PositionUpdateEnds, NoJob
      <4>2. ASSUME NEW m \in Msg, NEW k \in Kind, BroadcastMsg(m, k)
            PROVE  \E n \in Msg \cup {None}, r \in Seq(Client) : job' = [msg |-> n, rest |-> r]
        BY <3>1, <4>2 DEF BroadcastMsg
      <4>3. ASSUME job.rest # <<>>, job' = [job EXCEPT !.rest = Tail(@)]
            PROVE  \E n \in Msg \cup {None}, r \in Seq(Client) : job' = [msg |-> n, rest |-> r]
        <5>1. job' = [msg |-> job.msg, rest |-> Tail(job.rest)]
          BY <3>1, <4>3
        <5> QED
          BY <3>1, <3>2, <4>3, <5>1
      <4> QED
        BY <1>3, <4>1, <4>2, <4>3 DEF Posts, DispatchMsg, PostMsg, SkipLastMouseClient
    <3> QED
      BY <3>3
  <2>3. queue' \in [Client -> Seq(Msg \cup {WMQ_QUIT})]
    <3>1. ASSUME NEW c \in Client, NEW m \in Msg, queue' = [queue EXCEPT ![c] = Append(@, m)]
          PROVE  queue' \in [Client -> Seq(Msg \cup {WMQ_QUIT})]
      BY <1>1, <3>1 DEF SequencesOK
    <3>2. job.rest # <<>> => Head(job.rest) \in Client
      BY <1>1 DEF SequencesOK
    <3>3. CASE DispatchMsg
      <4>1. job.msg \in Msg
        BY <1>1, <3>3 DEF DispatchMsg, SequencesOK
      <4> QED
        BY <1>1, <3>1, <3>2, <3>3, <4>1 DEF DispatchMsg, SequencesOK
    <3>4. ASSUME NEW m \in Msg, PostMsg(m)
          PROVE  queue' \in [Client -> Seq(Msg \cup {WMQ_QUIT})]
      BY <1>1, <3>1, <3>2, <3>4 DEF PostMsg, SequencesOK
    <3>5. CASE ~DispatchMsg /\ ~\E m \in Msg : PostMsg(m)
      BY <1>1, <1>3, <3>5 DEF Posts, BroadcastMsg, BroadcastEnds, PositionUpdate,
         SkipLastMouseClient, PositionUpdateEnds, SequencesOK
    <3> QED
      BY <3>3, <3>4, <3>5
  <2> QED
    BY <1>1, <2>1, <2>2, <2>3 DEF SequencesOK
<1>4. ASSUME NEW c \in Client, Handles(c) PROVE SequencesOK'
  <2>1. job' = job
    BY <1>4 DEF Handles, Accepted, DrainMessage, DrainQuit, EndDrain, RemoveClient, FreeQueue
  <2>2. clients' \in Seq(Client)
    <3>1. /\ clients \in Seq(Client) /\ Append(clients, c) \in Seq(Client)
          /\ Without(clients, c) \in Seq(Client)
      BY <1>1, WithoutElements DEF SequencesOK, ServerInv, ListOK
    <3>2. clients' \in {clients, Append(clients, c), Without(clients, c)}
      BY <1>4 DEF Handles, Accepted, DrainMessage, DrainQuit, EndDrain, RemoveClient, FreeQueue
    <3> QED
      BY <3>1, <3>2
  <2>3. queue' \in [Client -> Seq(Msg \cup {WMQ_QUIT})]
    <3>1. queue[c] \in Seq(Msg \cup {WMQ_QUIT}) /\ <<>> \in Seq(Msg \cup {WMQ_QUIT})
      BY <1>1 DEF SequencesOK
    <3>2. queue[c] # <<>> => Tail(queue[c]) \in Seq(Msg \cup {WMQ_QUIT})
      BY <3>1
    <3>3. \/ UNCHANGED queue \/ queue' = [queue EXCEPT ![c] = <<>>]
          \/ queue[c] # <<>> /\ queue' = [queue EXCEPT ![c] = Tail(@)]
      BY <1>4 DEF Handles, Accepted, DrainMessage, DrainQuit, EndDrain, RemoveClient, FreeQueue
    <3> QED
      BY <1>1, <3>1, <3>2, <3>3 DEF SequencesOK
  <2>4. stored' \in [Client -> SUBSET Msg]
    <3>1. CASE DrainMessage(c)
      <4>1. Head(queue[c]) \in Msg
        BY <1>1, <3>1 DEF DrainMessage, SequencesOK
      <4> QED
        BY <1>1, <3>1, <4>1 DEF DrainMessage, SequencesOK
    <3>2. CASE ~DrainMessage(c)
      BY <1>1, <1>4, <3>2
         DEF Handles, Accepted, DrainQuit, EndDrain, RemoveClient, FreeQueue, SequencesOK
    <3> QED
      BY <3>1, <3>2
  <2> QED
    BY <1>1, <2>1, <2>2, <2>3, <2>4 DEF SequencesOK
<1>5. CASE BroadcastQuit
  <2>1. \A c \in Client : Append(queue[c], WMQ_QUIT) \in Seq(Msg \cup {WMQ_QUIT})
    BY <1>1 DEF SequencesOK
  <2> QED
    BY <1>1, <1>5, <2>1 DEF BroadcastQuit, SequencesOK
<1> QED
  BY <1>2, <1>3, <1>4, <1>5, Steps

-----------------------------------------------------------------------------
(***************************************************************************)
(* The list of clients and the threads.                                    *)
(***************************************************************************)

(* The tasks of a client that is in the list. *)
InList == {"init", "serve", "drain", "quit", "leave"}

(* The list has exactly the clients whose threads have not left it. *)
LEMMA ListStep ==
    ASSUME ServerInv, [NextServer]_allVars
    PROVE  ListOK'
<1>1. /\ NoRepeats(clients, Client) /\ clients \in Seq(Client)
      /\ Elements(clients) = {c \in Client : task[c] \in InList}
      /\ task \in [Client -> {"none", "init", "serve", "drain", "quit", "leave", "removing",
                              "removed"}]
  BY DEF ServerInv, ListOK, ServerTypeOK, SequencesOK, PlacesOK, InList
<1>2. ASSUME UNCHANGED clients, \A c \in Client : task'[c] \in InList <=> task[c] \in InList
      PROVE  ListOK'
  BY <1>1, <1>2 DEF ListOK, InList
<1>3. ASSUME NEW c \in Client, NEW t, task' = [task EXCEPT ![c] = t], UNCHANGED clients,
             t \in InList <=> task[c] \in InList
      PROVE  ListOK'
  BY <1>1, <1>2, <1>3
<1>4. CASE Idles
  <2>1. CASE UNCHANGED task
    BY <1>2, <1>4, <2>1, IdlesLeave
  <2>2. ASSUME NEW c \in Client,
               \/ Subscribe(c) \/ StartFails(c) \/ BeginDrain(c) \/ LeaveLoop(c)
               \/ UnlockList(c)
        PROVE  ListOK'
    <3>1. PICK t : /\ task' = [task EXCEPT ![c] = t] /\ UNCHANGED clients
                   /\ t \in InList <=> task[c] \in InList
      BY <2>2 DEF Subscribe, StartFails, BeginDrain, LeaveLoop, UnlockList, Becomes, InList
    <3> QED
      BY <1>3, <3>1
  <2> QED
    BY <1>4, <2>1, <2>2
       DEF Idles, FrameUpdate, GrabUpdate, FrameUpdateWaits, FindFirstClient, TakePreferredFps,
           SubsystemEnds, StopListening, ClientsGone, Uninit, HandleFrame, allVars, serverVars,
           SubsystemBecomes, ServerThread
<1>5. CASE Posts
  BY <1>2, <1>5, PostsLeave
<1>6. ASSUME NEW c \in Client, DrainMessage(c) \/ DrainQuit(c) \/ EndDrain(c) \/ FreeQueue(c)
      PROVE  ListOK'
  <2>1. CASE DrainMessage(c)
    BY <1>2, <2>1 DEF DrainMessage
  <2>2. CASE DrainQuit(c) \/ EndDrain(c) \/ FreeQueue(c)
    <3>1. PICK t : /\ task' = [task EXCEPT ![c] = t] /\ UNCHANGED clients
                   /\ t \in InList <=> task[c] \in InList
      BY <2>2 DEF DrainQuit, EndDrain, FreeQueue, InList
    <3> QED
      BY <1>3, <3>1
  <2> QED
    BY <1>6, <2>1, <2>2
<1>7. ASSUME NEW c \in Client, Accepted(c) PROVE ListOK'
  <2>1. /\ clients' = Append(clients, c) /\ task' = [task EXCEPT ![c] = "init"]
        /\ task[c] = "none"
    BY <1>7 DEF Accepted
  <2>2. c \notin Elements(clients)
    BY <1>1, <2>1 DEF InList
  <2>3. NoRepeats(clients', Client) /\ Elements(clients') = Elements(clients) \cup {c}
    BY <1>1, <2>1, <2>2, AppendElements
  <2>4. \A d \in Client : task'[d] \in InList <=> d = c \/ task[d] \in InList
    BY <1>1, <2>1 DEF InList
  <2> QED
    BY <1>1, <2>3, <2>4 DEF ListOK, InList
<1>8. ASSUME NEW c \in Client, RemoveClient(c) PROVE ListOK'
  <2>1. clients' = Without(clients, c) /\ task' = [task EXCEPT ![c] = "removing"]
    BY <1>8 DEF RemoveClient
  <2>2. NoRepeats(clients', Client) /\ Elements(clients') = Elements(clients) \ {c}
    BY <1>1, <2>1, WithoutElements
  <2>3. \A d \in Client : task'[d] \in InList <=> d # c /\ task[d] \in InList
    BY <1>1, <2>1 DEF InList
  <2> QED
    BY <1>1, <2>2, <2>3 DEF ListOK, InList
<1>9. CASE BroadcastQuit
  BY <1>2, <1>9 DEF BroadcastQuit
<1> QED
  BY <1>4, <1>5, <1>6, <1>7, <1>8, <1>9, Steps DEF Handles

(* The threads keep to each other's order. *)
LEMMA ThreadsStep ==
    ASSUME IndInv, ServerInv, [NextServer]_allVars
    PROVE  ThreadsOK'
<1>1. /\ task \in [Client -> {"none", "init", "serve", "drain", "quit", "leave", "removing",
                              "removed"}]
      /\ client \in [Client -> {"out", "loop", "frame", "barrier", "awake"}]
      /\ \A c \in Client : client[c] # "out" => task[c] \in {"serve", "drain", "quit"}
      /\ subsystem \in {"rate", "post", "ended"} => server = "idle"
      /\ thread \in {"wait", "exited", "uninit"} => subsystem = "ended"
      /\ thread \in {"listen", "join"} => \A c \in Client : ~closed[c]
      /\ closed \in [Client -> BOOLEAN] /\ thread \in {"listen", "join", "wait", "exited", "uninit"}
  BY DEF ServerInv, ServerTypeOK, PlacesOK, MessagesOK, ThreadsOK, IndInv, TypeOK
<1>2. \A c \in Client : client'[c] # "out" => task'[c] \in {"serve", "drain", "quit"}
  <2>1. CASE UNCHANGED <<client, task>>
    BY <1>1, <2>1
  <2>2. ASSUME NEW c \in Client, UNCHANGED client,
               NEW t, task' = [task EXCEPT ![c] = t],
               task[c] \in {"serve", "drain", "quit"} => t \in {"serve", "drain", "quit"}
        PROVE  \A d \in Client : client'[d] # "out" => task'[d] \in {"serve", "drain", "quit"}
    BY <1>1, <2>2
  <2>3. ASSUME NEW c \in Client, StartFails(c) \/ BeginDrain(c) \/ UnlockList(c)
        PROVE  \A d \in Client : client'[d] # "out" => task'[d] \in {"serve", "drain", "quit"}
    <3>1. PICK t : /\ UNCHANGED client /\ task' = [task EXCEPT ![c] = t]
                   /\ task[c] \in {"serve", "drain", "quit"} => t \in {"serve", "drain", "quit"}
      BY <2>3 DEF StartFails, BeginDrain, UnlockList, Becomes, mceVars
    <3> QED
      BY <2>2, <3>1
  <2>4. ASSUME NEW c \in Client, Subscribe(c)
        PROVE  \A d \in Client : client'[d] # "out" => task'[d] \in {"serve", "drain", "quit"}
    <3>1. PICK x : client' = [client EXCEPT ![c] = x] /\ task' = [task EXCEPT ![c] = "serve"]
      BY <2>4 DEF Subscribe, GetSubscriber, Consume, Becomes
    <3> QED
      BY <1>1, <3>1
  <2>5. ASSUME NEW c \in Client, HandleFrame(c)
        PROVE  \A d \in Client : client'[d] # "out" => task'[d] \in {"serve", "drain", "quit"}
    <3>1. PICK x : client' = [client EXCEPT ![c] = x] /\ UNCHANGED task /\ task[c] = "serve"
      BY <2>5 DEF HandleFrame, StartFrame, ConsumeFrame, LeaveBarrier, ResumeConsume, Consume,
                  serverVars
    <3> QED
      BY <1>1, <3>1
  <2>6. ASSUME NEW c \in Client, LeaveLoop(c)
        PROVE  \A d \in Client : client'[d] # "out" => task'[d] \in {"serve", "drain", "quit"}
    <3>1. client' = [client EXCEPT ![c] = "out"] /\ task' = [task EXCEPT ![c] = "leave"]
      BY <2>6 DEF LeaveLoop, ReleaseSubscriber, Consume, Becomes
    <3> QED
      BY <1>1, <3>1
  <2>7. ASSUME NEW c \in Client, Handles(c)
        PROVE  \A d \in Client : client'[d] # "out" => task'[d] \in {"serve", "drain", "quit"}
    <3>1. CASE DrainMessage(c)
      BY <2>1, <3>1 DEF DrainMessage, mceVars
    <3>2. CASE ~DrainMessage(c)
      <4>1. PICK t : /\ UNCHANGED client /\ task' = [task EXCEPT ![c] = t]
                     /\ task[c] \in {"serve", "drain", "quit"} => t \in {"serve", "drain", "quit"}
        BY <2>7, <3>2 DEF Handles, Accepted, DrainQuit, EndDrain, RemoveClient, FreeQueue, mceVars
      <4> QED
        BY <2>2, <4>1
    <3> QED
      BY <3>1, <3>2
  <2>8. CASE \/ FrameUpdate \/ GrabUpdate \/ FrameUpdateWaits \/ FindFirstClient
             \/ TakePreferredFps \/ SubsystemEnds \/ StopListening \/ ClientsGone \/ Uninit
             \/ UNCHANGED allVars \/ BroadcastQuit \/ Posts
    <3>1. UNCHANGED <<client, task>>
      BY <2>8, PostsLeave
         DEF FrameUpdate, GrabUpdate, FrameUpdateWaits, FindFirstClient, TakePreferredFps,
             SubsystemEnds, StopListening, ClientsGone, Uninit, allVars, serverVars, mceVars,
             SubsystemBecomes, ServerThread, BroadcastQuit, PublishAndWait, ServerWakes,
             ServerReturns
    <3> QED
      BY <2>1, <3>1
  <2> QED
    BY <2>3, <2>4, <2>5, <2>6, <2>7, <2>8, Steps DEF Idles
<1>3. subsystem' \in {"rate", "post", "ended"} => server' = "idle"
  <2>1. CASE FrameUpdate \/ GrabUpdate \/ FrameUpdateWaits \/ FindFirstClient
             \/ TakePreferredFps \/ SubsystemEnds
    BY <1>1, <2>1
       DEF FrameUpdate, GrabUpdate, FrameUpdateWaits, FindFirstClient, TakePreferredFps,
           SubsystemEnds, serverVars, mceVars, SubsystemBecomes, PublishAndWait, ServerWakes,
           ServerReturns
  <2>2. CASE Posts
    <3>1. server' = server /\ (subsystem' \in {"rate", "post", "ended"} => server = "idle")
      BY <1>1, <2>2
         DEF Posts, BroadcastMsg, DispatchMsg, BroadcastEnds, PositionUpdate, PostMsg,
             SkipLastMouseClient, PositionUpdateEnds, mceVars
    <3> QED
      BY <3>1
  <2>3. ASSUME NEW c \in Client,
               \/ Subscribe(c) \/ StartFails(c) \/ HandleFrame(c) \/ BeginDrain(c)
               \/ LeaveLoop(c) \/ UnlockList(c) \/ Handles(c)
        PROVE  UNCHANGED <<subsystem, server>>
    BY <2>3 DEF Subscribe, StartFails, HandleFrame, BeginDrain, LeaveLoop, UnlockList, Handles,
         Accepted, DrainMessage, DrainQuit, EndDrain, RemoveClient, FreeQueue, Becomes,
         serverVars, mceVars, GetSubscriber, StartFrame, ConsumeFrame, LeaveBarrier,
         ResumeConsume, ReleaseSubscriber
  <2>4. CASE StopListening \/ ClientsGone \/ Uninit \/ UNCHANGED allVars \/ BroadcastQuit
    BY <1>1, <2>4 DEF StopListening, ClientsGone, Uninit, allVars, serverVars, mceVars,
         ServerThread, BroadcastQuit
  <2> QED
    BY <1>1, <2>1, <2>2, <2>3, <2>4, Steps DEF Idles
<1>4. thread' \in {"wait", "exited", "uninit"} => subsystem' = "ended"
  <2>1. CASE StopListening \/ ClientsGone \/ Uninit \/ BroadcastQuit
    BY <1>1, <2>1 DEF StopListening, ClientsGone, Uninit, ServerThread, BroadcastQuit
  <2>2. CASE ~(StopListening \/ ClientsGone \/ Uninit \/ BroadcastQuit)
    <3>1. thread' = thread
      BY <2>2, Steps, PostsLeave
         DEF Idles, FrameUpdate, GrabUpdate, FrameUpdateWaits, FindFirstClient,
             TakePreferredFps, SubsystemEnds, Subscribe, StartFails, HandleFrame, BeginDrain,
             LeaveLoop, UnlockList, allVars, serverVars, SubsystemBecomes, Becomes, Handles,
             Accepted, DrainMessage, DrainQuit, EndDrain, RemoveClient, FreeQueue
    <3>2. subsystem = "ended" => subsystem' = "ended"
      <4>1. CASE Posts
        BY <4>1 DEF Posts, BroadcastMsg, DispatchMsg, BroadcastEnds, PositionUpdate, PostMsg,
             SkipLastMouseClient, PositionUpdateEnds, ServerInv, JobOK, NoJob
      <4>2. CASE ~Posts
        BY <2>2, <4>2, Steps
           DEF Idles, FrameUpdate, GrabUpdate, FrameUpdateWaits, FindFirstClient,
             TakePreferredFps, SubsystemEnds, Subscribe, StartFails, HandleFrame, BeginDrain,
             LeaveLoop, UnlockList, allVars, serverVars, SubsystemBecomes, Becomes, Handles,
             Accepted, DrainMessage, DrainQuit, EndDrain, RemoveClient, FreeQueue
      <4> QED
        BY <4>1, <4>2
    <3> QED
      BY <1>1, <3>1, <3>2
  <2> QED
    BY <2>1, <2>2
<1>5. thread' \in {"listen", "join"} => \A c \in Client : ~closed'[c]
  <2>1. CASE BroadcastQuit
    BY <2>1 DEF BroadcastQuit
  <2>2. CASE Idles
    <3>1. thread' \in {"listen", "join"} => thread \in {"listen", "join"}
      BY <1>1, <2>2
         DEF Idles, FrameUpdate, GrabUpdate, FrameUpdateWaits, FindFirstClient,
             TakePreferredFps, SubsystemEnds, Subscribe, StartFails, HandleFrame, BeginDrain,
             LeaveLoop, UnlockList, allVars, serverVars, SubsystemBecomes, Becomes,
             StopListening, ClientsGone, Uninit, ServerThread
    <3> QED
      BY <1>1, <2>2, <3>1, IdlesLeave
  <2>3. CASE Posts
    BY <1>1, <2>3, PostsLeave
  <2>4. ASSUME NEW c \in Client, Handles(c)
        PROVE  thread' \in {"listen", "join"} => \A d \in Client : ~closed'[d]
    <3>1. thread' = thread /\ (closed' = closed \/ closed' = [closed EXCEPT ![c] = FALSE])
      BY <2>4 DEF Handles, Accepted, DrainMessage, DrainQuit, EndDrain, RemoveClient, FreeQueue
    <3> QED
      BY <1>1, <3>1
  <2> QED
    BY <2>1, <2>2, <2>3, <2>4, Steps
<1> QED
  BY <1>2, <1>3, <1>4, <1>5 DEF ThreadsOK

(* When the server thread has ended nobody uses what is freed then. *)
LEMMA OutlivesStep ==
    ASSUME IndInv', ServerInv, [NextServer]_allVars, ListOK', ThreadsOK', PlacesOK',
           SequencesOK'
    PROVE  ServerOutlivesClients'
<1>1. clients \in Seq(Client) /\ Elements(clients) \subseteq Client
  BY DEF ServerInv, ServerTypeOK, SequencesOK, ListOK
<1>5. deserted \in BOOLEAN /\ deserted' \in BOOLEAN
  BY DEF ServerInv, ServerTypeOK, PlacesOK
<1>8. Idles => deserted' = deserted
  BY DEF Idles, FrameUpdate, GrabUpdate, FrameUpdateWaits, FindFirstClient,
         TakePreferredFps, SubsystemEnds, Subscribe, StartFails, HandleFrame, BeginDrain,
         LeaveLoop, UnlockList, allVars, serverVars, SubsystemBecomes, Becomes,
         StopListening, ClientsGone, Uninit, ServerThread
<1>6. deserted' = deserted \/ BroadcastQuit
  <2>1. CASE Idles
    BY <1>8, <2>1
  <2>2. CASE Posts
    BY <2>2, PostsLeave
  <2>3. CASE \E c \in Client : Handles(c)
    BY <2>3 DEF Handles, Accepted, DrainMessage, DrainQuit, EndDrain, RemoveClient, FreeQueue
  <2> QED
    BY <2>1, <2>2, <2>3, Steps
<1>2. thread' \in {"exited", "uninit"} /\ ~deserted' => clients' = <<>>
  <2> SUFFICES ASSUME thread' \in {"exited", "uninit"}, ~deserted' PROVE clients' = <<>>
    OBVIOUS
  <2>1. CASE Idles
    <3>2. ~deserted
      BY <1>5, <1>8, <2>1
    <3>1. thread \in {"exited", "uninit"} \/ clients = <<>>
      BY <2>1
         DEF Idles, FrameUpdate, GrabUpdate, FrameUpdateWaits, FindFirstClient,
             TakePreferredFps, SubsystemEnds, Subscribe, StartFails, HandleFrame, BeginDrain,
             LeaveLoop, UnlockList, allVars, serverVars, SubsystemBecomes, Becomes,
             StopListening, ClientsGone, Uninit, ServerThread
    <3> QED
      BY <2>1, <3>1, <3>2, IdlesLeave DEF ServerInv, ServerOutlivesClients
  <2>2. CASE Posts
    BY <2>2, PostsLeave DEF ServerInv, ServerOutlivesClients
  <2>3. ASSUME NEW c \in Client, Handles(c)
        PROVE  clients' = <<>>
    <3>1. thread' = thread /\ deserted' = deserted
      BY <2>3 DEF Handles, Accepted, DrainMessage, DrainQuit, EndDrain, RemoveClient, FreeQueue
    <3>2. clients = <<>> /\ task[c] \in {"none", "removing", "removed"} /\ thread # "listen"
      BY <2>3, <3>1 DEF ServerInv, ServerOutlivesClients
    <3> QED
      BY <2>3, <3>2
         DEF Handles, Accepted, DrainMessage, DrainQuit, EndDrain, RemoveClient, FreeQueue
  <2>4. CASE BroadcastQuit
    <3>1. PICK reached : /\ thread' = IF reached # {} THEN "wait" ELSE "exited"
                         /\ deserted' = (reached = {} /\ clients # <<>>)
      BY <2>4 DEF BroadcastQuit
    <3>2. reached = {}
      BY <3>1
    <3>3. clients = <<>>
      BY <3>1, <3>2
    <3> QED
      BY <2>4, <3>3 DEF BroadcastQuit
  <2> QED
    BY <2>1, <2>2, <2>3, <2>4, Steps
<1>3. ASSUME thread' = "uninit", ~deserted' PROVE \A c \in Client : task'[c] # "removing"
  <2>1. CASE Uninit
    BY <2>1 DEF Uninit, ServerThread, ListUnlocked
  <2>2. CASE ~Uninit
    <3>1. thread = "uninit"
      <4>1. CASE Idles
        BY <1>3, <2>2, <4>1
           DEF Idles, FrameUpdate, GrabUpdate, FrameUpdateWaits, FindFirstClient,
             TakePreferredFps, SubsystemEnds, Subscribe, StartFails, HandleFrame, BeginDrain,
             LeaveLoop, UnlockList, allVars, serverVars, SubsystemBecomes, Becomes,
             StopListening, ClientsGone, ServerThread
      <4>2. CASE Posts
        BY <1>3, <4>2, PostsLeave
      <4>3. CASE BroadcastQuit \/ \E c \in Client : Handles(c)
        BY <1>3, <4>3 DEF Handles, Accepted, DrainMessage, DrainQuit, EndDrain, RemoveClient,
                          FreeQueue, BroadcastQuit
      <4> QED
        BY <4>1, <4>2, <4>3, Steps
    <3>5. ~deserted
      BY <1>3, <1>5, <1>6, <3>1 DEF BroadcastQuit
    <3>2. \A c \in Client : task[c] \in {"none", "removed"}
      BY <3>1, <3>5 DEF ServerInv, ServerOutlivesClients
    <3>3. task \in [Client -> {"none", "init", "serve", "drain", "quit", "leave", "removing",
                               "removed"}]
      BY DEF ServerInv, ServerTypeOK, PlacesOK
    <3>4. UNCHANGED task \/ \E c \in Client : task' = [task EXCEPT ![c] = "none"]
      <4>1. CASE Idles
        BY <3>2, <4>1
           DEF Idles, FrameUpdate, GrabUpdate, FrameUpdateWaits, FindFirstClient,
             TakePreferredFps, SubsystemEnds, Subscribe, StartFails, HandleFrame, BeginDrain,
             LeaveLoop, UnlockList, allVars, serverVars, SubsystemBecomes, Becomes,
             StopListening, ClientsGone, ServerThread, Uninit
      <4>2. CASE Posts
        BY <4>2, PostsLeave
      <4>3. CASE BroadcastQuit \/ \E c \in Client : Handles(c)
        BY <3>1, <3>2, <4>3 DEF Handles, Accepted, DrainMessage, DrainQuit, EndDrain,
                          RemoveClient, FreeQueue, BroadcastQuit
      <4> QED
        BY <4>1, <4>2, <4>3, Steps
    <3> QED
      BY <3>2, <3>3, <3>4
  <2> QED
    BY <2>1, <2>2
<1>7. thread' \in {"exited", "uninit"} => subsystem' = "ended" /\ server' = "idle"
  BY DEF ThreadsOK
<1>4. ASSUME thread' \in {"exited", "uninit"}, ~deserted'
      PROVE  /\ subscribers' = {}
             /\ \A c \in Client : task'[c] \in {"none", "removing", "removed"}
  <2>2. Elements(clients') = {}
    BY <1>2, <1>4 DEF Elements
  <2>3. \A c \in Client : task'[c] \notin {"init", "serve", "drain", "quit", "leave"}
    BY <2>2 DEF ListOK
  <2>4. \A c \in Client : task'[c] \in {"none", "removing", "removed"}
    BY <2>3 DEF PlacesOK
  <2>5. \A c \in Client : client'[c] = "out"
    BY <2>4 DEF ThreadsOK
  <2>6. subscribers' = {}
    BY <2>5 DEF IndInv, SubscribersOK
  <2> QED
    BY <2>4, <2>6
<1> QED
  BY <1>2, <1>3, <1>4, <1>7 DEF ServerOutlivesClients

-----------------------------------------------------------------------------
(***************************************************************************)
(* Messages and references.                                                *)
(***************************************************************************)

(* Who has a message refers to it; what nobody refers to is free, and the  *)
(* other way round.                                                        *)
LEMMA Referenced ==
    ASSUME RefsCounted, NEW m \in Msg
    PROVE  /\ refs[m] \in Nat
           /\ \A c \in Client : m \in Elements(queue[c]) \cup stored[c] => refs[m] > 0
           /\ job.msg = m => refs[m] > 0
           /\ ~live[m] => /\ refs[m] = 0 /\ job.msg # m
                          /\ Queued(m) = {} /\ Drained(m) = {}
                          /\ \A c \in Client : m \notin Elements(queue[c]) \cup stored[c]
<1>1. Queued(m) \in SUBSET Client /\ Drained(m) \in SUBSET Client
  BY DEF Queued, Drained
<1>2. /\ Cardinality(Queued(m)) \in Nat /\ (Cardinality(Queued(m)) = 0 <=> Queued(m) = {})
      /\ Cardinality(Drained(m)) \in Nat /\ (Cardinality(Drained(m)) = 0 <=> Drained(m) = {})
  BY <1>1, CountClients
<1>3. /\ refs[m] = Cardinality(Queued(m)) + Cardinality(Drained(m))
                   + (IF job.msg = m THEN 1 ELSE 0)
      /\ live[m] <=> refs[m] > 0
  BY DEF RefsCounted
<1>4. refs[m] \in Nat /\ (job.msg = m => refs[m] > 0)
  BY <1>2, <1>3
<1>5. ASSUME NEW c \in Client, m \in Elements(queue[c]) \cup stored[c] PROVE refs[m] > 0
  <2>1. Queued(m) # {} \/ Drained(m) # {}
    BY <1>5 DEF Queued, Drained
  <2> QED
    BY <1>2, <1>3, <2>1
<1>6. ~live[m] => refs[m] = 0
  BY <1>3, <1>4
<1>7. refs[m] = 0 => Queued(m) = {} /\ Drained(m) = {} /\ job.msg # m
  BY <1>2, <1>3
<1>8. refs[m] = 0 => \A c \in Client : m \notin Elements(queue[c]) \cup stored[c]
  BY <1>4, <1>5
<1> QED
  BY <1>4, <1>5, <1>6, <1>7, <1>8

(* What shadow_msg_out_release does to messages that are referred to. *)
LEMMA Released ==
    ASSUME MessagesOK, RefsCounted, NEW msgs \in SUBSET Msg, Release(msgs),
           \A m \in msgs : refs[m] > 0
    PROVE  /\ refs' \in [Msg -> Nat] /\ live' \in [Msg -> BOOLEAN] /\ kind' = kind
           /\ \A m \in msgs : refs'[m] = refs[m] - 1
           /\ \A m \in Msg \ msgs : refs'[m] = refs[m]
           /\ \A m \in Msg : live'[m] <=> refs'[m] > 0
<1>1. refs \in [Msg -> Nat] /\ \A m \in Msg : live[m] <=> refs[m] > 0
  BY DEF MessagesOK, RefsCounted
<1>2. refs' = [m \in Msg |-> IF m \in msgs THEN refs[m] - 1 ELSE refs[m]]
  BY DEF Release
<1>3. \A m \in Msg : refs'[m] \in Nat
  BY <1>1, <1>2
<1>4. refs' \in [Msg -> Nat]
  BY <1>2, <1>3
<1>5. live' = [m \in Msg |-> live[m] /\ ~(m \in msgs /\ refs'[m] <= 0)]
  BY DEF Release
<1>6. live' \in [Msg -> BOOLEAN]
  BY <1>5, Zenon
<1>7. ASSUME NEW m \in Msg PROVE live'[m] <=> refs'[m] > 0
  <2>1. live'[m] <=> live[m] /\ ~(m \in msgs /\ refs'[m] <= 0)
    BY <1>5
  <2>2. refs'[m] \in Nat /\ (m \notin msgs => refs'[m] = refs[m]) /\ (live[m] <=> refs[m] > 0)
    BY <1>1, <1>2, <1>3
  <2>3. (refs'[m] <= 0) <=> ~(refs'[m] > 0)
    BY <2>2
  <2>4. m \in msgs => live[m]
    BY <2>2
  <2> QED
    BY <2>1, <2>2, <2>3, <2>4
<1>8. kind' = kind
  BY DEF Release
<1>9. /\ \A m \in msgs : refs'[m] = refs[m] - 1
      /\ \A m \in Msg \ msgs : refs'[m] = refs[m]
  BY <1>2
<1> QED
  BY <1>4, <1>6, <1>7, <1>8, <1>9

(* What a new message is. *)
LEMMA Created ==
    ASSUME MessagesOK, NEW m \in Msg, NEW k \in Accumulated \cup {"samples"}, NEW n \in {0, 1},
           NewMessage(m, k, n)
    PROVE  /\ refs' \in [Msg -> Nat] /\ live' \in [Msg -> BOOLEAN]
           /\ kind' \in [Msg -> Accumulated \cup {"samples"}]
           /\ refs'[m] = n /\ (live'[m] <=> n > 0)
           /\ \A x \in Msg : x # m => refs'[x] = refs[x] /\ live'[x] = live[x]
<1>1. /\ refs' = [refs EXCEPT ![m] = n] /\ live' = [live EXCEPT ![m] = n > 0]
      /\ kind' = [kind EXCEPT ![m] = k]
  BY DEF NewMessage
<1>2. refs \in [Msg -> Nat] /\ live \in [Msg -> BOOLEAN]
      /\ kind \in [Msg -> Accumulated \cup {"samples"}]
  BY DEF MessagesOK
<1>3. refs' \in [Msg -> Nat] /\ kind' \in [Msg -> Accumulated \cup {"samples"}]
  BY <1>1, <1>2
<1>4. live' \in [Msg -> BOOLEAN]
  <2>1. (n > 0) \in BOOLEAN
    OBVIOUS
  <2> QED
    BY <1>1, <1>2, <2>1, Zenon
<1>5. refs'[m] = n /\ \A x \in Msg : x # m => refs'[x] = refs[x]
  BY <1>1, <1>2
<1>6. (live'[m] <=> n > 0) /\ \A x \in Msg : x # m => live'[x] = live[x]
  BY <1>1, <1>2, Zenon
<1> QED
  BY <1>3, <1>4, <1>5, <1>6

(* What a step that sends a message puts in a queue: a message the client  *)
(* neither has there nor has drained. The client is the next of the list.  *)
LEMMA PostsAppend ==
    ASSUME ServerInv, RefsCounted, Posts
    PROVE  \/ UNCHANGED queue
           \/ \E c \in Elements(clients), m \in Msg :
                  /\ queue' = [queue EXCEPT ![c] = Append(@, m)]
                  /\ m \notin Elements(queue[c]) \cup stored[c]
                  /\ c = Head(job.rest) /\ job.rest # <<>> /\ job' = [job EXCEPT !.rest = Tail(@)]
                  /\ m = job.msg \/ (~live[m] /\ NewMessage(m, "position", 1))
<1>1. /\ job.rest \in Seq(Client) /\ job.msg \in Msg \cup {None}
      /\ Elements(job.rest) \subseteq Elements(clients) /\ Elements(clients) \subseteq Client
      /\ \A c \in Elements(job.rest) : job.msg \notin Elements(queue[c]) \cup stored[c]
  BY DEF ServerInv, ServerTypeOK, SequencesOK, JobOK, ListOK
<1>2. job.rest # <<>> => Head(job.rest) \in Elements(job.rest)
  BY <1>1, HeadTailElements
<1>3. CASE DispatchMsg
  <2>1. job.msg \in Msg /\ job.rest # <<>>
    BY <1>1, <1>3 DEF DispatchMsg
  <2> QED
    BY <1>1, <1>2, <1>3, <2>1 DEF DispatchMsg
<1>4. ASSUME NEW m \in Msg, PostMsg(m), ~UNCHANGED queue
      PROVE  \E c \in Elements(clients), n \in Msg :
                  /\ queue' = [queue EXCEPT ![c] = Append(@, n)]
                  /\ n \notin Elements(queue[c]) \cup stored[c]
                  /\ c = Head(job.rest) /\ job.rest # <<>> /\ job' = [job EXCEPT !.rest = Tail(@)]
                  /\ n = job.msg \/ (~live[n] /\ NewMessage(n, "position", 1))
  <2>1. /\ job.rest # <<>> /\ queue' = [queue EXCEPT ![Head(job.rest)] = Append(@, m)]
        /\ NewMessage(m, "position", 1) /\ job' = [job EXCEPT !.rest = Tail(@)]
    BY <1>4 DEF PostMsg
  <2>2. ~live[m]
    BY <2>1 DEF NewMessage
  <2>3. Head(job.rest) \in Elements(clients) /\ Head(job.rest) \in Client
    BY <1>1, <1>2, <2>1
  <2>4. m \notin Elements(queue[Head(job.rest)]) \cup stored[Head(job.rest)]
    BY <2>2, <2>3, Referenced
  <2> QED
    BY <2>1, <2>2, <2>3, <2>4
<1>5. CASE ~DispatchMsg /\ ~\E m \in Msg : PostMsg(m)
  BY <1>5 DEF Posts, BroadcastMsg, BroadcastEnds, PositionUpdate, SkipLastMouseClient,
              PositionUpdateEnds
<1> QED
  BY <1>3, <1>4, <1>5

(* No client gets a message twice. *)
LEMMA QueuesStep ==
    ASSUME ServerInv, RefsCounted, [NextServer]_allVars
    PROVE  QueuesOK'
<1>1. /\ QueuesOK /\ queue \in [Client -> Seq(Msg \cup {WMQ_QUIT})]
      /\ stored \in [Client -> SUBSET Msg]
      /\ task \in [Client -> {"none", "init", "serve", "drain", "quit", "leave", "removing",
                              "removed"}]
      /\ \A c \in Elements(clients) : c \in Client /\ task[c] # "none"
  BY DEF ServerInv, ServerTypeOK, SequencesOK, PlacesOK, ListOK
<1> DEFINE OK(q, s, t) == /\ NoRepeats(q, Msg) /\ Elements(q) \cap s = {}
                          /\ t # "drain" => s = {}
                          /\ t = "none" => q = <<>>
<1>2. (\A c \in Client : OK(queue'[c], stored'[c], task'[c])) => QueuesOK'
  BY DEF QueuesOK
<1>3. \A c \in Client : OK(queue[c], stored[c], task[c])
  BY <1>1 DEF QueuesOK
<1>4. OK(<<>>, {}, "none") /\ \A t : OK(<<>>, {}, t)
  BY DEF NoRepeats, Elements
<1> HIDE DEF OK
<1>5. CASE Idles
  <2>1. UNCHANGED <<queue, stored>>
    BY <1>5, IdlesLeave
  <2>2. ASSUME NEW c \in Client
        PROVE  (task'[c] = "none" => task[c] = "none") /\ (task[c] = "drain" => task'[c] = "drain")
    BY <1>1, <1>5
       DEF Idles, FrameUpdate, GrabUpdate, FrameUpdateWaits, FindFirstClient,
           TakePreferredFps, SubsystemEnds, Subscribe, StartFails, HandleFrame, BeginDrain,
           LeaveLoop, UnlockList, allVars, serverVars, SubsystemBecomes, Becomes,
           StopListening, ClientsGone, ServerThread, Uninit
  <2> QED
    BY <1>2, <1>3, <2>1, <2>2 DEF OK
<1>6. ASSUME NEW c \in Client, NEW m \in Msg \cup {WMQ_QUIT}, task[c] # "none",
             m \in Msg => m \notin Elements(queue[c]) \cup stored[c]
      PROVE  OK(Append(queue[c], m), stored[c], task[c])
  <2>1. queue[c] \in Seq(Msg \cup {WMQ_QUIT})
    BY <1>1
  <2>2. /\ Elements(Append(queue[c], m)) = Elements(queue[c]) \cup {m}
        /\ NoRepeats(Append(queue[c], m), Msg)
    BY <1>3, <1>6, <2>1, AppendElements DEF OK
  <2>3. m \notin stored[c]
    BY <1>1, <1>6, ShadowServerAssumption
  <2> QED
    BY <1>3, <1>6, <2>2, <2>3 DEF OK
<1>7. CASE Posts
  <2>1. UNCHANGED <<task, stored>>
    BY <1>7, PostsLeave
  <2>2. CASE UNCHANGED queue
    BY <1>2, <1>3, <2>1, <2>2
  <2>3. ASSUME NEW c \in Elements(clients), NEW m \in Msg,
               queue' = [queue EXCEPT ![c] = Append(@, m)],
               m \notin Elements(queue[c]) \cup stored[c]
        PROVE  QueuesOK'
    <3>1. c \in Client /\ OK(Append(queue[c], m), stored[c], task[c])
      BY <1>1, <1>6, <2>3
    <3> QED
      BY <1>1, <1>2, <1>3, <2>1, <2>3, <3>1
  <2> QED
    BY <1>7, <2>2, <2>3, PostsAppend
<1>8. CASE BroadcastQuit
  <2>1. UNCHANGED <<task, stored>>
    BY <1>8 DEF BroadcastQuit
  <2>2. ASSUME NEW c \in Client
        PROVE  queue'[c] = queue[c] \/ (queue'[c] = Append(queue[c], WMQ_QUIT) /\ task[c] # "none")
    BY <1>1, <1>8 DEF BroadcastQuit
  <2>3. \A c \in Client : OK(queue'[c], stored'[c], task'[c])
    BY <1>3, <1>6, <2>1, <2>2, ShadowServerAssumption
  <2> QED
    BY <1>2, <2>3
<1>9. ASSUME NEW c \in Client, Handles(c) PROVE QueuesOK'
  <2>1. ASSUME NEW q, NEW s, NEW t, OK(q, s, t), queue' = [queue EXCEPT ![c] = q],
               stored' = [stored EXCEPT ![c] = s], task' = [task EXCEPT ![c] = t]
        PROVE  QueuesOK'
    BY <1>1, <1>2, <1>3, <2>1
  <2>2. \A q : queue[c] = q => [queue EXCEPT ![c] = q] = queue
    BY <1>1
  <2>3. \A q : stored[c] = q => [stored EXCEPT ![c] = q] = stored
    BY <1>1
  <2>4. \A q : task[c] = q => [task EXCEPT ![c] = q] = task
    BY <1>1
  <2>5. OK(queue[c], stored[c], task[c]) /\ queue[c] \in Seq(Msg \cup {WMQ_QUIT})
    BY <1>1, <1>3
  <2>6. queue[c] # <<>> =>
            /\ Elements(queue[c]) = Elements(Tail(queue[c])) \cup {Head(queue[c])}
            /\ NoRepeats(Tail(queue[c]), Msg)
            /\ Head(queue[c]) \in Msg => Head(queue[c]) \notin Elements(Tail(queue[c]))
            /\ Head(queue[c]) \in Msg \cup {WMQ_QUIT}
    BY <2>5, HeadTailElements DEF OK
  <2>7. CASE Accepted(c)
    BY <1>4, <2>1, <2>7 DEF Accepted
  <2>8. CASE DrainMessage(c)
    <3> DEFINE m == Head(queue[c])
               previous == {s \in stored[c] : kind[s] = kind[m]}
               new == IF kind[m] \in Accumulated THEN (stored[c] \ previous) \cup {m}
                                                 ELSE stored[c]
    <3>1. /\ queue' = [queue EXCEPT ![c] = Tail(queue[c])]
          /\ stored' = [stored EXCEPT ![c] = new] /\ task' = task /\ task[c] = "drain"
          /\ queue[c] # <<>> /\ m # WMQ_QUIT
      BY <2>8 DEF DrainMessage
    <3>2. new \subseteq stored[c] \cup {m} /\ m \in Msg
      BY <2>6, <3>1
    <3> HIDE DEF new
    <3>3. OK(Tail(queue[c]), new, task[c])
      BY <2>5, <2>6, <3>1, <3>2 DEF OK
    <3>4. task' = [task EXCEPT ![c] = task[c]]
      BY <2>4, <3>1
    <3> QED
      BY <2>1, <3>1, <3>3, <3>4
  <2>9. CASE DrainQuit(c)
    <3>1. OK(Tail(queue[c]), {}, "quit")
      BY <2>6, <2>9 DEF OK, DrainQuit
    <3> QED
      BY <2>1, <2>9, <3>1 DEF DrainQuit
  <2>10. CASE EndDrain(c)
    <3>1. OK(queue[c], {}, "serve")
      BY <1>4, <2>10 DEF EndDrain
    <3>2. queue' = [queue EXCEPT ![c] = queue[c]]
      BY <2>2, <2>10 DEF EndDrain
    <3> QED
      BY <2>1, <2>10, <3>1, <3>2 DEF EndDrain
  <2>11. CASE RemoveClient(c)
    <3>1. OK(queue[c], stored[c], "removing")
      BY <2>5, <2>11 DEF OK, RemoveClient
    <3>2. queue' = [queue EXCEPT ![c] = queue[c]] /\ stored' = [stored EXCEPT ![c] = stored[c]]
      BY <2>2, <2>3, <2>11 DEF RemoveClient
    <3> QED
      BY <2>1, <2>11, <3>1, <3>2 DEF RemoveClient
  <2>12. CASE FreeQueue(c)
    <3>1. stored[c] = {}
      BY <2>5, <2>12 DEF OK, FreeQueue
    <3>2. stored' = [stored EXCEPT ![c] = {}]
      BY <2>3, <2>12, <3>1 DEF FreeQueue
    <3> QED
      BY <1>4, <2>1, <2>12, <3>2 DEF FreeQueue
  <2> QED
    BY <1>9, <2>7, <2>8, <2>9, <2>10, <2>11, <2>12 DEF Handles
<1> QED
  BY <1>5, <1>7, <1>8, <1>9, Steps

(* What a thread takes from the queue of a client was there. *)
LEMMA HandlesTake ==
    ASSUME ServerInv, NEW c \in Client,
           DrainMessage(c) \/ DrainQuit(c) \/ EndDrain(c) \/ FreeQueue(c)
    PROVE  \A d \in Client : Elements(queue'[d]) \cup stored'[d]
                                 \subseteq Elements(queue[d]) \cup stored[d]
<1>1. /\ queue \in [Client -> Seq(Msg \cup {WMQ_QUIT})] /\ stored \in [Client -> SUBSET Msg]
  BY DEF ServerInv, ServerTypeOK, SequencesOK
<1>2. Elements(<<>>) = {}
  BY DEF Elements
<1>3. queue[c] # <<>> => /\ Elements(Tail(queue[c])) \subseteq Elements(queue[c])
                         /\ Head(queue[c]) \in Elements(queue[c])
  BY <1>1, HeadTailElements
<1>4. \A d \in Client \ {c} : queue'[d] = queue[d] /\ stored'[d] = stored[d]
  BY <1>1 DEF DrainMessage, DrainQuit, EndDrain, FreeQueue
<1>5. Elements(queue'[c]) \cup stored'[c] \subseteq Elements(queue[c]) \cup stored[c]
  <2>1. CASE DrainMessage(c)
    <3>1. queue[c] # <<>> /\ queue'[c] = Tail(queue[c])
      BY <1>1, <2>1 DEF DrainMessage
    <3>2. stored'[c] \subseteq stored[c] \cup {Head(queue[c])}
      BY <1>1, <2>1 DEF DrainMessage
    <3> QED
      BY <1>3, <3>1, <3>2
  <2>2. CASE DrainQuit(c)
    BY <1>1, <1>3, <2>2 DEF DrainQuit
  <2>3. CASE EndDrain(c) \/ FreeQueue(c)
    BY <1>1, <1>2, <2>3 DEF EndDrain, FreeQueue
  <2> QED
    BY <2>1, <2>2, <2>3
<1> QED
  BY <1>4, <1>5

(* What is sent goes once to each client that is in the list. *)
LEMMA JobStep ==
    ASSUME ServerInv, RefsCounted, [NextServer]_allVars
    PROVE  JobOK'
<1>1. /\ subsystem # "post" => job = NoJob
      /\ NoRepeats(job.rest, Client)
      /\ Elements(job.rest) \subseteq Elements(clients)
      /\ \A c \in Elements(job.rest) : job.msg \notin Elements(queue[c]) \cup stored[c]
  BY DEF ServerInv, JobOK
<1>2. /\ job \in [msg : Msg \cup {None}, rest : Seq(Client)]
      /\ queue \in [Client -> Seq(Msg \cup {WMQ_QUIT})] /\ stored \in [Client -> SUBSET Msg]
      /\ clients \in Seq(Client) /\ Elements(clients) \subseteq Client
      /\ NoRepeats(clients, Client)
  BY DEF ServerInv, ServerTypeOK, SequencesOK, ListOK
<1>3. ASSUME job' = NoJob PROVE JobOK'
  <2>1. job'.rest = <<>>
    BY <1>3 DEF NoJob
  <2>2. NoRepeats(job'.rest, Client) /\ Elements(job'.rest) = {}
    BY <2>1 DEF NoRepeats, Elements
  <2> QED
    BY <1>3, <2>2 DEF JobOK, NoJob
<1>4. ASSUME subsystem' # "post" => job' = NoJob, UNCHANGED <<job, clients>>,
             \A d \in Client : Elements(queue'[d]) \cup stored'[d]
                                   \subseteq Elements(queue[d]) \cup stored[d]
      PROVE  JobOK'
  <2>1. \A c \in Elements(job'.rest) : job'.msg \notin Elements(queue'[c]) \cup stored'[c]
    BY <1>1, <1>2, <1>4
  <2> QED
    BY <1>1, <1>4, <2>1 DEF JobOK
<1>5. CASE Idles
  <2>1. UNCHANGED <<job, clients, queue, stored>>
    BY <1>5, IdlesLeave
  <2>2. subsystem' # "post" => subsystem # "post"
    BY <1>5
       DEF Idles, FrameUpdate, GrabUpdate, FrameUpdateWaits, FindFirstClient,
           TakePreferredFps, SubsystemEnds, Subscribe, StartFails, HandleFrame, BeginDrain,
           LeaveLoop, UnlockList, allVars, serverVars, SubsystemBecomes, Becomes,
           StopListening, ClientsGone, ServerThread, Uninit
  <2> QED
    BY <1>1, <1>4, <2>1, <2>2
<1>6. ASSUME NEW m \in Msg, NEW k \in Kind, BroadcastMsg(m, k) PROVE JobOK'
  <2>1. /\ job'.msg = m /\ job'.rest = clients /\ subsystem' = "post" /\ ~live[m]
        /\ UNCHANGED <<clients, queue, stored>>
    BY <1>6 DEF BroadcastMsg, NewMessage
  <2>2. \A c \in Client : m \notin Elements(queue[c]) \cup stored[c]
    BY <2>1, Referenced
  <2> QED
    BY <1>2, <2>1, <2>2 DEF JobOK
<1>7. CASE PositionUpdate
  <2>1. /\ job'.msg = None /\ job'.rest = clients /\ subsystem' = "post"
        /\ UNCHANGED <<clients, queue, stored>>
    BY <1>7 DEF PositionUpdate
  <2>2. ASSUME NEW c \in Client PROVE None \notin Elements(queue[c]) \cup stored[c]
    <3>1. queue[c] \in Seq(Msg \cup {WMQ_QUIT}) /\ stored[c] \subseteq Msg
      BY <1>2
    <3>2. Elements(queue[c]) \subseteq Msg \cup {WMQ_QUIT}
      BY <3>1 DEF Elements
    <3> QED
      BY <3>1, <3>2, ShadowServerAssumption
  <2> QED
    BY <1>2, <2>1, <2>2 DEF JobOK
<1>8. CASE BroadcastEnds \/ PositionUpdateEnds
  BY <1>3, <1>8 DEF BroadcastEnds, PositionUpdateEnds
<1>9. CASE DispatchMsg \/ SkipLastMouseClient \/ \E m \in Msg : PostMsg(m)
  <2>1. /\ job.rest # <<>> /\ job' = [job EXCEPT !.rest = Tail(@)] /\ subsystem' = subsystem
        /\ UNCHANGED <<clients, stored>>
    BY <1>9 DEF DispatchMsg, SkipLastMouseClient, PostMsg
  <2>2. job'.msg = job.msg /\ job'.rest = Tail(job.rest)
    BY <1>2, <2>1
  <2>3. subsystem = "post"
    BY <1>1, <2>1 DEF NoJob
  <2>4. /\ Elements(Tail(job.rest)) \subseteq Elements(job.rest)
        /\ NoRepeats(Tail(job.rest), Client) /\ Head(job.rest) \notin Elements(Tail(job.rest))
    BY <1>1, <1>2, <2>1, HeadTailElements
  <2>5. \A c \in Elements(Tail(job.rest)) : queue'[c] = queue[c]
    <3>1. CASE UNCHANGED queue
      BY <3>1
    <3>2. CASE ~UNCHANGED queue
      <4>1. PICK m \in Msg : queue' = [queue EXCEPT ![Head(job.rest)] = Append(@, m)]
        BY <1>9, <3>2, PostsAppend DEF Posts
      <4> QED
        BY <1>1, <1>2, <2>4, <4>1
    <3> QED
      BY <3>1, <3>2
  <2>6. \A c \in Elements(job'.rest) : job'.msg \notin Elements(queue'[c]) \cup stored'[c]
    BY <1>1, <2>1, <2>2, <2>4, <2>5
  <2>7. NoRepeats(job'.rest, Client) /\ Elements(job'.rest) \subseteq Elements(clients')
    BY <1>1, <2>1, <2>2, <2>4
  <2> QED
    BY <2>1, <2>3, <2>6, <2>7 DEF JobOK
<1>10. ASSUME NEW c \in Client, Handles(c) PROVE JobOK'
  <2>1. UNCHANGED <<job, subsystem>>
    BY <1>10 DEF Handles, Accepted, DrainMessage, DrainQuit, EndDrain, RemoveClient, FreeQueue
  <2>2. CASE Accepted(c) \/ RemoveClient(c)
    BY <1>1, <1>3, <2>1, <2>2 DEF Accepted, RemoveClient, ListUnlocked
  <2>3. CASE DrainMessage(c) \/ DrainQuit(c) \/ EndDrain(c) \/ FreeQueue(c)
    <3>1. UNCHANGED clients
      BY <2>3 DEF DrainMessage, DrainQuit, EndDrain, FreeQueue
    <3> QED
      BY <1>1, <1>4, <2>1, <2>3, <3>1, HandlesTake
  <2> QED
    BY <1>10, <2>2, <2>3 DEF Handles
<1>11. CASE BroadcastQuit
  BY <1>1, <1>3, <1>11 DEF BroadcastQuit, ListUnlocked
<1> QED
  BY <1>5, <1>6, <1>7, <1>8, <1>9, <1>10, <1>11, Steps DEF Posts

(* Of two sets that differ in one client, one may have one more.           *)
One(P) == IF P THEN 1 ELSE 0

LEMMA CountOne ==
    ASSUME NEW S \in SUBSET Client, NEW T \in SUBSET Client, NEW c \in Client,
           \A d \in Client \ {c} : d \in S <=> d \in T
    PROVE  Cardinality(T) + One(c \in S) = Cardinality(S) + One(c \in T)
<1>1. Cardinality(S) \in Nat /\ Cardinality(T) \in Nat
  BY CountClients
<1>2. CASE c \in S /\ c \notin T
  <2>1. T = S \ {c}
    BY <1>2
  <2>2. Cardinality(T) = Cardinality(S) - 1
    BY <1>2, <2>1, CountClients
  <2> QED
    BY <1>1, <1>2, <2>2 DEF One
<1>3. CASE c \notin S /\ c \in T
  <2>1. T = S \cup {c}
    BY <1>3
  <2>2. Cardinality(T) = Cardinality(S) + 1
    BY <1>3, <2>1, CountClients
  <2> QED
    BY <1>1, <1>3, <2>2 DEF One
<1>4. CASE c \in S <=> c \in T
  <2>1. S = T
    BY <1>4
  <2> QED
    BY <2>1
<1> QED
  BY <1>2, <1>3, <1>4

(* The references to a message when what one client has changes. *)
LEMMA CountedStep ==
    ASSUME RefsCounted, NEW c \in Client,
           \A d \in Client \ {c} : queue'[d] = queue[d] /\ stored'[d] = stored[d],
           NEW m \in Msg, refs'[m] \in Nat, live'[m] <=> refs'[m] > 0,
           refs'[m] + One(m \in Elements(queue[c])) + One(m \in stored[c]) + One(job.msg = m)
               = refs[m] + One(m \in Elements(queue'[c])) + One(m \in stored'[c])
                         + One(job'.msg = m)
    PROVE  /\ refs'[m] = Cardinality(Queued(m)') + Cardinality(Drained(m)')
                         + (IF job'.msg = m THEN 1 ELSE 0)
           /\ live'[m] <=> refs'[m] > 0
<1> DEFINE Q == Queued(m)
           D == Drained(m)
           QN == {d \in Client : m \in Elements(queue'[d])}
           DN == {d \in Client : m \in stored'[d]}
<1>1. Q \in SUBSET Client /\ D \in SUBSET Client /\ QN \in SUBSET Client /\ DN \in SUBSET Client
  BY DEF Queued, Drained
<1>2. /\ \A d \in Client \ {c} : (d \in Q <=> d \in QN) /\ (d \in D <=> d \in DN)
      /\ c \in Q <=> m \in Elements(queue[c])
      /\ c \in D <=> m \in stored[c]
      /\ c \in QN <=> m \in Elements(queue'[c])
      /\ c \in DN <=> m \in stored'[c]
  BY DEF Queued, Drained
<1>3. Queued(m)' = QN /\ Drained(m)' = DN
  BY DEF Queued, Drained
<1>4. refs[m] = Cardinality(Q) + Cardinality(D) + One(job.msg = m)
  BY DEF RefsCounted, One
<1> HIDE DEF Q, D, QN, DN
<1>5. /\ Cardinality(Q) \in Nat /\ Cardinality(D) \in Nat
      /\ Cardinality(QN) \in Nat /\ Cardinality(DN) \in Nat
  BY <1>1, CountClients
<1>6. /\ Cardinality(QN) + One(c \in Q) = Cardinality(Q) + One(c \in QN)
      /\ Cardinality(DN) + One(c \in D) = Cardinality(D) + One(c \in DN)
  BY <1>1, <1>2, CountOne
<1>7. refs'[m] = Cardinality(QN) + Cardinality(DN) + One(job'.msg = m)
  BY <1>2, <1>4, <1>5, <1>6 DEF One
<1> QED
  BY <1>3, <1>7 DEF One

(* The same for all messages. *)
LEMMA AllCountedStep ==
    ASSUME RefsCounted, NEW c \in Client,
           \A d \in Client \ {c} : queue'[d] = queue[d] /\ stored'[d] = stored[d],
           refs' \in [Msg -> Nat], \A m \in Msg : live'[m] <=> refs'[m] > 0,
           \A m \in Msg :
               refs'[m] + One(m \in Elements(queue[c])) + One(m \in stored[c]) + One(job.msg = m)
                   = refs[m] + One(m \in Elements(queue'[c])) + One(m \in stored'[c])
                             + One(job'.msg = m)
    PROVE  RefsCounted'
<1>1. ASSUME NEW m \in Msg
      PROVE  /\ refs'[m] = Cardinality(Queued(m)') + Cardinality(Drained(m)')
                           + (IF job'.msg = m THEN 1 ELSE 0)
             /\ live'[m] <=> refs'[m] > 0
  <2>1. refs'[m] \in Nat /\ (live'[m] <=> refs'[m] > 0)
    OBVIOUS
  <2> QED
    BY <2>1, CountedStep
<1> QED
  BY <1>1 DEF RefsCounted

(* Nobody gets a message or loses one. *)
LEMMA CountsKept ==
    ASSUME RefsCounted, UNCHANGED <<refs, live>>,
           \A m \in Msg : (job'.msg = m <=> job.msg = m),
           \A c \in Client, m \in Msg : /\ m \in Elements(queue'[c]) <=> m \in Elements(queue[c])
                                        /\ m \in stored'[c] <=> m \in stored[c]
    PROVE  RefsCounted'
<1>1. \A m \in Msg : Queued(m)' = Queued(m) /\ Drained(m)' = Drained(m)
  BY DEF Queued, Drained
<1> QED
  BY <1>1 DEF RefsCounted

(* Only the function that broadcasts gets a reference or gives it back. *)
LEMMA JobCounted ==
    ASSUME RefsCounted, UNCHANGED <<queue, stored>>,
           refs' \in [Msg -> Nat], \A m \in Msg : live'[m] <=> refs'[m] > 0,
           \A m \in Msg : refs'[m] + One(job.msg = m) = refs[m] + One(job'.msg = m)
    PROVE  RefsCounted'
<1> SUFFICES ASSUME NEW m \in Msg
             PROVE  refs'[m] = Cardinality(Queued(m)) + Cardinality(Drained(m))
                               + (IF job'.msg = m THEN 1 ELSE 0)
  BY DEF RefsCounted, Queued, Drained
<1>1. Cardinality(Queued(m)) \in Nat /\ Cardinality(Drained(m)) \in Nat
  BY CountClients DEF Queued, Drained
<1>2. refs[m] = Cardinality(Queued(m)) + Cardinality(Drained(m)) + One(job.msg = m)
  BY DEF RefsCounted, One
<1>3. refs'[m] \in Nat /\ refs'[m] + One(job.msg = m) = refs[m] + One(job'.msg = m)
  OBVIOUS
<1> QED
  BY <1>1, <1>2, <1>3 DEF One

(* The steps of the subsystem thread that send something. *)
LEMMA PostsCounted ==
    ASSUME ServerInv, RefsCounted, Posts
    PROVE  MessagesOK' /\ RefsCounted'
<1>1. /\ MessagesOK /\ refs \in [Msg -> Nat] /\ live \in [Msg -> BOOLEAN]
      /\ closed \in [Client -> BOOLEAN] /\ kind \in [Msg -> Accumulated \cup {"samples"}]
      /\ job \in [msg : Msg \cup {None}, rest : Seq(Client)] /\ None \notin Msg
      /\ queue \in [Client -> Seq(Msg \cup {WMQ_QUIT})]
      /\ \A m \in Msg : live[m] <=> refs[m] > 0
      /\ subsystem # "post" => job = NoJob
  BY ShadowServerAssumption
     DEF ServerInv, ServerTypeOK, MessagesOK, SequencesOK, RefsCounted, JobOK
<1>2. UNCHANGED <<closed, stored>>
  BY PostsLeave
<1>3. ASSUME refs' \in [Msg -> Nat], live' \in [Msg -> BOOLEAN],
             kind' \in [Msg -> Accumulated \cup {"samples"}]
      PROVE  MessagesOK'
  BY <1>1, <1>2, <1>3 DEF MessagesOK
<1>4. ASSUME NEW m \in Msg, NEW k \in Kind, BroadcastMsg(m, k) PROVE MessagesOK' /\ RefsCounted'
  <2>1. /\ NewMessage(m, k, 1) /\ subsystem = "run" /\ job' = [msg |-> m, rest |-> clients]
        /\ ~live[m] /\ UNCHANGED <<queue, stored>>
    BY <1>4 DEF BroadcastMsg, NewMessage
  <2>2. k \in Accumulated \cup {"samples"} /\ 1 \in {0, 1}
    BY ShadowServerAssumption
  <2>3. /\ refs' \in [Msg -> Nat] /\ live' \in [Msg -> BOOLEAN]
        /\ kind' \in [Msg -> Accumulated \cup {"samples"}]
        /\ refs'[m] = 1 /\ (live'[m] <=> 1 > 0)
        /\ \A x \in Msg : x # m => refs'[x] = refs[x] /\ live'[x] = live[x]
    BY <1>1, <2>1, <2>2, Created
  <2>4. job.msg = None /\ job'.msg = m
    BY <1>1, <2>1 DEF NoJob
  <2>5. refs[m] = 0
    BY <2>1, Referenced
  <2>6. \A x \in Msg : live'[x] <=> refs'[x] > 0
    BY <1>1, <2>3
  <2>7. \A x \in Msg : refs'[x] + One(job.msg = x) = refs[x] + One(job'.msg = x)
    BY <1>1, <2>3, <2>4, <2>5 DEF One
  <2> QED
    BY <1>3, <2>1, <2>3, <2>6, <2>7, JobCounted
<1>5. CASE BroadcastEnds
  <2>1. /\ job.msg \in Msg /\ Release({job.msg}) /\ job' = NoJob /\ UNCHANGED <<queue, stored>>
    BY <1>1, <1>5 DEF BroadcastEnds
  <2>2. refs[job.msg] > 0
    BY <2>1, Referenced
  <2>3. /\ refs' \in [Msg -> Nat] /\ live' \in [Msg -> BOOLEAN] /\ kind' = kind
        /\ refs'[job.msg] = refs[job.msg] - 1
        /\ \A m \in Msg \ {job.msg} : refs'[m] = refs[m]
        /\ \A m \in Msg : live'[m] <=> refs'[m] > 0
    <3>1. {job.msg} \in SUBSET Msg /\ \A m \in {job.msg} : refs[m] > 0
      BY <2>1, <2>2
    <3> QED
      BY <1>1, <2>1, <3>1, Released
  <2>4. job'.msg = None
    BY <2>1 DEF NoJob
  <2>5. \A x \in Msg : refs'[x] + One(job.msg = x) = refs[x] + One(job'.msg = x)
    BY <1>1, <2>1, <2>3, <2>4 DEF One
  <2> QED
    BY <1>1, <1>3, <2>1, <2>3, <2>5, JobCounted
<1>6. CASE PositionUpdate \/ SkipLastMouseClient \/ PositionUpdateEnds
  <2>1. UNCHANGED <<queue, stored, refs, live, kind>>
    BY <1>6 DEF PositionUpdate, SkipLastMouseClient, PositionUpdateEnds, msgVars
  <2>2. job'.msg = None /\ job.msg = None
    BY <1>1, <1>6 DEF PositionUpdate, SkipLastMouseClient, PositionUpdateEnds, NoJob
  <2> QED
    BY <1>1, <1>3, <2>1, <2>2, CountsKept
<1>7. ASSUME NEW c \in Elements(clients), NEW m \in Msg,
             queue' = [queue EXCEPT ![c] = Append(@, m)],
             m \notin Elements(queue[c]) \cup stored[c],
             job'.msg = job.msg, refs' \in [Msg -> Nat],
             \A x \in Msg : live'[x] <=> refs'[x] > 0,
             refs'[m] = refs[m] + 1, \A x \in Msg : x # m => refs'[x] = refs[x]
      PROVE  RefsCounted'
  <2>1. c \in Client
    BY DEF ServerInv, ListOK
  <2>2. \A d \in Client \ {c} : queue'[d] = queue[d] /\ stored'[d] = stored[d]
    BY <1>1, <1>2, <1>7
  <2>3. Elements(queue'[c]) = Elements(queue[c]) \cup {m} /\ stored'[c] = stored[c]
    <3>1. queue[c] \in Seq(Msg \cup {WMQ_QUIT}) /\ queue'[c] = Append(queue[c], m)
      BY <1>1, <1>7, <2>1
    <3> QED
      BY <1>2, <3>1, AppendElements
  <2>4. ASSUME NEW x \in Msg
        PROVE  refs'[x] + One(x \in Elements(queue[c])) + One(x \in stored[c]) + One(job.msg = x)
                   = refs[x] + One(x \in Elements(queue'[c])) + One(x \in stored'[c])
                             + One(job'.msg = x)
    <3>1. refs'[x] = refs[x] + One(x = m) /\ refs[x] \in Nat
      BY <1>1, <1>7 DEF One
    <3>2. One(x \in Elements(queue'[c])) = One(x \in Elements(queue[c])) + One(x = m)
      BY <1>7, <2>3 DEF One
    <3>3. One(x \in stored'[c]) = One(x \in stored[c]) /\ One(job'.msg = x) = One(job.msg = x)
      BY <1>7, <2>3
    <3> QED
      BY <3>1, <3>2, <3>3 DEF One
  <2> QED
    BY <1>7, <2>1, <2>2, <2>4, AllCountedStep
<1>8. CASE DispatchMsg
  <2>1. job.msg \in Msg /\ job' = [job EXCEPT !.rest = Tail(@)] /\ UNCHANGED <<live, kind, stored>>
    BY <1>1, <1>8 DEF DispatchMsg
  <2>2. job'.msg = job.msg
    BY <1>1, <2>1
  <2>3. CASE UNCHANGED <<queue, refs>>
    BY <1>1, <1>3, <2>1, <2>2, <2>3, CountsKept
  <2>4. CASE ~UNCHANGED <<queue, refs>>
    <3>1. /\ job.rest # <<>> /\ refs' = [refs EXCEPT ![job.msg] = @ + 1]
          /\ queue' = [queue EXCEPT ![Head(job.rest)] = Append(@, job.msg)]
      BY <1>8, <2>4 DEF DispatchMsg
    <3>2. /\ refs' \in [Msg -> Nat] /\ refs'[job.msg] = refs[job.msg] + 1
          /\ \A x \in Msg : x # job.msg => refs'[x] = refs[x]
      BY <1>1, <2>1, <3>1
    <3>3. refs[job.msg] > 0
      BY <2>1, Referenced
    <3>4. ASSUME NEW x \in Msg PROVE live'[x] <=> refs'[x] > 0
      <4>1. refs[x] \in Nat /\ (refs'[x] = refs[x] \/ (x = job.msg /\ refs'[x] = refs[x] + 1))
        BY <1>1, <3>2
      <4>2. refs'[x] > 0 <=> refs[x] > 0
        BY <3>3, <4>1
      <4> QED
        BY <1>1, <2>1, <4>2
    <3>5. Head(job.rest) \in Elements(job.rest)
      BY <1>1, <3>1, HeadTailElements
    <3>6. /\ Head(job.rest) \in Elements(clients)
          /\ job.msg \notin Elements(queue[Head(job.rest)]) \cup stored[Head(job.rest)]
      BY <3>5 DEF ServerInv, JobOK
    <3>7. RefsCounted'
      BY <1>7, <2>1, <2>2, <3>1, <3>2, <3>4, <3>6
    <3>8. MessagesOK'
      BY <1>1, <1>3, <2>1, <3>2
    <3> QED
      BY <3>7, <3>8
  <2> QED
    BY <2>3, <2>4
<1>9. ASSUME NEW m \in Msg, PostMsg(m) PROVE MessagesOK' /\ RefsCounted'
  <2>1. PICK n \in {0, 1} : /\ NewMessage(m, "position", n)
                            /\ n = 0 => UNCHANGED queue
                            /\ n = 1 => queue' = [queue EXCEPT ![Head(job.rest)] = Append(@, m)]
    BY <1>9 DEF PostMsg
  <2>2. /\ job.rest # <<>> /\ job' = [job EXCEPT !.rest = Tail(@)] /\ job'.msg = job.msg
    BY <1>1, <1>9 DEF PostMsg
  <2>3. /\ refs' \in [Msg -> Nat] /\ live' \in [Msg -> BOOLEAN]
        /\ kind' \in [Msg -> Accumulated \cup {"samples"}]
        /\ refs'[m] = n /\ (live'[m] <=> n > 0)
        /\ \A x \in Msg : x # m => refs'[x] = refs[x] /\ live'[x] = live[x]
    BY <1>1, <2>1, Created DEF Accumulated
  <2>4. ~live[m]
    BY <2>1 DEF NewMessage
  <2>5. refs[m] = 0
    BY <2>4, Referenced
  <2>6. \A x \in Msg : live'[x] <=> refs'[x] > 0
    BY <1>1, <2>3
  <2>7. CASE n = 0
    <3>1. \A x \in Msg : refs'[x] = refs[x]
      BY <2>3, <2>5, <2>7
    <3>2. \A x \in Msg : refs'[x] + One(job.msg = x) = refs[x] + One(job'.msg = x)
      BY <2>2, <3>1
    <3> QED
      BY <1>2, <1>3, <2>1, <2>3, <2>6, <2>7, <3>2, JobCounted
  <2>8. CASE n = 1
    <3>1. Head(job.rest) \in Elements(job.rest)
      BY <1>1, <2>2, HeadTailElements
    <3>2. Head(job.rest) \in Elements(clients) /\ Head(job.rest) \in Client
      BY <3>1 DEF ServerInv, JobOK, ListOK
    <3>3. m \notin Elements(queue[Head(job.rest)]) \cup stored[Head(job.rest)]
      BY <2>4, <3>2, Referenced
    <3>4. refs'[m] = refs[m] + 1 /\ \A x \in Msg : x # m => refs'[x] = refs[x]
      BY <2>3, <2>5, <2>8
    <3> QED
      BY <1>3, <1>7, <2>1, <2>2, <2>3, <2>6, <2>8, <3>2, <3>3, <3>4
  <2> QED
    BY <2>7, <2>8
<1> QED
  BY <1>4, <1>5, <1>6, <1>8, <1>9 DEF Posts

(* The steps of a client thread that handle messages: what it no longer    *)
(* has it releases.                                                        *)
LEMMA HandlesCounted ==
    ASSUME ServerInv, RefsCounted, NEW c \in Client, Handles(c)
    PROVE  MessagesOK' /\ RefsCounted'
<1>1. /\ MessagesOK /\ refs \in [Msg -> Nat] /\ live \in [Msg -> BOOLEAN]
      /\ closed \in [Client -> BOOLEAN] /\ kind \in [Msg -> Accumulated \cup {"samples"}]
      /\ queue \in [Client -> Seq(Msg \cup {WMQ_QUIT})] /\ stored \in [Client -> SUBSET Msg]
      /\ \A m \in Msg : live[m] <=> refs[m] > 0
      /\ Elements(queue[c]) \cap stored[c] = {} /\ NoRepeats(queue[c], Msg)
      /\ task[c] # "drain" => stored[c] = {}
      /\ task[c] = "none" => queue[c] = <<>>
  BY DEF ServerInv, ServerTypeOK, MessagesOK, SequencesOK, RefsCounted, QueuesOK
<1>2. job' = job
  BY DEF Handles, Accepted, DrainMessage, DrainQuit, EndDrain, RemoveClient, FreeQueue
<1>3. closed' \in [Client -> BOOLEAN]
  <2>1. closed' = closed \/ closed' = [closed EXCEPT ![c] = FALSE]
    BY DEF Handles, Accepted, DrainMessage, DrainQuit, EndDrain, RemoveClient, FreeQueue
  <2> QED
    BY <1>1, <2>1
<1>4. /\ queue[c] \in Seq(Msg \cup {WMQ_QUIT}) /\ Elements(queue[c]) \subseteq Msg \cup {WMQ_QUIT}
      /\ stored[c] \subseteq Msg /\ Elements(<<>>) = {} /\ WMQ_QUIT \notin Msg
  BY <1>1, ShadowServerAssumption DEF Elements
<1>5. queue[c] # <<>> =>
          /\ Head(queue[c]) \in Msg \cup {WMQ_QUIT}
          /\ Elements(queue[c]) = Elements(Tail(queue[c])) \cup {Head(queue[c])}
          /\ Head(queue[c]) \in Msg => Head(queue[c]) \notin Elements(Tail(queue[c]))
  BY <1>1, <1>4, HeadTailElements
<1>6. \A m \in Msg : m \in Elements(queue[c]) \cup stored[c] => refs[m] > 0
  BY Referenced
(* It is enough that exactly what it no longer has is released. *)
<1>7. ASSUME NEW msgs \in SUBSET Msg, Release(msgs),
             \A d \in Client \ {c} : queue'[d] = queue[d] /\ stored'[d] = stored[d],
             msgs \subseteq Elements(queue[c]) \cup stored[c],
             \A m \in Msg : m \notin msgs <=> m \in Elements(queue'[c]) \cup stored'[c]
                                              \/ m \notin Elements(queue[c]) \cup stored[c],
             Elements(queue'[c]) \cup stored'[c] \subseteq Elements(queue[c]) \cup stored[c],
             Elements(queue'[c]) \cap stored'[c] = {}
      PROVE  MessagesOK' /\ RefsCounted'
  <2>1. \A m \in msgs : refs[m] > 0
    BY <1>6, <1>7
  <2>2. /\ refs' \in [Msg -> Nat] /\ live' \in [Msg -> BOOLEAN] /\ kind' = kind
        /\ \A m \in msgs : refs'[m] = refs[m] - 1
        /\ \A m \in Msg \ msgs : refs'[m] = refs[m]
        /\ \A m \in Msg : live'[m] <=> refs'[m] > 0
    BY <1>1, <1>7, <2>1, Released
  <2>3. ASSUME NEW m \in Msg
        PROVE  refs'[m] + One(m \in Elements(queue[c])) + One(m \in stored[c]) + One(job.msg = m)
                   = refs[m] + One(m \in Elements(queue'[c])) + One(m \in stored'[c])
                             + One(job'.msg = m)
    <3>1. refs'[m] + One(m \in msgs) = refs[m] /\ refs'[m] \in Nat /\ refs[m] \in Nat
      BY <1>1, <2>2 DEF One
    <3>2. One(m \in Elements(queue[c])) + One(m \in stored[c])
              = One(m \in Elements(queue[c]) \cup stored[c])
      BY <1>1 DEF One
    <3>3. One(m \in Elements(queue'[c])) + One(m \in stored'[c])
              = One(m \in Elements(queue'[c]) \cup stored'[c])
      BY <1>7 DEF One
    <3>4. One(m \in Elements(queue[c]) \cup stored[c])
              = One(m \in Elements(queue'[c]) \cup stored'[c]) + One(m \in msgs)
      BY <1>7 DEF One
    <3>5. One(job'.msg = m) = One(job.msg = m)
      BY <1>2
    <3> QED
      BY <3>1, <3>2, <3>3, <3>4, <3>5 DEF One
  <2>4. RefsCounted'
    BY <1>7, <2>2, <2>3, AllCountedStep
  <2>5. MessagesOK'
    BY <1>1, <1>3, <2>2 DEF MessagesOK
  <2> QED
    BY <2>4, <2>5
<1>8. ASSUME UNCHANGED <<kind, refs, live>>, UNCHANGED <<queue, stored>> PROVE MessagesOK' /\ RefsCounted'
  <2>1. RefsCounted'
    BY <1>2, <1>8, CountsKept
  <2> QED
    BY <1>1, <1>3, <1>8, <2>1 DEF MessagesOK
<1>9. CASE Accepted(c)
  <2>1. queue[c] = <<>> /\ stored[c] = {}
    BY <1>1, <1>9 DEF Accepted
  <2>2. UNCHANGED <<queue, stored>>
    BY <1>1, <1>9, <2>1 DEF Accepted
  <2> QED
    BY <1>8, <1>9, <2>2 DEF Accepted, msgVars
<1>10. CASE RemoveClient(c)
  BY <1>8, <1>10 DEF RemoveClient, msgVars
<1>11. CASE DrainMessage(c)
  <2> DEFINE m == Head(queue[c])
             previous == {s \in stored[c] : kind[s] = kind[m]}
             new == IF kind[m] \in Accumulated THEN (stored[c] \ previous) \cup {m}
                                               ELSE stored[c]
             gone == IF kind[m] \in Accumulated THEN previous ELSE {m}
  <2>1. /\ queue[c] # <<>> /\ m # WMQ_QUIT /\ Release(gone)
        /\ queue' = [queue EXCEPT ![c] = Tail(@)] /\ stored' = [stored EXCEPT ![c] = new]
    BY <1>11 DEF DrainMessage, ProcessMessages
  <2>2. queue'[c] = Tail(queue[c]) /\ stored'[c] = new
    BY <1>1, <2>1
  <2>3. \A d \in Client \ {c} : queue'[d] = queue[d] /\ stored'[d] = stored[d]
    BY <1>1, <2>1
  <2>4. /\ m \in Msg /\ m \notin Elements(Tail(queue[c])) /\ m \notin stored[c]
        /\ Elements(queue[c]) = Elements(Tail(queue[c])) \cup {m}
    BY <1>1, <1>5, <2>1
  <2>5. /\ gone \in SUBSET Msg /\ gone \subseteq Elements(queue[c]) \cup stored[c]
        /\ new \subseteq stored[c] \cup {m}
        /\ (new \cup gone) = stored[c] \cup {m} /\ new \cap gone = {}
        /\ gone \subseteq stored[c] \cup {m}
    BY <1>4, <2>4
  <2> HIDE DEF new, gone, m
  <2>6. Elements(queue'[c]) \cap stored'[c] = {}
    BY <1>1, <2>2, <2>4, <2>5
  <2>7. Elements(queue'[c]) \cup stored'[c] \subseteq Elements(queue[c]) \cup stored[c]
    BY <2>2, <2>4, <2>5
  <2>8. \A x \in Msg : x \notin gone <=> x \in Elements(queue'[c]) \cup stored'[c]
                                         \/ x \notin Elements(queue[c]) \cup stored[c]
    BY <1>1, <2>2, <2>4, <2>5
  <2> QED
    BY <1>7, <2>1, <2>3, <2>5, <2>6, <2>7, <2>8
<1>12. CASE DrainQuit(c)
  <2>1. /\ queue[c] # <<>> /\ Head(queue[c]) = WMQ_QUIT /\ Release(stored[c])
        /\ queue' = [queue EXCEPT ![c] = Tail(@)] /\ stored' = [stored EXCEPT ![c] = {}]
    BY <1>12 DEF DrainQuit
  <2>2. queue'[c] = Tail(queue[c]) /\ stored'[c] = {}
    BY <1>1, <2>1
  <2>3. \A d \in Client \ {c} : queue'[d] = queue[d] /\ stored'[d] = stored[d]
    BY <1>1, <2>1
  <2>4. Elements(queue[c]) = Elements(Tail(queue[c])) \cup {WMQ_QUIT}
    BY <1>5, <2>1
  <2>5. \A x \in Msg : x \notin stored[c] <=> x \in Elements(queue'[c]) \cup stored'[c]
                                              \/ x \notin Elements(queue[c]) \cup stored[c]
    BY <1>1, <1>4, <2>2, <2>4
  <2> QED
    BY <1>4, <1>7, <2>1, <2>2, <2>3, <2>4, <2>5
<1>13. CASE EndDrain(c)
  <2>1. /\ queue[c] = <<>> /\ Release(stored[c])
        /\ queue' = queue /\ stored' = [stored EXCEPT ![c] = {}]
    BY <1>13 DEF EndDrain, ProcessMessages
  <2>2. Elements(queue'[c]) = {} /\ Elements(queue[c]) = {} /\ stored'[c] = {}
    BY <1>1, <1>4, <2>1
  <2>3. \A d \in Client \ {c} : queue'[d] = queue[d] /\ stored'[d] = stored[d]
    BY <1>1, <2>1
  <2> QED
    BY <1>4, <1>7, <2>1, <2>2, <2>3
<1>14. CASE FreeQueue(c)
  <2> DEFINE gone == Elements(queue[c]) \ {WMQ_QUIT}
  <2>1. /\ Release(gone) /\ stored' = stored /\ task[c] = "removed"
        /\ queue' = [queue EXCEPT ![c] = <<>>]
    BY <1>14 DEF FreeQueue
  <2>2. Elements(queue'[c]) = {} /\ stored'[c] = {} /\ stored[c] = {}
    BY <1>1, <1>4, <2>1
  <2>3. \A d \in Client \ {c} : queue'[d] = queue[d] /\ stored'[d] = stored[d]
    BY <1>1, <2>1
  <2>4. gone \in SUBSET Msg
    BY <1>4
  <2> QED
    BY <1>4, <1>7, <2>1, <2>2, <2>3, <2>4
<1> QED
  BY <1>9, <1>10, <1>11, <1>12, <1>13, <1>14 DEF Handles

(* Every reference that shadow_msg_out_addref takes is given back once. *)
LEMMA CountsStep ==
    ASSUME ServerInv, RefsCounted, [NextServer]_allVars
    PROVE  MessagesOK' /\ RefsCounted'
<1>1. MessagesOK /\ SequencesOK
  BY DEF ServerInv, ServerTypeOK
<1>2. CASE Idles
  <2>1. UNCHANGED <<job, queue, closed, stored, kind, refs, live>>
    BY <1>2, IdlesLeave
  <2>2. MessagesOK'
    BY <1>1, <2>1 DEF MessagesOK
  <2>3. RefsCounted'
    BY <2>1, CountsKept
  <2> QED
    BY <2>2, <2>3
<1>3. CASE BroadcastQuit
  <2>1. UNCHANGED <<job, stored, kind, refs, live>>
    BY <1>3 DEF BroadcastQuit, msgVars
  <2>2. ASSUME NEW c \in Client, NEW m \in Msg
        PROVE  m \in Elements(queue'[c]) <=> m \in Elements(queue[c])
    <3>1. queue[c] \in Seq(Msg \cup {WMQ_QUIT})
      BY <1>1 DEF SequencesOK
    <3>2. queue'[c] = queue[c] \/ queue'[c] = Append(queue[c], WMQ_QUIT)
      BY <1>3 DEF BroadcastQuit
    <3>3. Elements(Append(queue[c], WMQ_QUIT)) = Elements(queue[c]) \cup {WMQ_QUIT}
      BY <3>1, AppendElements
    <3> QED
      BY <3>2, <3>3, ShadowServerAssumption
  <2>3. closed' \in [Client -> BOOLEAN]
    <3>1. PICK reached : closed' = [c \in Client |-> closed[c] \/ c \in reached]
      BY <1>3, Zenon DEF BroadcastQuit
    <3> QED
      BY <3>1, Zenon
  <2>4. MessagesOK'
    BY <1>1, <2>1, <2>3 DEF MessagesOK
  <2>5. RefsCounted'
    BY <2>1, <2>2, CountsKept
  <2> QED
    BY <2>4, <2>5
<1> QED
  BY <1>2, <1>3, Steps, PostsCounted, HandlesCounted

-----------------------------------------------------------------------------
(***************************************************************************)
(* The invariants of the server.                                           *)
(***************************************************************************)

(* At the start there is neither a client nor a message. *)
LEMMA ServerStarts == InitServer => ServerInv /\ RefsCounted
<1> SUFFICES ASSUME InitServer PROVE ServerInv /\ RefsCounted
  OBVIOUS
<1>1. /\ thread = "listen" /\ deserted = FALSE /\ subsystem = "run" /\ first = None
      /\ job = NoJob /\ clients = <<>> /\ job.msg = None /\ job.rest = <<>>
      /\ task = [c \in Client |-> "none"] /\ queue = [c \in Client |-> <<>>]
      /\ stored = [c \in Client |-> {}]
      /\ kind = [m \in Msg |-> "position"] /\ refs = [m \in Msg |-> 0]
  BY DEF InitServer, NoJob
<1>2. /\ closed = [c \in Client |-> FALSE] /\ live = [m \in Msg |-> FALSE]
  BY DEF InitServer
<1>3. Elements(<<>>) = {} /\ \A S : NoRepeats(<<>>, S)
  BY DEF Elements, NoRepeats
<1>4. IndInv
  BY InitInv DEF InitServer
<1>5. \A c \in Client : client[c] = "out"
  BY DEF InitServer, Init
<1>6. server = "idle" /\ TypeOK
  BY <1>4 DEF InitServer, Init, IndInv
<1>7. PlacesOK
  BY <1>1 DEF PlacesOK
<1>8. SequencesOK
  <2>1. job \in [msg : Msg \cup {None}, rest : Seq(Client)]
    BY <1>1 DEF NoJob
  <2>2. clients \in Seq(Client) /\ stored \in [Client -> SUBSET Msg]
    BY <1>1
  <2>3. queue \in [Client -> Seq(Msg \cup {WMQ_QUIT})]
    BY <1>1
  <2> QED
    BY <2>1, <2>2, <2>3 DEF SequencesOK
<1>9. MessagesOK
  <2>1. closed \in [Client -> BOOLEAN] /\ live \in [Msg -> BOOLEAN]
    BY <1>2, Zenon
  <2>2. kind \in [Msg -> Accumulated \cup {"samples"}] /\ refs \in [Msg -> Nat]
    BY <1>1 DEF Accumulated
  <2> QED
    BY <2>1, <2>2 DEF MessagesOK
<1>10. ListOK
  BY <1>1, <1>3 DEF ListOK
<1>11. JobOK /\ QueuesOutlivePosts /\ ServerOutlivesClients
  BY <1>1, <1>3 DEF JobOK, QueuesOutlivePosts, ServerOutlivesClients
<1>12. QueuesOK
  BY <1>1, <1>3 DEF QueuesOK
<1>13. ThreadsOK
  <2>1. \A c \in Client : ~closed[c]
    BY <1>2
  <2> QED
    BY <1>1, <1>5, <2>1 DEF ThreadsOK
<1>14. RefsCounted
  <2> SUFFICES ASSUME NEW m \in Msg
               PROVE  /\ refs[m] = Cardinality(Queued(m)) + Cardinality(Drained(m))
                                   + (IF job.msg = m THEN 1 ELSE 0)
                      /\ live[m] <=> refs[m] > 0
    BY DEF RefsCounted
  <2>1. Queued(m) = {} /\ Drained(m) = {}
    BY <1>1, <1>3 DEF Queued, Drained
  <2>2. Cardinality(Queued(m)) = 0 /\ Cardinality(Drained(m)) = 0
    BY <2>1, CountClients
  <2>3. job.msg # m /\ refs[m] = 0
    BY <1>1, ShadowServerAssumption
  <2>4. ~live[m]
    BY <1>2
  <2> QED
    BY <2>2, <2>3, <2>4
<1> QED
  BY <1>6, <1>7, <1>8, <1>9, <1>10, <1>11, <1>12, <1>13, <1>14 DEF ServerInv, ServerTypeOK

(* No step of any thread breaks them. The two go together: a message that  *)
(* is free is in no queue only because its references are counted, and     *)
(* they are counted only because no client has it twice.                   *)
LEMMA ServerKeeps ==
    ASSUME IndInv, IndInv', ServerInv, RefsCounted, [NextServer]_allVars
    PROVE  ServerInv' /\ RefsCounted'
<1>1. PlacesOK' /\ SequencesOK' /\ ListOK' /\ JobOK' /\ QueuesOK' /\ ThreadsOK'
  BY PlacesStep, SequencesStep, ListStep, JobStep, QueuesStep, ThreadsStep
<1>2. MessagesOK' /\ RefsCounted'
  BY CountsStep
<1>3. ServerOutlivesClients'
  BY <1>1, OutlivesStep
<1>4. QueuesOutlivePosts'
  BY <1>1 DEF QueuesOutlivePosts, JobOK, ListOK
<1>5. TypeOK'
  BY DEF IndInv
<1> QED
  BY <1>1, <1>2, <1>3, <1>4, <1>5 DEF ServerInv, ServerTypeOK

(* Whatever the threads of the server do, and whichever clients come, fail *)
(* and leave: no queue is freed under a post (shadow_client_boardcast_msg  *)
(* and x11_shadow_pointer_position_update), and when the server thread has *)
(* ended nothing is freed that a thread still uses (shadow_server_stop and *)
(* shadow_server_uninit), although the quit message may fail to reach some *)
(* of the clients (shadow_client_boardcast_quit): it is enough that it has *)
(* reached one, or that there was none.                                    *)
THEOREM ServerInvariance == ServerSpec => []ServerInv
<1>1. InitServer => ServerInv /\ RefsCounted
  BY ServerStarts
<1>2. IndInv /\ IndInv' /\ (ServerInv /\ RefsCounted) /\ [NextServer]_allVars
          => (ServerInv /\ RefsCounted)'
  BY ServerKeeps
<1> QED
  BY <1>1, <1>2, ServerEvent, PTL DEF ServerSpec

(* And every message lives exactly as long as a queue, a client that       *)
(* drains or the function that broadcasts refers to it: it is neither used *)
(* after it was freed, nor freed twice, nor lost (shadow_msg_out_addref    *)
(* and shadow_msg_out_release).                                            *)
THEOREM ReferencesCounted == ServerSpec => []RefsCounted
<1>1. InitServer => ServerInv /\ RefsCounted
  BY ServerStarts
<1>2. IndInv /\ IndInv' /\ (ServerInv /\ RefsCounted) /\ [NextServer]_allVars
          => (ServerInv /\ RefsCounted)'
  BY ServerKeeps
<1> QED
  BY <1>1, <1>2, ServerEvent, PTL DEF ServerSpec
=============================================================================
