--------------------------- MODULE ShadowEncoder ---------------------------
(***************************************************************************)
(* The frame ids and the frame rate of a shadow client:                    *)
(* server/shadow/shadow_encoder.c, the acknowledgements in shadow_client.c *)
(* and the rate at which X11/x11_shadow.c captures.                        *)
(*                                                                         *)
(* Every frame that is sent has an id, the client acknowledges the frames  *)
(* it has shown, and the difference of the last id sent and the last id    *)
(* acknowledged, an unsigned number, decides on the frame rate. The        *)
(* encoder is reset, and starts with the id 0 again, whenever the client   *)
(* is activated or enters or leaves the lobby, while frames and            *)
(* acknowledgements are on their way.                                      *)
(***************************************************************************)
EXTENDS Naturals, Sequences

CONSTANTS
    IdBits,    \* frame ids have this many bits (32)
    MaxFps,    \* encoder->maxFps (32)
    InitFps,   \* the frame rate after a reset, and of the subsystem (16)
    MaxFrame,  \* bound: frames between two resets
    MaxFlight  \* bound: frames, and acknowledgements, on their way

ASSUME ShadowEncoderAssumption ==
    /\ IdBits \in Nat \ {0} /\ MaxFps \in Nat \ {0}
    /\ InitFps \in 1..MaxFps
    /\ 2^IdBits \in Nat /\ MaxFrame \in 1..(2^IdBits - 2) /\ MaxFlight \in Nat

VARIABLES
    frameId,        \* encoder->frameId, of the last frame
    lastAckframeId, \* encoder->lastAckframeId
    suspended,      \* encoder->queueDepth is SUSPEND_FRAME_ACKNOWLEDGEMENT
    fps,            \* encoder->fps
    captureFrameRate, \* of the subsystem
    running,        \* the process has not died of a division by zero
    frames,         \* frames on their way to the client
    acks,           \* acknowledgements on their way back
    ackIsOld,       \* history: lastAckframeId is of before the last reset
    since           \* history: frames sent since the one acknowledged last

encoderVars == <<frameId, lastAckframeId, suspended, fps>>
linkVars == <<frames, acks>>
seVars == <<encoderVars, captureFrameRate, running, linkVars, ackIsOld, since>>

(* UINT32. *)
Modulus == 2^IdBits

(* What is on the link knows how many frames were sent after it, and       *)
(* whether the encoder was reset after it.                                 *)
Item(id) == [id |-> id, later |-> 0, old |-> FALSE]
OneLater(seq) == [i \in DOMAIN seq |-> [seq[i] EXCEPT !.later = @ + (IF seq[i].old THEN 0 ELSE 1)]]
AllOld(seq) == [i \in DOMAIN seq |-> [seq[i] EXCEPT !.later = 0, !.old = TRUE]]

-----------------------------------------------------------------------------

(* shadow_encoder_new, and the rate the subsystem starts with. *)
InitEncoder ==
    /\ frameId = 0 /\ lastAckframeId = 0
    /\ suspended = FALSE
    /\ fps = InitFps
    /\ captureFrameRate = InitFps
    /\ running = TRUE
    /\ frames = <<>> /\ acks = <<>>
    /\ ackIsOld = FALSE /\ since = 0

-----------------------------------------------------------------------------

(* shadow_encoder_inflight_frames. *)
InflightFrames ==
    IF suspended THEN 0 ELSE (frameId + Modulus - lastAckframeId) % Modulus

Divisor == (InflightFrames + 1) % Modulus

(* The rate that shadow_encoder_create_frame_id chooses. *)
PreferredFps ==
    LET throttled == ((100 \div Divisor) * MaxFps) \div 100
        raised == IF fps + 2 > MaxFps THEN MaxFps ELSE fps + 2
        chosen == IF InflightFrames > 1 THEN throttled ELSE raised
    IN  IF chosen < 1 THEN 1 ELSE chosen

(* shadow_encoder_create_frame_id, and the frame is sent. *)
CreateFrameId ==
    /\ running
    /\ frameId < MaxFrame /\ Len(frames) < MaxFlight
    /\ InflightFrames > 1 => Divisor # 0
    /\ fps' = PreferredFps
    /\ frameId' = (frameId + 1) % Modulus
    /\ frames' = Append(OneLater(frames), Item(frameId'))
    /\ acks' = OneLater(acks)
    /\ since' = since + 1
    /\ UNCHANGED <<lastAckframeId, suspended, captureFrameRate, running, ackIsOld>>

(* The largest unsigned number of frames in flight, plus one, is zero. *)
DivideByZero ==
    /\ running
    /\ InflightFrames > 1 /\ Divisor = 0
    /\ running' = FALSE
    /\ UNCHANGED <<encoderVars, captureFrameRate, linkVars, ackIsOld, since>>

(* The client shows a frame and acknowledges it by its id, or does not:    *)
(* rdpgfx_main.c when sendFrameAcks is off or the acknowledgements are     *)
(* suspended, gdi.c without FrameAcknowledge, and "Some rdp clients (win7  *)
(* mstsc) skips frame ACK if it is inactive".                              *)
ClientAcknowledges ==
    /\ frames # <<>> /\ Len(acks) < MaxFlight
    /\ acks' = Append(acks, Head(frames))
    /\ frames' = Tail(frames)
    /\ UNCHANGED <<encoderVars, captureFrameRate, running, ackIsOld, since>>

ClientSkips ==
    /\ frames # <<>>
    /\ frames' = Tail(frames)
    /\ UNCHANGED <<encoderVars, captureFrameRate, running, acks, ackIsOld, since>>

(* shadow_client_common_frame_acknowledge. *)
CommonFrameAcknowledge ==
    LET ack == Head(acks) IN
    /\ running
    /\ acks # <<>>
    /\ acks' = Tail(acks)
    /\ lastAckframeId' = ack.id
    /\ ackIsOld' = ack.old
    /\ since' = IF ack.old THEN since ELSE ack.later
    /\ UNCHANGED <<frameId, fps, captureFrameRate, running, frames>>

(* shadow_client_surface_frame_acknowledge: the queue depth is not known. *)
SurfaceFrameAcknowledge ==
    /\ CommonFrameAcknowledge
    /\ suspended' = FALSE

(* shadow_client_rdpgfx_frame_acknowledge: the client tells its depth, or  *)
(* that it will not acknowledge any more.                                  *)
RdpgfxFrameAcknowledge(suspend) ==
    /\ CommonFrameAcknowledge
    /\ suspended' = suspend

(* Mutant of Reset: the last acknowledged id is kept. *)
ResetKeepsAck ==
    /\ running
    /\ fps' = InitFps
    /\ frameId' = 0
    /\ since' = 0 /\ ackIsOld' = FALSE
    /\ frames' = AllOld(frames) /\ acks' = AllOld(acks)
    /\ UNCHANGED <<lastAckframeId, suspended, captureFrameRate, running>>

(* shadow_encoder_reset, in shadow_client_activate and in                  *)
(* encomsp_change_participant_control_level. The queue depth stays.        *)
Reset ==
    /\ running
    /\ fps' = InitFps
    /\ frameId' = 0 /\ lastAckframeId' = 0
    /\ since' = 0 /\ ackIsOld' = FALSE
    /\ frames' = AllOld(frames) /\ acks' = AllOld(acks)
    /\ UNCHANGED <<suspended, captureFrameRate, running>>

(* After a frame x11_shadow_screen_grab takes the rate of the only client. *)
SubsystemTakesFps ==
    /\ running
    /\ captureFrameRate' = fps
    /\ UNCHANGED <<encoderVars, running, linkVars, ackIsOld, since>>

NextEncoder ==
    \/ CreateFrameId \/ DivideByZero
    \/ ClientAcknowledges \/ ClientSkips
    \/ SurfaceFrameAcknowledge
    \/ \E suspend \in BOOLEAN : RdpgfxFrameAcknowledge(suspend)
    \/ Reset \/ SubsystemTakesFps

EncoderSpec == InitEncoder /\ [][NextEncoder]_seVars

-----------------------------------------------------------------------------
(* Properties.                                                             *)

(* Types. Whatever is acknowledged and when, the rate that                 *)
(* x11_shadow_subsystem_thread divides by is a rate the encoder may have,  *)
(* and not zero.                                                           *)
EncoderTypeOK ==
    /\ frameId \in 0..(Modulus - 1) /\ lastAckframeId \in 0..(Modulus - 1)
    /\ suspended \in BOOLEAN /\ running \in BOOLEAN /\ ackIsOld \in BOOLEAN
    /\ fps \in 1..MaxFps
    /\ captureFrameRate \in 1..MaxFps
    /\ since \in 0..MaxFrame

(* Until an acknowledgement from before a reset arrives, the difference of *)
(* the ids is the number of frames sent after the one acknowledged last,   *)
(* though acknowledgements are skipped and others are on their way.        *)
InflightIsCount ==
    ~ackIsOld /\ ~suspended => InflightFrames = since

(* Whatever is on the link and is not from before a reset was followed by  *)
(* as many frames as its id is behind the encoder's, and so was the frame  *)
(* acknowledged last; reset (shadow_encoder.c) leaves nothing between.     *)
OnLink == [id : 0..MaxFrame, later : 0..MaxFrame, old : BOOLEAN]
IsCounted(seq) ==
    /\ seq \in Seq(OnLink)
    /\ \A i \in DOMAIN seq : ~seq[i].old => seq[i].id + seq[i].later = frameId
LinkIsCounted ==
    /\ IsCounted(frames) /\ IsCounted(acks)
    /\ frameId <= MaxFrame /\ since <= frameId
    /\ ~ackIsOld => lastAckframeId + since = frameId

(* Types, the range of the frame rate, the frames in flight of             *)
(* shadow_encoder_inflight_frames, and what makes that their number.       *)
EncoderInv == EncoderTypeOK /\ InflightIsCount /\ LinkIsCounted
=============================================================================
