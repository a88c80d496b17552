-------------------------- MODULE MCShadowEncoder --------------------------
(* The encoder of one client, with frame ids of a few bits. *)
EXTENDS ShadowEncoder
=============================================================================
