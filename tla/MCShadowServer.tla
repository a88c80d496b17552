-------------------------- MODULE MCShadowServer --------------------------
(* The shadow server with two clients and two messages. *)
EXTENDS ShadowServer, TLC

Symmetry == Permutations(Client) \cup Permutations(Msg)
=============================================================================
