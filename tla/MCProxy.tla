------------------------------- MODULE MCProxy -------------------------------
(* The proxy with two peers. *)
EXTENDS Proxy
=============================================================================
