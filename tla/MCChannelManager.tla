-------------------------- MODULE MCChannelManager --------------------------
(* The channel manager with a thread or two that serve channels, and two   *)
(* that write to them.                                                     *)
EXTENDS ChannelManager
=============================================================================
