---------------------------- MODULE MCCoreTimer ----------------------------
(* The main loop and another thread use the timers of a connection. *)
EXTENDS CoreTimer
CONSTANTS m, u, e1, e2

OnlyMain == {m}
MainAndOther == {m, u}
TwoEntries == {e1, e2}
=============================================================================
