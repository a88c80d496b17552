----------------------- MODULE MCShadowFrameUpdate -----------------------
(* The frame update with one or two clients and a screen of up to three    *)
(* cells.                                                                  *)
EXTENDS ShadowFrameUpdate, TLC

ClientSymmetry == Permutations(Client)
=============================================================================
