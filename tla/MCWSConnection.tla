--------------------------- MODULE MCWSConnection ---------------------------
(* An instance of WSConnection for TLC: the constants are in the cfg file. *)
EXTENDS WSConnectionInv, TLC
=============================================================================
