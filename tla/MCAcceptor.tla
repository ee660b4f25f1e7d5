----------------------------- MODULE MCAcceptor -----------------------------
(* Instances of Acceptor for TLC: the constants are in the cfg files. *)
EXTENDS AcceptorInv
=============================================================================
