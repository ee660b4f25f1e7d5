----------------------------- MODULE MCRegistry -----------------------------
(* Instances of Registry for TLC: the constants are in the cfg files. *)
EXTENDS RegistryInv, TLC

\* Threads are interchangeable; liveness is checked without it.
ThreadSymmetry == Permutations(Threads)
=============================================================================
