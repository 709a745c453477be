------------------------------- MODULE MCAof -------------------------------
(* Small instances of Aof for TLC. *)
EXTENDS Aof, TLC
ClientSymmetry == Permutations(Clients)
=============================================================================
