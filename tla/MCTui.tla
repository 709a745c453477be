------------------------------- MODULE MCTui -------------------------------
(***************************************************************************)
(* Tui with three keys created in the order of their numbers, the default  *)
(* pattern and one that hides the last key.                                *)
(***************************************************************************)
EXTENDS Tui

MCKeys == 1 .. 3
MCPatterns == {MCKeys, {1, 2}}

MCInit == Init /\ rank = [k \in Keys |-> k]
MCSpec == MCInit /\ [][Next]_vars /\ Fairness
=============================================================================
