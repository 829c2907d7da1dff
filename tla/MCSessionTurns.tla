--------------------------- MODULE MCSessionTurns ---------------------------
(* Model values and symmetry for the runs of SessionTurns. *)
EXTENDS SessionTurns, TLC

TurnSymmetry == Permutations(Turn)
=============================================================================
