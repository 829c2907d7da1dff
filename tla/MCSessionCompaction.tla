------------------------ MODULE MCSessionCompaction -------------------------
(* Model values and symmetry for the runs of SessionCompaction. *)
EXTENDS SessionCompaction, TLC

Symmetry == Permutations(Turn) \cup Permutations(Request)
=============================================================================
