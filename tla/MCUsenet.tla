------------------------------ MODULE MCUsenet ------------------------------
(***************************************************************************)
(* Instances of UsenetResume for TLC.                                      *)
(***************************************************************************)
EXTENDS UsenetResume, TLC

Symmetry == Permutations(Segs) \cup Permutations(Attempts) \cup Permutations(Workers)
=============================================================================
