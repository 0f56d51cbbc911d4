--------------------------- MODULE MCForkDatabase ---------------------------
(***************************************************************************)
(* Instances of ForkDatabase for TLC.                                      *)
(***************************************************************************)
EXTENDS ForkDatabase, TLC

Symmetry == Permutations(Tags)
=============================================================================
