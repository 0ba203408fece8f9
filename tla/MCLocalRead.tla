---------------------------- MODULE MCLocalRead -----------------------------
(* Two block values, which files of up to four blocks can swap and restore.*)
EXTENDS LocalRead, TLC

Symmetry == Permutations(Blocks)
=============================================================================
