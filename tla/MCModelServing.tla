--------------------------- MODULE MCModelServing ---------------------------
(* Two racing predictions and a metrics request against two runs.          *)
EXTENDS ModelServing, TLC

Symmetry == Permutations(Predicts)
=============================================================================
