--------------------------- MODULE MCCoffretOutbox ---------------------------
(* CoffretOutbox on two volumes, which nothing tells apart. *)
EXTENDS CoffretOutbox, TLC

Symmetry == Permutations(Vols)
=============================================================================
