--------------------------- MODULE MCCardCatalog ---------------------------
(* Small instances of CardCatalog for TLC.                                 *)
EXTENDS CardCatalog, TLC

CONSTANTS q1, q2

RequestSymmetry == Permutations(Requests)
=============================================================================
