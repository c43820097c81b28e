-------------------------- MODULE MCSearchReindex --------------------------
(* Small instances of SearchReindex for TLC.                               *)
EXTENDS SearchReindex, TLC

CONSTANTS e1, e2, w

EventSymmetry == Permutations(EventIds)
=============================================================================
