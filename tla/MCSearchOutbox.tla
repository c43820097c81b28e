--------------------------- MODULE MCSearchOutbox ---------------------------
(* Small instances of SearchOutbox for TLC.                                *)
EXTENDS SearchOutbox

CONSTANTS c1, c2, e1, e2, w1, w2
=============================================================================
