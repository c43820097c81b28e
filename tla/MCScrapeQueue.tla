--------------------------- MODULE MCScrapeQueue ---------------------------
(* Small instances of ScrapeQueue for TLC.                                 *)
EXTENDS ScrapeQueue, TLC

CONSTANTS c1, c2, j1, j2, p1, p2, s1, s2, q1

(* Two processes of one slot each.                                         *)
TwoProcs == s1 :> p1 @@ s2 :> p2
=============================================================================
