--------------------------- MODULE MCScraperRound ---------------------------
(* Small instances of ScraperRound for TLC.                                *)
EXTENDS ScraperRound

CONSTANTS a, b, k1, k2, code, l1, l2, remover

OneCode == [k \in Keys |-> code]

Found(keys, units, out, empty) ==
    [rows |-> [i \in DOMAIN keys |-> [key |-> keys[i], stock |-> units[i]]],
     out |-> out, empty |-> empty]

(* Both listings, either first; one of them sold out, with its code;       *)
(* nothing.                                                                *)
SomeFound ==
    [card \in Cards |->
       IF card = a
       THEN {Found(<<k1, k2>>, <<1, 1>>, {}, FALSE),
             Found(<<k1>>, <<0>>, {code}, FALSE),
             Found(<< >>, << >>, {}, TRUE)}
       ELSE {Found(<<k2, k1>>, <<1, 0>>, {}, FALSE)}]
=============================================================================
