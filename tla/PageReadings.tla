---------------------------- MODULE PageReadings ----------------------------
(* Every small page: how transform_card_page reads it, compared with what  *)
(* the page shows, and what a job may therefore take for empty.            *)
EXTENDS SearchCrawl

CONSTANTS MaxRows, MaxLoose      \* bounds on the rows of a page

ASSUME ReadingsAssumption == MaxRows \in Nat /\ MaxLoose \in Nat

Pages ==
    [rows : UNION {[1 .. n -> PageRow] : n \in 0 .. MaxRows},
     loose : UNION {[1 .. n -> PageRow] : n \in 0 .. MaxLoose},
     table : BOOLEAN, saysEmpty : BOOLEAN]

(* A page is taken to offer nothing only if every row of its table is sold *)
(* out, or the table is there, without rows, and the text says so: a row   *)
(* that could not be read is never taken for a sold-out one.               *)
EmptyIsSaid ==
    \A page \in Pages :
        LET result == Transform(page)
        IN  result.error = "none" /\ DOMAIN result.listings = {} =>
                IF page.rows = << >> THEN page.table /\ page.saysEmpty
                ELSE \A i \in 1 .. Len(page.rows) : page.rows[i].out

(* Whatever page a job gets, it is taken to offer nothing only if its rows *)
(* or its text say so.                                                     *)
NothingOnlyIfSaid == phase # "idle" => EmptyIsSaid
=============================================================================
