--------------------------- MODULE MCSearchCrawl ---------------------------
(* Small instances of SearchCrawl for TLC.                                 *)
EXTENDS PageReadings, TLC

CONSTANTS u1, u2, c1, c2, mint

SameTitle == [u \in Urls |-> "card"]
UrlSymmetry == Permutations(Urls)

R(code, cond, stock, out) ==
    [code |-> code, cond |-> cond, stock |-> stock, out |-> out]
P(rows, loose, table, saysEmpty) ==
    [rows |-> rows, loose |-> loose, table |-> table, saysEmpty |-> saysEmpty]

(* In stock; sold out with and without a price; a row that cannot be read, *)
(* alone and with a sold-out one; both; nothing; nothing and a listing;    *)
(* not a product page.                                                     *)
SomePages ==
    {P(<<R(c1, mint, 1, FALSE)>>, << >>, TRUE, FALSE),
     P(<<R(c1, mint, 0, TRUE)>>, << >>, TRUE, FALSE),
     P(<<R(c1, NoCond, 0, TRUE)>>, << >>, TRUE, FALSE),
     P(<<R(c1, NoCond, 0, FALSE)>>, << >>, TRUE, FALSE),
     P(<<R(c1, NoCond, 0, FALSE), R(c2, NoCond, 0, TRUE)>>, << >>, TRUE, FALSE),
     P(<<R(c2, mint, 1, FALSE), R(c1, NoCond, 0, TRUE)>>, << >>, TRUE, FALSE),
     P(<< >>, << >>, TRUE, TRUE),
     P(<< >>, <<R(c2, mint, 1, FALSE)>>, TRUE, TRUE),
     P(<< >>, << >>, FALSE, FALSE)}
=============================================================================
