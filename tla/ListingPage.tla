------------------------------ MODULE ListingPage ------------------------------
(***************************************************************************)
(* What a product page says, as transform_card_page reads it: which        *)
(* listings it offers, which codes it calls sold out, or that the page is  *)
(* not understood.                                                         *)
(*                                                                         *)
(*   transformers.py   transform_card_page, parse_card_listings,           *)
(*                     extract_listing_from_row, _extract_listing_details  *)
(*   utils.py          deduplicate_listings                                *)
(*                                                                         *)
(* A row is what its text can be read as: a code or none, a condition      *)
(* (NoCond also when no price or condition follows the code), the units in *)
(* stock (0 when no quantity is found) and whether it says "out of stock". *)
(* A page has the rows of its product table, the places elsewhere that     *)
(* read like a listing (loose: other rows, or the text), whether it has    *)
(* the table, and whether its text says that there is nothing. Names, sets,*)
(* rarities and prices are left out, and so are pages that mix rows inside *)
(* and outside a products-container.                                       *)
(***************************************************************************)
EXTENDS Integers, Sequences

CONSTANTS Codes, NoCode, Conds, NoCond

ASSUME PageAssumption == NoCode \notin Codes /\ NoCond \notin Conds

PageRow == [code : Codes \cup {NoCode}, cond : Conds \cup {NoCond},
            stock : {0, 1}, out : BOOLEAN]

Page == [rows : Seq(PageRow), loose : Seq(PageRow),
         table : BOOLEAN, saysEmpty : BOOLEAN]

(***************************************************************************)
(* One row, the rows that give a listing, and the places the listings are  *)
(* taken from: the table, and only when it gives nothing the rest.         *)
(***************************************************************************)
Complete(row) == row.code # NoCode /\ row.cond # NoCond

Parsed(rows) == {i \in DOMAIN rows : Complete(rows[i])}

Offers(page) == IF Parsed(page.rows) # {} THEN page.rows ELSE page.loose

NoOffers(page) == Parsed(Offers(page)) = {}

(***************************************************************************)
(* deduplicate_listings: one listing for each code and condition, and a    *)
(* later one replaces an earlier one.                                      *)
(***************************************************************************)
Identity(row) == <<row.code, row.cond>>

Same(rows, id) == {i \in Parsed(rows) : Identity(rows[i]) = id}

LastOf(rows, id) ==
    CHOOSE i \in Same(rows, id) : \A j \in Same(rows, id) : j <= i

NoListings == [k \in {} |-> 0]

Deduplicated(rows) ==
    [id \in {Identity(rows[i]) : i \in Parsed(rows)} |-> rows[LastOf(rows, id)].stock]

(***************************************************************************)
(* transform_card_page                                                     *)
(***************************************************************************)
SoldOut(rows) == {i \in DOMAIN rows : rows[i].out}

OutCodes(page) == {page.rows[i].code : i \in SoldOut(page.rows)} \ {NoCode}

(* confirmed_empty                                                         *)
Empty(page) == page.table /\ page.rows = << >> /\ page.saysEmpty

(* Mutant: one sold-out row excuses all the rows of the page.              *)
RowsRejectedUnlessOut(page) ==
    /\ page.rows # << >>
    /\ NoOffers(page)
    /\ SoldOut(page.rows) = {}

RowsRejected(page) ==
    /\ page.rows # << >>
    /\ NoOffers(page)
    /\ SoldOut(page.rows) # DOMAIN page.rows

Unrecognized(page) ==
    page.rows = << >> /\ ~Empty(page) /\ NoOffers(page)

(* error: listing_rows_*, listing_page_unrecognized or none.               *)
Transform(page) ==
    [error |-> IF RowsRejected(page) THEN "rows"
               ELSE IF Unrecognized(page) THEN "page" ELSE "none",
     listings |-> Deduplicated(Offers(page)),
     out |-> OutCodes(page),
     empty |-> Empty(page)]
=============================================================================
