------------------------------ MODULE SearchCrawl ------------------------------
(***************************************************************************)
(* A job's visit to the store: the card's own page, or the search pages    *)
(* and then the page of each product they show, and the transaction that   *)
(* loads what was read.                                                    *)
(*                                                                         *)
(*   scraper/worker.py           _extract_and_transform                    *)
(*   scraper/search_results.py   parse_search_page                         *)
(*   scraper/scraper.py          fetch_card_page, fetch_url                *)
(*   scraper/loader.py           load_scraped_data_to_database             *)
(*                                                                         *)
(* The store answers each request as it likes. A search row is one that    *)
(* parse_search_page keeps: the card's name, a YuGiOh category, a product  *)
(* URL. Listings are those of one source.                                  *)
(***************************************************************************)
EXTENDS ListingPage, FiniteSets, SequencesExt

CONSTANTS
    Urls,              \* product pages
    Title,             \* the product key of each: several pages may share it
    CardTitle,         \* the product key of the card's own page
    ProductPages,      \* what a product page may say
    FirstPages,        \* where the search the store redirects to may start
    MaxSearchPages

ASSUME CrawlAssumption ==
    /\ IsFiniteSet(Urls)
    /\ ProductPages \subseteq Page
    /\ MaxSearchPages \in Nat \ {0}
    /\ FirstPages \subseteq Nat \ {0}

VARIABLES
    db,            \* card_listings: the rows, by product key, code, condition
    phase,         \* idle, first, search, products or load
    number,        \* page_number
    current,       \* the page in current_url
    seen,          \* seen_pages
    products,      \* the products found, in order
    listed,        \* what the search said of each
    confirmed,     \* confirmed_empty
    got,           \* what the products gave
    error,         \* how the latest job ended
    shown          \* what the store has shown to this job

crawlVars == <<db, phase, number, current, seen, products, listed, confirmed, got,
               error, shown>>
searching == <<number, current, seen, products, listed, confirmed>>

Over(new, old) ==
    [k \in DOMAIN old \cup DOMAIN new |-> IF k \in DOMAIN new THEN new[k] ELSE old[k]]

NoResult == [listings |-> NoListings, inStock |-> {}, out |-> {}, empty |-> FALSE]

(* What the store has shown, to whoever reads all of it: the products of   *)
(* the search pages and those whose pages were read, the codes shown in    *)
(* stock and sold out, whether a page said that there is nothing, and      *)
(* whether a search page named a next one that has not been shown. A code  *)
(* stands as sold out unless only rows said so that were replaced by later *)
(* ones of their product, or pages of which no row can be read.            *)
NothingShown == [products |-> {}, more |-> FALSE, read |-> {}, in |-> {}, out |-> {},
                 stands |-> {}, nothing |-> FALSE]

Unset ==
    /\ number' = 1
    /\ current' = 1
    /\ seen' = {}
    /\ products' = << >>
    /\ listed' = [u \in {} |-> 0]
    /\ confirmed' = FALSE

InitCrawl ==
    /\ db = [id \in {} |-> 0]
    /\ phase = "idle"
    /\ number = 1 /\ current = 1 /\ seen = {}
    /\ products = << >> /\ listed = [u \in {} |-> 0]
    /\ confirmed = FALSE
    /\ got = NoResult
    /\ error = "none"
    /\ shown = NothingShown

Start ==
    /\ phase = "idle"
    /\ phase' = "first"
    /\ Unset
    /\ got' = NoResult
    /\ error' = "none"
    /\ shown' = NothingShown
    /\ UNCHANGED db

(***************************************************************************)
(* Failures: a timeout, an HTTP error, a redirect, a page that is not      *)
(* understood, an error of the transaction. Only fetch_card_page tells a   *)
(* 404 from other errors.                                                  *)
(***************************************************************************)
Failures == IF phase = "first" THEN {"not_found", "other"} ELSE {"other"}

Fail ==
    /\ phase # "idle"
    /\ phase' = "idle"
    /\ error' \in Failures
    /\ UNCHANGED <<db, searching, got, shown>>

(***************************************************************************)
(* The first answer                                                        *)
(***************************************************************************)
(* What a product page adds to what the store has shown.                   *)
Witness(page, url) ==
    LET rows == ToSet(page.rows) \cup ToSet(page.loose)
    IN  [shown EXCEPT
           !.read = @ \cup url,
           !.in = @ \cup {r.code : r \in {w \in rows : w.stock > 0}},
           !.out = @ \cup OutCodes(page),
           !.stands = IF Transform(page).error = "none" THEN @ \cup OutCodes(page)
                      ELSE @,
           !.nothing = @ \/ page.saysEmpty]

(* The code of a search row that says "out of stock".                      *)
OutCode(row) == IF row.out THEN {row.code} \ {NoCode} ELSE {}

(* What a search page adds. The next page it names is shown when a page    *)
(* comes that was not read before.                                         *)
SearchWitness(rows, saysEmpty, next) ==
    [shown EXCEPT
       !.products = @ \cup DOMAIN rows,
       !.more = next \/ (@ /\ current \in seen),
       !.out = @ \cup UNION {OutCode(rows[u]) : u \in DOMAIN rows},
       !.nothing = @ \/ saysEmpty]

Keyed(key, listings) ==
    [id \in {<<key, k[1], k[2]>> : k \in DOMAIN listings} |->
        listings[<<id[2], id[3]>>]]

InStock(listings) == {k[1] : k \in {l \in DOMAIN listings : listings[l] > 0}}

(* The card's own page: what it says is the result.                        *)
FirstIsProduct ==
    /\ phase = "first"
    /\ \E page \in ProductPages :
          LET t == Transform(page)
          IN  /\ t.error = "none"
              /\ got' = [listings |-> Keyed(CardTitle, t.listings),
                         inStock |-> InStock(t.listings),
                         out |-> t.out, empty |-> t.empty]
              /\ shown' = Witness(page, {})
    /\ phase' = "load"
    /\ UNCHANGED <<db, searching, error>>

FirstIsSearch ==
    /\ phase = "first"
    /\ current' \in FirstPages
    /\ phase' = "search"
    /\ UNCHANGED <<db, number, seen, products, listed, confirmed, got, error, shown>>

(***************************************************************************)
(* The search pages                                                        *)
(***************************************************************************)
SearchRow == [out : BOOLEAN, code : Codes \cup {NoCode}]

Orders(S) == {s \in [1 .. Cardinality(S) -> S] : ToSet(s) = S}

(* Mutant: a page that comes again is read again.                          *)
UnderstoodAgain(rows, others, saysEmpty) ==
    DOMAIN rows # {} \/ others \/ saysEmpty

(* A search page without rows that does not say why is not understood; one *)
(* that was read before is an error of the pagination.                     *)
Understood(rows, others, saysEmpty) ==
    /\ current \notin seen
    /\ DOMAIN rows # {} \/ others \/ saysEmpty

(* Mutant: the products of the earlier pages are forgotten.                *)
CollectOnly(rows) ==
    /\ listed' = rows
    /\ products' \in Orders(DOMAIN rows)

(* A product shown again keeps its place, and the later row counts.        *)
Collect(rows) ==
    /\ listed' = Over(rows, listed)
    /\ \E new \in Orders(DOMAIN rows \ DOMAIN listed) : products' = products \o new

MayTurn == number < MaxSearchPages

(* Mutant: at the limit the search ends instead of failing.                *)
EndsAtLimit(next) == ~next \/ ~MayTurn

Ends(next) == ~next

ReadSearchPage ==
    /\ phase = "search"
    /\ \E shows \in SUBSET Urls : \E rows \in [shows -> SearchRow] :
       \E others, saysEmpty, next \in BOOLEAN :
          /\ Understood(rows, others, saysEmpty)
          /\ Collect(rows)
          /\ seen' = seen \cup {current}
          /\ confirmed' = (confirmed \/ saysEmpty)
          /\ IF Ends(next)
             THEN /\ UNCHANGED <<number, current>>
                  /\ IF DOMAIN listed' # {}
                     THEN phase' = "products" /\ UNCHANGED got
                     ELSE /\ confirmed'
                          /\ phase' = "load"
                          /\ got' = [NoResult EXCEPT !.empty = TRUE]
             ELSE /\ MayTurn
                  /\ number' = number + 1
                  /\ current' = number + 1
                  /\ UNCHANGED <<phase, got>>
          /\ shown' = SearchWitness(rows, saysEmpty, next)
    /\ UNCHANGED <<db, error>>

(***************************************************************************)
(* The products                                                            *)
(***************************************************************************)
(* A page whose rows cannot be read is let pass for a product that the     *)
(* search called sold out.                                                 *)
Tolerated(url, t) ==
    t.error = "none" \/ (t.error = "rows" /\ listed[url].out)

(* Mutant: the code that the search row of a sold-out product showed is    *)
(* used only when its page cannot be read.                                 *)
SearchCodeIfUnread(url, t) ==
    IF t.error # "none" THEN OutCode(listed[url]) ELSE {}

SearchCode(url, t) == OutCode(listed[url])

FetchProduct ==
    /\ phase = "products"
    /\ LET url == Head(products)
       IN  \E page \in ProductPages :
             LET t == Transform(page)
                 found == IF t.error = "none" THEN t.listings ELSE NoListings
                 out == IF t.error = "none" THEN t.out ELSE {}
             IN  /\ Tolerated(url, t)
                 /\ got' = [got EXCEPT
                              !.listings = Over(Keyed(Title[url], found), @),
                              !.inStock = @ \cup InStock(found),
                              !.out = @ \cup out \cup SearchCode(url, t)]
                 /\ shown' = [Witness(page, {url}) EXCEPT
                                !.stands = @ \cup OutCode(listed[url])]
    /\ products' = Tail(products)
    /\ phase' = IF products' = << >> THEN "load" ELSE "products"
    /\ UNCHANGED <<db, number, current, seen, listed, confirmed, error>>

(***************************************************************************)
(* load_scraped_data_to_database, in one transaction                       *)
(***************************************************************************)
Upserted ==
    Over([id \in DOMAIN got.listings |->
            [mine |-> TRUE, stock |-> got.listings[id], active |-> TRUE]], db)

Zeroes(row, code) ==
    row.mine /\ row.active /\ code \in got.out \ got.inStock

(* Mutant: what a product page does not list is deactivated.               *)
DeactivatesUnlisted(id, row) ==
    row.mine /\ row.active /\ (got.empty \/ id \notin DOMAIN got.listings)

Deactivates(id, row) == row.mine /\ row.active /\ got.empty

Load ==
    /\ phase = "load"
    /\ db' = [id \in DOMAIN Upserted |->
                LET row == Upserted[id]
                IN  [row EXCEPT
                       !.stock = IF Zeroes(row, id[2]) THEN 0 ELSE @,
                       !.active = @ /\ ~Deactivates(id, row)]]
    /\ phase' = "idle"
    /\ UNCHANGED <<searching, got, error, shown>>

(* The load of another card whose name the product's title contains too.   *)
OtherLoad ==
    /\ \E id \in DOMAIN db, units \in {0, 1} :
          db' = [db EXCEPT ![id] = [mine |-> FALSE, stock |-> units, active |-> TRUE]]
    /\ UNCHANGED <<phase, searching, got, error, shown>>

NextCrawl ==
    \/ Start \/ Fail \/ FirstIsProduct \/ FirstIsSearch
    \/ ReadSearchPage \/ FetchProduct \/ Load
    \/ OtherLoad

SpecCrawl == InitCrawl /\ [][NextCrawl]_crawlVars

(***************************************************************************)
(* Properties                                                              *)
(***************************************************************************)
(* Every variable has its type; page_number stays within the limit.        *)
TypeOK ==
    /\ \A id \in DOMAIN db : db[id] \in [mine : BOOLEAN, stock : {0, 1},
                                         active : BOOLEAN]
    /\ phase \in {"idle", "first", "search", "products", "load"}
    /\ number \in 1 .. MaxSearchPages
    /\ current \in Nat
    /\ seen \subseteq Nat
    /\ ToSet(products) \subseteq DOMAIN listed
    /\ DOMAIN listed \subseteq Urls
    /\ confirmed \in BOOLEAN
    /\ error \in {"none", "not_found", "other"}

(* Nothing is loaded from part of a search: the search went to its last    *)
(* page, also when the pages are more than the limit or come again, and    *)
(* every product that any of its pages showed was read.                    *)
WholeCrawl ==
    phase = "load" => ~shown.more /\ shown.read = shown.products

(* Nobody looks at a search row that a later one of its product replaces.  *)
(* Of a page none of whose rows can be read, let pass because the search   *)
(* called its product sold out, the codes it calls sold out are dropped.   *)
Disregarded == shown.out \ shown.stands

(* After a load, no row of the card shows stock for a code that a search   *)
(* row or a row of a product page called sold out and no page showed in    *)
(* stock, but for the codes that only disregarded rows called so.          *)
SoldOutIsZeroed ==
    [][phase = "load" /\ phase' = "idle" /\ error' = "none" =>
        \A id \in DOMAIN db' :
            /\ db'[id].mine /\ db'[id].active
            /\ id[2] \in shown.out \ (shown.in \cup Disregarded)
            => db'[id].stock = 0]_crawlVars

(* A row is deactivated only by a job that was told there is nothing, and  *)
(* that no search page showed a product to.                                *)
DeactivatedOnlyIfTold ==
    [][\A id \in DOMAIN db :
          db[id].active /\ ~db'[id].active =>
              shown.nothing /\ shown.products = {}]_crawlVars

(* Only an unequivocal page empties a card: what a job found listings for  *)
(* is active after its load.                                               *)
OffersStayActive ==
    [][phase = "load" /\ phase' = "idle" /\ error' = "none" =>
        \A id \in DOMAIN got.listings : db'[id].active]_crawlVars
=============================================================================
