--------------------------- MODULE SharedListings ---------------------------
(***************************************************************************)
(* The loads of several cards into the rows they share, as transactions.   *)
(* A row belongs to the card that loaded it, but its key has no card in    *)
(* it: cards whose names contain one another load the same products.       *)
(*                                                                         *)
(*   scraper/loader.py        the three statements of a load               *)
(*   repository/scrape_jobs   mark_job_succeeded, in the same transaction  *)
(*   repository/model.py      unique and foreign keys                      *)
(*   card_cases.py            remove: the rows lose their card, the target *)
(*                            and its job go                               *)
(*                                                                         *)
(* PostgreSQL is external, at READ COMMITTED: a statement finds its rows   *)
(* when it starts, locks them one at a time until its transaction ends,    *)
(* waits for a row another transaction has changed and then looks again    *)
(* whether it still matches. Of transactions that wait on one another it   *)
(* aborts one.                                                             *)
(***************************************************************************)
EXTENDS Integers, FiniteSets, Sequences, SequencesExt

CONSTANTS
    Loaders,        \* process_once calls
    Remover,        \* a request that removes a card
    Cards,
    Removable,      \* cards that may be removed
    NoCard,         \* card_id IS NULL
    Keys,           \* product, code and condition
    CodeOf,         \* the code in each key
    Observations    \* what an extraction may have found for each card

ASSUME ListingsAssumption ==
    /\ Remover \notin Loaders
    /\ NoCard \notin Cards
    /\ Removable \subseteq Cards
    /\ IsFiniteSet(Keys)
    /\ \A card \in Cards : \A seen \in Observations[card] :
          /\ {"rows", "out", "empty"} = DOMAIN seen
          /\ seen.rows \in Seq([key : Keys, stock : {0, 1}])
          /\ \A i, j \in 1 .. Len(seen.rows) :
                seen.rows[i].key = seen.rows[j].key => i = j

VARIABLES
    rows,       \* card_listings as committed
    removed,    \* cards removed
    txn         \* each transaction

listingVars == <<rows, removed, txn>>

Txns == Loaders \cup {Remover}
NoRow == [card |-> NoCard, stock |-> 0, active |-> FALSE]
Row == [card : Cards \cup {NoCard}, stock : {0, 1}, active : BOOLEAN]

NoPage == [rows |-> << >>, out |-> {}, empty |-> FALSE]

(* plan: the statements left, the current one first; todo: the rows the    *)
(* current one has still to lock, once begun; share: the card row is       *)
(* locked against removal.                                                 *)
NoTxn == [plan |-> << >>, card |-> NoCard, seen |-> NoPage, begun |-> FALSE,
          todo |-> << >>, writes |-> << >>, share |-> FALSE]

Init ==
    /\ rows = [k \in Keys |-> NoRow]
    /\ removed = {}
    /\ txn = [t \in Txns |-> NoTxn]

Phase(t) == IF txn[t].plan = << >> THEN "off" ELSE Head(txn[t].plan)

(* The row as transaction t sees it.                                       *)
Sees(t, k) == IF k \in DOMAIN txn[t].writes THEN txn[t].writes[k] ELSE rows[k]

Listed(t) == {seen.key : seen \in ToSet(txn[t].seen.rows)}

(***************************************************************************)
(* Who waits for whom                                                      *)
(***************************************************************************)
Holds(t, row) == Phase(t) # "off" /\ row \notin ToSet(txn[t].plan)

(* The foreign key is looked at when a row is new to the card.             *)
NewToCard(t) == \E k \in Listed(t) : rows[k].card # txn[t].card

WaitsFor(t) ==
    {o \in Txns \ {t} :
        \/ txn[t].begun /\ Head(txn[t].todo) \in DOMAIN txn[o].writes
        \/ /\ txn[o].card = txn[t].card
           /\ \/ Phase(t) \in {"job", "target"} /\ Holds(o, Phase(t))
              \/ Phase(t) = "check" /\ NewToCard(t)
                 /\ o = Remover /\ Holds(o, "card")
              \/ Phase(t) = "card" /\ txn[o].share}

(* Every one of some set waits for one of it and is waited for by one.     *)
Deadlocked(t) ==
    \E circle \in SUBSET Txns :
        /\ t \in circle
        /\ \A o \in circle : /\ WaitsFor(o) \cap circle # {}
                             /\ \E p \in circle : o \in WaitsFor(p)

(***************************************************************************)
(* The statements                                                          *)
(***************************************************************************)
(* codes_to_zero: said to be sold out, and not listed in stock.            *)
CodesToZero(seen) ==
    seen.out \ {CodeOf[r.key] : r \in {s \in ToSet(seen.rows) : s.stock > 0}}

(* Statements with nothing to do are not made.                             *)
LoadPlan(seen) ==
    LET mark == <<"job", "target">>
        empty == IF seen.empty THEN <<"empty">> \o mark ELSE mark
        zero == IF CodesToZero(seen) # {} THEN <<"zero">> \o empty ELSE empty
    IN IF seen.rows # << >> THEN <<"upsert", "check">> \o zero ELSE zero

BeginLoad(l, card) ==
    /\ Phase(l) = "off"
    /\ \E seen \in Observations[card] :
          txn' = [txn EXCEPT ![l] = [NoTxn EXCEPT !.plan = LoadPlan(seen),
                                                  !.card = card, !.seen = seen]]
    /\ UNCHANGED <<rows, removed>>

(* The rows of an update by t: those of its card with a code to zero; its  *)
(* active ones; all.                                                       *)
Matches(t, k) ==
    /\ Sees(t, k).card = txn[t].card
    /\ CASE Phase(t) = "zero" -> /\ Sees(t, k).active
                                 /\ CodeOf[k] \in CodesToZero(txn[t].seen)
         [] Phase(t) = "empty" -> Sees(t, k).active
         [] Phase(t) = "detach" -> TRUE

Updated(t, k) ==
    CASE Phase(t) = "zero" -> [Sees(t, k) EXCEPT !.stock = 0]
      [] Phase(t) = "empty" -> [Sees(t, k) EXCEPT !.active = FALSE]
      [] Phase(t) = "detach" -> [Sees(t, k) EXCEPT !.card = NoCard]

(* Mutant: the card of a row that is already there is left out of set_.    *)
InsertedKeepingCard(t, k) ==
    LET seen == CHOOSE s \in ToSet(txn[t].seen.rows) : s.key = k IN
    [card |-> IF rows[k] = NoRow THEN txn[t].card ELSE rows[k].card,
     stock |-> seen.stock, active |-> TRUE]

Inserted(t, k) ==
    LET seen == CHOOSE s \in ToSet(txn[t].seen.rows) : s.key = k IN
    [card |-> txn[t].card, stock |-> seen.stock, active |-> TRUE]

(* An insert goes through its rows in the order given, an update through   *)
(* those that match in any order.                                          *)
Begin(t) ==
    /\ Phase(t) \in {"upsert", "zero", "empty", "detach"}
    /\ ~txn[t].begun
    /\ \E todo \in IF Phase(t) = "upsert"
                   THEN {[i \in DOMAIN txn[t].seen.rows |-> txn[t].seen.rows[i].key]}
                   ELSE SetToSeqs({k \in Keys : Matches(t, k)}) :
          txn' = [txn EXCEPT ![t].todo = todo,
                             ![t].begun = todo # << >>,
                             ![t].plan = IF todo = << >> THEN Tail(@) ELSE @]
    /\ UNCHANGED <<rows, removed>>

Written(t, k, row) == [l \in DOMAIN txn[t].writes \cup {k} |->
                          IF l = k THEN row ELSE txn[t].writes[l]]

(* Mutant: an update goes by the rows it found, whatever they are now.     *)
WritesFound(t, k) ==
    Written(t, k, IF Phase(t) = "upsert" THEN Inserted(t, k) ELSE Updated(t, k))

Writes(t, k) ==
    IF Phase(t) = "upsert" THEN Written(t, k, Inserted(t, k))
    ELSE IF Matches(t, k) THEN Written(t, k, Updated(t, k))
    ELSE txn[t].writes

(* Mutant: a row that is locked is passed over.                            *)
LockRowSkipping(t) ==
    LET k == Head(txn[t].todo)
        rest == Tail(txn[t].todo)
    IN
    /\ txn[t].begun
    /\ txn' = [txn EXCEPT ![t].writes = IF WaitsFor(t) = {} THEN Writes(t, k) ELSE @,
                          ![t].todo = rest,
                          ![t].begun = rest # << >>,
                          ![t].plan = IF rest = << >> THEN Tail(@) ELSE @]
    /\ UNCHANGED <<rows, removed>>

LockRow(t) ==
    LET k == Head(txn[t].todo)
        rest == Tail(txn[t].todo)
    IN
    /\ txn[t].begun
    /\ WaitsFor(t) = {}
    /\ txn' = [txn EXCEPT ![t].writes = Writes(t, k),
                          ![t].todo = rest,
                          ![t].begun = rest # << >>,
                          ![t].plan = IF rest = << >> THEN Tail(@) ELSE @]
    /\ UNCHANGED <<rows, removed>>

(* The foreign key of the rows inserted. The card may be gone.             *)
CheckCard(l) ==
    /\ Phase(l) = "check"
    /\ WaitsFor(l) = {}
    /\ NewToCard(l) => txn[l].card \notin removed
    /\ txn' = [txn EXCEPT ![l].share = NewToCard(l), ![l].plan = Tail(@)]
    /\ UNCHANGED <<rows, removed>>

(* The lock of one row: the card's, the target's or the job's, which may   *)
(* be gone.                                                                *)
Takes(t, row) ==
    /\ Phase(t) = row
    /\ WaitsFor(t) = {}
    /\ txn[t].card \notin removed

TakeRow(t, row) ==
    /\ Takes(t, row)
    /\ txn' = [txn EXCEPT ![t].plan = Tail(@)]
    /\ UNCHANGED <<rows, removed>>

Committed(t) == [k \in Keys |-> Sees(t, k)]

(* mark_job_succeeded has locked the job; the commit writes the target too.*)
CommitLoad(l) ==
    /\ Takes(l, "target")
    /\ rows' = Committed(l)
    /\ txn' = [txn EXCEPT ![l] = NoTxn]
    /\ UNCHANGED removed

(* Mutant: the session is left open by an error.                           *)
RollbackOpen(t) ==
    /\ txn' = [txn EXCEPT ![t] = [NoTxn EXCEPT !.writes = txn[t].writes]]
    /\ UNCHANGED <<rows, removed>>

Rollback(t) ==
    /\ txn' = [txn EXCEPT ![t] = NoTxn]
    /\ UNCHANGED <<rows, removed>>

(* Aborted by PostgreSQL, or the card or its job is gone.                  *)
LoadFails(l) ==
    /\ \/ Deadlocked(l)
       \/ /\ txn[l].card \in removed
          /\ WaitsFor(l) = {}
          /\ \/ Phase(l) = "check" /\ NewToCard(l)
             \/ Phase(l) = "job"
    /\ Rollback(l)

(***************************************************************************)
(* Removing a card: its row is locked, then its listings and its target    *)
(* follow, in the order of their foreign keys' triggers, and last the job. *)
(***************************************************************************)
BeginRemove(card) ==
    /\ Phase(Remover) = "off"
    /\ card \in Removable \ removed
    /\ txn' = [txn EXCEPT ![Remover] =
                  [NoTxn EXCEPT !.plan = <<"card", "detach", "target", "job">>,
                                !.card = card]]
    /\ UNCHANGED <<rows, removed>>

CommitRemove ==
    /\ Takes(Remover, "job")
    /\ rows' = Committed(Remover)
    /\ removed' = removed \cup {txn[Remover].card}
    /\ txn' = [txn EXCEPT ![Remover] = NoTxn]

RemoveFails ==
    /\ Deadlocked(Remover)
    /\ Rollback(Remover)

RemoveStep ==
    \/ TakeRow(Remover, "card") \/ Begin(Remover) \/ LockRow(Remover)
    \/ TakeRow(Remover, "target") \/ CommitRemove \/ RemoveFails
=============================================================================
