--------------------------- MODULE SearchReindex ---------------------------
(***************************************************************************)
(* The reindex command beside the outbox worker. It walks the cards in id  *)
(* order and replaces the documents of a page at a time; the rows of a     *)
(* page are read in one transaction and submitted after it, so a card can  *)
(* be written, and its event worked on, in between.                        *)
(*                                                                         *)
(*   src/src/core/services/search_index/reindex.py   reindex_cards         *)
(*                                                                         *)
(* Rows may predate the outbox: they start with no event and no document,  *)
(* which is what the command is for.                                       *)
(***************************************************************************)
EXTENDS SearchOutbox

CONSTANTS
    PageSize,    \* --batch-size
    MaxWalks     \* bound on runs of the command

ASSUME ReindexAssumption ==
    /\ Cards \subseteq Nat \ {0}
    /\ PageSize \in Nat \ {0}
    /\ MaxWalks \in Nat

VARIABLES
    walk,      \* the command: its phase, cursor, page and task
    walks,     \* runs started
    crossed    \* cards written during the latest run

reindexVars == <<vars, walk, walks, crossed>>

NotWalking == [phase |-> "off", last |-> 0, docs |-> <<>>, task |-> NoTask]

Walking == walk.phase \in {"read", "submit", "wait"}

InitReindex ==
    /\ db \in [Cards -> {NoDoc, 1}]
    /\ event \in [EventIds -> {[status |-> "none", card |-> c, task |-> NoTask,
                                leased |-> FALSE] : c \in Cards}]
    /\ worker = [w \in Workers |-> Idle]
    /\ tasks = <<>>
    /\ index = [c \in Cards |-> NoDoc]
    /\ faults = 0
    /\ walk = NotWalking
    /\ walks = 0
    /\ crossed = {}

StartWalk ==
    /\ ~Walking
    /\ walks < MaxWalks
    /\ walks' = walks + 1
    /\ walk' = [NotWalking EXCEPT !.phase = "read"]
    /\ crossed' = {}
    /\ UNCHANGED vars

(* SELECT ... WHERE id > last_id ORDER BY id LIMIT batch_size.             *)
Page ==
    LET rows == {c \in Cards : db[c] # NoDoc /\ c > walk.last} IN
    {c \in rows : Cardinality({d \in rows : d < c}) < PageSize}

(* No rows: the command returns.                                           *)
ReadPage ==
    /\ walk.phase = "read"
    /\ walk' = IF Page = {} THEN [NotWalking EXCEPT !.phase = "done"]
               ELSE [walk EXCEPT !.phase = "submit", !.docs = Docs(Page)]
    /\ UNCHANGED <<vars, walks, crossed>>

SubmitPage ==
    /\ walk.phase = "submit"
    /\ Len(tasks) < MaxTasks
    /\ tasks' = Accepted(walk.docs)
    /\ walk' = [walk EXCEPT !.phase = "wait", !.task = Len(tasks')]
    /\ UNCHANGED <<db, event, worker, index, faults, walks, crossed>>

Onward ==
    walk' = [NotWalking EXCEPT
              !.phase = "read",
              !.last = CHOOSE c \in DOMAIN walk.docs :
                          \A d \in DOMAIN walk.docs : d <= c]

(* Mutant: the next page is read as soon as this one is accepted.          *)
WaitPageNot ==
    /\ walk.phase = "wait"
    /\ Onward
    /\ UNCHANGED <<vars, walks, crossed>>

WaitPage ==
    /\ walk.phase = "wait"
    /\ Answer(walk.task) = "succeeded"
    /\ Onward
    /\ UNCHANGED <<vars, walks, crossed>>

(* A refused page (TypeError), a failed, forgotten or overdue task         *)
(* (RuntimeError), a lost response or a killed command: it ends early, and *)
(* a page whose response was lost is still in Meilisearch's queue.         *)
EndsEarly ==
    /\ Walking
    /\ walk' = NotWalking
    /\ \/ UNCHANGED tasks
       \/ /\ walk.phase = "submit"
          /\ Len(tasks) < MaxTasks
          /\ tasks' = Accepted(walk.docs)
    /\ UNCHANGED <<db, event, worker, index, faults, walks, crossed>>

(* The rest of the system meanwhile.                                       *)
OutboxStep ==
    /\ Next
    /\ UNCHANGED <<walk, walks>>
    /\ crossed' = IF Walking THEN crossed \cup {c \in Cards : db'[c] # db[c]}
                  ELSE crossed

NextReindex ==
    \/ StartWalk
    \/ ReadPage
    \/ SubmitPage
    \/ WaitPage
    \/ EndsEarly
    \/ OutboxStep

SpecReindex == InitReindex /\ [][NextReindex]_reindexVars

(* A command that returned leaves every row that was not written under it  *)
(* with its document in the index, or with an event still to be worked on: *)
(* rows that predate the outbox, rows an earlier run left stale and rows   *)
(* the outbox worker handles beside it. Rows written during the run are    *)
(* left out because the page may overwrite the newer document with the row *)
(* it read before, and removed cards because the command deletes nothing.  *)
ReindexCovers ==
    walk.phase = "done" =>
        \A c \in Cards \ crossed :
            \/ db[c] \in {NoDoc, index[c]}
            \/ \E e \in EventsOf(c) : event[e].status \in Unsettled
=============================================================================
