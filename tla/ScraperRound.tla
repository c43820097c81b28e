---------------------------- MODULE ScraperRound ----------------------------
(***************************************************************************)
(* One scraper process: rounds of concurrent jobs, each of which makes its *)
(* requests under the spacing they share (HostPacing) and then loads what  *)
(* it found (SharedListings), while cards are removed beside it.           *)
(*                                                                         *)
(*   scraper/worker.py   run_forever, process_once, _request_url,          *)
(*                       _record_failure                                   *)
(*                                                                         *)
(* What a page says is SearchCrawl's matter, and which job is claimed and  *)
(* what becomes of it ScrapeQueue's: here a card has one job at a time.    *)
(***************************************************************************)
EXTENDS SharedListings

CONSTANT Interval    \* min_host_interval_seconds

ASSUME PacingAssumption == Interval \in Nat /\ IsFiniteSet(Loaders)

VARIABLES
    since, line, call,    \* the spacing of requests
    job                   \* what each concurrent call is at

Pacing == INSTANCE HostPacing WITH Slots <- Loaders

pacing == <<since, line, call>>
vars == <<listingVars, pacing, job>>

NoJob == [phase |-> "rest", card |-> NoCard, asked |-> FALSE]

InitRound ==
    /\ Init
    /\ Pacing!Init
    /\ job = [l \in Loaders |-> NoJob]

Rest == \A l \in Loaders : job[l].phase \in {"rest", "done"}

Goes(l, phase) == job' = [job EXCEPT ![l].phase = phase]

(* gather: every call claims a job or finds none.                          *)
StartRound ==
    /\ Rest
    /\ \E claims \in [Loaders -> (Cards \ removed) \cup {NoCard}] :
          /\ \E l \in Loaders : claims[l] # NoCard
          /\ \A l, m \in Loaders : l # m /\ claims[l] = claims[m] => claims[l] = NoCard
          /\ job' = [l \in Loaders |->
                       IF claims[l] = NoCard THEN NoJob
                       ELSE [NoJob EXCEPT !.phase = "fetch", !.card = claims[l]]]
    /\ UNCHANGED <<listingVars, pacing>>

(***************************************************************************)
(* Extraction                                                              *)
(***************************************************************************)
Request(l) ==
    /\ job[l].phase = "fetch"
    /\ Pacing!Ask(l)
    /\ job' = [job EXCEPT ![l].asked = TRUE]
    /\ UNCHANGED listingVars

PacingStep ==
    /\ \/ \E l \in Loaders : Pacing!Enter(l) \/ Pacing!Wake(l) \/ Pacing!Answered(l)
       \/ Pacing!Tick
    /\ UNCHANGED <<listingVars, job>>

(* An answer that is an error, a page that is not understood, or the       *)
(* timeout of the job, wherever it is.                                     *)
FetchFails(l) ==
    /\ job[l].phase = "fetch"
    /\ Pacing!Leave(l)
    /\ Goes(l, "failed")
    /\ UNCHANGED listingVars

Extracted(l) ==
    /\ job[l].phase = "fetch"
    /\ job[l].asked
    /\ call[l].phase = "off"
    /\ BeginLoad(l, job[l].card)
    /\ Goes(l, "load")
    /\ UNCHANGED pacing

(***************************************************************************)
(* Loading, and how a call ends                                            *)
(***************************************************************************)
LoadStep(l) ==
    /\ job[l].phase = "load"
    /\ UNCHANGED pacing
    /\ \/ Begin(l) /\ UNCHANGED job
       \/ LockRow(l) /\ UNCHANGED job
       \/ CheckCard(l) /\ UNCHANGED job
       \/ TakeRow(l, "job") /\ UNCHANGED job
       \/ CommitLoad(l) /\ job' = [job EXCEPT ![l] = [NoJob EXCEPT !.phase = "done"]]
       \/ LoadFails(l) /\ Goes(l, "failed")

(* The process ends, its transactions with it, and is started anew.        *)
Restarted ==
    /\ job' = [l \in Loaders |-> NoJob]
    /\ txn' = [t \in Txns |-> IF t \in Loaders THEN NoTxn ELSE txn[t]]
    /\ since' = Interval
    /\ line' = << >>
    /\ call' = [l \in Loaders |-> Pacing!NoRequest]
    /\ UNCHANGED <<rows, removed>>

(* mark_job_failed: its select raises when the job is gone, and the error  *)
(* leaves gather and ends the process.                                     *)
RecordFailure(l) ==
    /\ job[l].phase = "failed"
    /\ IF job[l].card \in removed
       THEN Restarted
       ELSE /\ job' = [job EXCEPT ![l] = NoJob]
            /\ UNCHANGED <<listingVars, pacing>>

Crash == ~Rest /\ Restarted

(***************************************************************************)
(* The specification                                                       *)
(***************************************************************************)
CallStep(l) == Extracted(l) \/ FetchFails(l) \/ LoadStep(l) \/ RecordFailure(l)

RemoveCard ==
    /\ RemoveStep \/ \E card \in Removable : BeginRemove(card)
    /\ UNCHANGED <<pacing, job>>

NextRound ==
    \/ StartRound
    \/ \E l \in Loaders : Request(l) \/ CallStep(l)
    \/ PacingStep
    \/ RemoveCard
    \/ Crash

Spec == InitRound /\ [][NextRound]_vars

(* The timeout ends an extraction, statements that need not wait are made, *)
(* a lock that is dropped goes to who waits for it, and PostgreSQL finds   *)
(* transactions that wait on one another.                                  *)
Fairness ==
    /\ \A l \in Loaders : SF_vars(CallStep(l))
    /\ WF_vars(RemoveStep /\ UNCHANGED <<pacing, job>>)

FairSpec == Spec /\ Fairness

(***************************************************************************)
(* Properties                                                              *)
(***************************************************************************)
Spaced == Pacing!Spaced
WaitBounded == Pacing!WaitBounded

Loaded(l) == job[l].phase = "load" /\ job'[l].phase = "done"

(* A load that commits leaves every row it listed its own, with the units  *)
(* it saw, active unless it was told there is nothing: a row that another  *)
(* card's load was writing at the same time is no mixture of the two.      *)
LoadIsWhole ==
    [][\A l \in Loaders : Loaded(l) =>
          \A listing \in ToSet(txn[l].seen.rows) :
              rows'[listing.key] = [card |-> txn[l].card, stock |-> listing.stock,
                                    active |-> ~txn[l].seen.empty]]_vars

(* After a load no active row of its card shows stock for a code it was    *)
(* told is sold out and did not list in stock, also when the row was       *)
(* locked by a load that took it for another card and was rolled back.     *)
SoldOutAmongOthers ==
    [][\A l \in Loaders : Loaded(l) =>
          \A k \in Keys :
              /\ rows'[k].card = txn[l].card
              /\ rows'[k].active
              /\ CodeOf[k] \in txn[l].seen.out
              /\ \A listing \in ToSet(txn[l].seen.rows) :
                    CodeOf[listing.key] = CodeOf[k] => listing.stock = 0
              => rows'[k].stock = 0]_vars

(* A row is changed by the load or the removal of its own card, or by a    *)
(* load that lists it: one that sells out or empties a card never reaches  *)
(* a row that another card has taken over in the meantime.                 *)
OthersRowsKept ==
    [][\A k \in Keys : rows[k].card # NoCard /\ rows'[k] # rows[k] =>
          \E t \in Txns :
              /\ txn[t] # NoTxn /\ txn'[t] = NoTxn
              /\ txn[t].card = rows[k].card \/ k \in Listed(t)]_vars

(* Every round ends, and the process claims again: no call waits for ever  *)
(* for the store, for a row that another load or a removal has locked, or  *)
(* for a transaction that waits for it.                                    *)
RoundsEnd == []<>Rest
=============================================================================
