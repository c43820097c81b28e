---------------------------- MODULE ScrapeQueue ----------------------------
(***************************************************************************)
(* The scrape-job queue in PostgreSQL, the scraper processes that drain it *)
(* and the clients (API searches, the schedule commands) that fill it.     *)
(*                                                                         *)
(*   src/src/api/cards/repository/scrape_jobs.py   the queue operations    *)
(*   src/src/core/services/scraper/worker.py       process_once, the loop  *)
(*                                                                         *)
(* A database transaction is one step, except enqueue_for_card, whose      *)
(* second statement reads what others committed after its first one.       *)
(* Clocks are countdowns: `avail` is available_at - now (negative: how     *)
(* long it has been claimable, down to -MaxAge), `lease` is                *)
(* lease_expires_at - now, down to 0.                                      *)
(***************************************************************************)
EXTENDS Integers, FiniteSets

CONSTANTS
    Cards,          \* cards a job can be about
    JobIds,         \* ids uuid4 can draw: bounds the jobs ever created
    NoJob,          \* "no job" and "no card", in neither of their sets
    Procs,          \* scraper processes
    Slots,          \* the concurrent process_once calls of all processes
    ProcOf,         \* the process each slot belongs to
    NoSlot,         \* "no slot", not a member of Slots
    Clients,        \* API requests calling enqueue_for_card
    Lease,          \* settings.lease_seconds
    JobTimeout,     \* settings.job_timeout_seconds, around extraction only
    LoadBudget,     \* longest load or failure record when ~LoadsMayStall
    LoadsMayStall,  \* TRUE: nothing bounds them, as in the code
    MaxAttempts,    \* settings.max_attempts
    RetryDelays,    \* delays a retry may get: schedule, jitter, Retry-After
    ScheduleDelays, \* how far ahead the schedule commands set available_at
    MaxAge,         \* bound: waiting times beyond this are not told apart
    MaxClaims,      \* bound on the attempts of one job
    MaxDeaths       \* bound on crashes of processes

ASSUME ConstantsAssumption ==
    /\ NoJob \notin JobIds \cup Cards
    /\ NoSlot \notin Slots
    /\ ProcOf \in [Slots -> Procs]
    /\ {Lease, JobTimeout, LoadBudget, MaxAge, MaxClaims, MaxDeaths} \subseteq Nat
    /\ MaxAttempts \in Nat \ {0}
    /\ LoadsMayStall \in BOOLEAN
    /\ RetryDelays \subseteq Nat
    /\ ScheduleDelays \subseteq Nat

VARIABLES
    target,   \* row of scrape_targets of each card
    job,      \* rows of scrape_jobs
    slot,     \* what each process_once call is doing
    alive,    \* which processes run
    deaths,   \* how many processes have died so far
    client    \* API requests inside enqueue_for_card

vars == <<target, job, slot, alive, deaths, client>>

(***************************************************************************)
(* Rows and phases                                                         *)
(***************************************************************************)
Active == {"pending", "running", "retry_wait"}
Terminal == {"succeeded", "failed"}

Interactive == 0    \* default priority of enqueue_for_card
Scheduled == -10    \* priority of the schedule commands

Job == [status   : Active \cup Terminal \cup {"none", "gone"},
        card     : Cards \cup {NoJob},
        priority : {Interactive, Scheduled},
        attempts : Nat,
        avail    : Int,
        lease    : Nat]

Slot == [phase : {"ready", "done"}, job : {NoJob}, left : Nat,
         error : {"none"}]
        \cup
        [phase : {"extract", "load", "record"}, job : JobIds, left : Nat,
         error : {"none", "retryable", "not_found"}]

Client == [phase : {"idle"}, card : {NoJob}, job : {NoJob}]
          \cup
          [phase : {"joining"}, card : Cards, job : JobIds]

Row(status, card, priority, attempts, avail, lease) ==
    [status |-> status, card |-> card, priority |-> priority,
     attempts |-> attempts, avail |-> avail, lease |-> lease]

NoRow == Row("none", NoJob, Interactive, 0, 0, 0)

SlotIn(phase, j, left, error) ==
    [phase |-> phase, job |-> j, left |-> left, error |-> error]

Ready == SlotIn("ready", NoJob, 0, "none")
Done == SlotIn("done", NoJob, 0, "none")

NoRequest == [phase |-> "idle", card |-> NoJob, job |-> NoJob]

(* What a success, a final failure or a deletion makes of a row.           *)
Ended(row, status) ==
    Row(status, row.card, row.priority, row.attempts, row.avail, 0)

(* Mutant: a failure writes a status that no claim looks for.              *)
RetriedMisnamed(row, delay) ==
    Row("waiting", row.card, row.priority, row.attempts, delay, 0)

(* What a failure that leaves attempts makes of it.                        *)
Retried(row, delay) ==
    Row("retry_wait", row.card, row.priority, row.attempts, delay, 0)

Busy(s) == slot[s].phase \in {"extract", "load", "record"}

Holders(j) == {s \in Slots : Busy(s) /\ slot[s].job = j}

IsActive(j) == job[j].status \in Active

ActiveJobs(c) == {j \in JobIds : IsActive(j) /\ job[j].card = c}

(* A request that lost the insert keeps the row lock its upsert took on    *)
(* the target until it answers.                                            *)
TargetLocked(c) == \E q \in Clients : /\ client[q].phase = "joining"
                                      /\ client[q].card = c

Init ==
    /\ target = [c \in Cards |-> "absent"]
    /\ job = [j \in JobIds |-> NoRow]
    /\ slot = [s \in Slots |-> Ready]
    /\ alive = [p \in Procs |-> TRUE]
    /\ deaths = 0
    /\ client = [q \in Clients |-> NoRequest]

(***************************************************************************)
(* Filling the queue                                                       *)
(***************************************************************************)
NewJob(c, priority, delay) ==
    Row("pending", c, priority, 0, delay, 0)

(* Mutant: the index predicate forgets retry_wait.                         *)
InsertJobForgettingRetries(c, j, priority, delay) ==
    /\ \A k \in ActiveJobs(c) : job[k].status = "retry_wait"
    /\ job[j].status = "none"
    /\ job' = [job EXCEPT ![j] = NewJob(c, priority, delay)]

(* build_job_insert: the partial unique index turns an insert for a target *)
(* with an active job into nothing.                                        *)
InsertJob(c, j, priority, delay) ==
    /\ ActiveJobs(c) = {}
    /\ job[j].status = "none"
    /\ job' = [job EXCEPT ![j] = NewJob(c, priority, delay)]

(* enqueue_for_card, the insert succeeds: upsert, insert and commit.       *)
EnqueueNew(q, c, j) ==
    /\ client[q].phase = "idle"
    /\ target[c] \in {"absent", "enabled"}
    /\ ~TargetLocked(c)
    /\ InsertJob(c, j, Interactive, 0)
    /\ target' = [target EXCEPT ![c] = "enabled"]
    /\ UNCHANGED <<slot, alive, deaths, client>>

(* enqueue_for_card, the insert hits an active job: the request goes on to *)
(* its SELECT with the target row locked. (A disabled target leaves the    *)
(* upsert without a row: rollback, no job, nothing changes.)               *)
EnqueueConflict(q, c, j) ==
    /\ client[q].phase = "idle"
    /\ target[c] = "enabled"
    /\ ~TargetLocked(c)
    /\ j \in ActiveJobs(c)
    /\ client' = [client EXCEPT
                    ![q] = [phase |-> "joining", card |-> c, job |-> j]]
    /\ UNCHANGED <<target, job, slot, alive, deaths>>

(* The SELECT of the active job: it is handed out, or there is none any    *)
(* more and scalar_one raises; both end the transaction.                   *)
EnqueueJoin(q) ==
    /\ client[q].phase = "joining"
    /\ client' = [client EXCEPT ![q] = NoRequest]
    /\ UNCHANGED <<target, job, slot, alive, deaths>>

(* enqueue_card_batch for one card. Without --include-disabled a disabled  *)
(* target is skipped; with it the target is enabled again.                 *)
ScheduleCard(c, j, delay, includeDisabled) ==
    /\ target[c] # "deleted"
    /\ target[c] = "disabled" => includeDisabled
    /\ ~TargetLocked(c)
    /\ InsertJob(c, j, Scheduled, delay)
    /\ target' = [target EXCEPT ![c] = "enabled"]
    /\ UNCHANGED <<slot, alive, deaths, client>>

(* reset_target: enables the target, creates no job.                       *)
ResetTarget(c) ==
    /\ target[c] = "disabled"
    /\ ~TargetLocked(c)
    /\ target' = [target EXCEPT ![c] = "enabled"]
    /\ UNCHANGED <<job, slot, alive, deaths, client>>

(* Deleting a card cascades to its target and to the target's jobs.        *)
DeleteCard(c) ==
    /\ target[c] # "deleted"
    /\ ~TargetLocked(c)
    /\ target' = [target EXCEPT ![c] = "deleted"]
    /\ job' = [j \in JobIds |->
                 IF job[j].card = c THEN Ended(job[j], "gone") ELSE job[j]]
    /\ UNCHANGED <<slot, alive, deaths, client>>

(***************************************************************************)
(* Claiming                                                                *)
(***************************************************************************)
(* Mutant: the lease ends one unit early.                                  *)
ClaimableEarly(j) ==
    /\ \/ job[j].status \in {"pending", "retry_wait"} /\ job[j].avail <= 0
       \/ job[j].status = "running" /\ job[j].lease <= 1
    /\ job[j].attempts < MaxClaims

(* Mutant: expired leases are not taken over.                              *)
ClaimableWaiting(j) ==
    /\ job[j].status \in {"pending", "retry_wait"}
    /\ job[j].avail <= 0
    /\ job[j].attempts < MaxClaims

(* Mutant: the statement looks at the lease and not at the status.         *)
ClaimableAnyStatus(j) ==
    /\ job[j].status \notin {"none", "gone"}
    /\ job[j].avail <= 0
    /\ job[j].lease = 0
    /\ job[j].attempts < MaxClaims

(* The WHERE clause of build_claim_statement. Neither the attempts already *)
(* made nor is_enabled take part; MaxClaims is the model's bound.          *)
Claimable(j) ==
    /\ \/ job[j].status \in {"pending", "retry_wait"} /\ job[j].avail <= 0
       \/ job[j].status = "running" /\ job[j].lease = 0
    /\ job[j].attempts < MaxClaims

(* ORDER BY priority DESC, available_at ASC.                               *)
Precedes(j, k) ==
    \/ job[j].priority > job[k].priority
    \/ job[j].priority = job[k].priority /\ job[j].avail < job[k].avail

(* SKIP LOCKED: a slot that loads or records may have the row locked now.  *)
MayBeLocked(j) ==
    \E s \in Slots : slot[s].phase \in {"load", "record"} /\ slot[s].job = j

Claimed(row) ==
    Row("running", row.card, row.priority, row.attempts + 1, row.avail, Lease)

Claim(s, j) ==
    /\ alive[ProcOf[s]]
    /\ slot[s].phase = "ready"
    /\ Claimable(j)
    /\ \A k \in JobIds : Claimable(k) /\ Precedes(k, j) => MayBeLocked(k)
    /\ job' = [job EXCEPT ![j] = Claimed(@)]
    /\ slot' = [slot EXCEPT ![s] = SlotIn("extract", j, JobTimeout, "none")]
    /\ UNCHANGED <<target, alive, deaths, client>>

(* claim_next_job returns None: process_once is over for this round.       *)
ClaimNothing(s) ==
    /\ alive[ProcOf[s]]
    /\ slot[s].phase = "ready"
    /\ \A k \in JobIds : Claimable(k) => MayBeLocked(k)
    /\ slot' = [slot EXCEPT ![s] = Done]
    /\ UNCHANGED <<target, job, alive, deaths, client>>

(* gather is a barrier: the next round starts when every call returned.    *)
NextRound(p) ==
    /\ alive[p]
    /\ \A s \in Slots : ProcOf[s] = p => slot[s].phase = "done"
    /\ slot' = [s \in Slots |-> IF ProcOf[s] = p THEN Ready ELSE slot[s]]
    /\ UNCHANGED <<target, job, alive, deaths, client>>

(***************************************************************************)
(* Working on a claimed job                                                *)
(***************************************************************************)
ExtractSucceeds(s) ==
    /\ slot[s].phase = "extract"
    /\ slot' = [slot EXCEPT ![s] =
                   SlotIn("load", slot[s].job, LoadBudget, "none")]
    /\ UNCHANGED <<target, job, alive, deaths, client>>

ExtractFails(s, error) ==
    /\ slot[s].phase = "extract"
    /\ slot' = [slot EXCEPT ![s] =
                   SlotIn("record", slot[s].job, LoadBudget, error)]
    /\ UNCHANGED <<target, job, alive, deaths, client>>

(* Mutant: mark_job_succeeded does not touch the target row.               *)
LoadSucceedsUnlocked(s) ==
    LET j == slot[s].job IN
    /\ slot[s].phase = "load"
    /\ job[j].status # "gone"
    /\ job' = [job EXCEPT ![j] = Ended(@, "succeeded")]
    /\ slot' = [slot EXCEPT ![s] = Done]
    /\ UNCHANGED <<target, alive, deaths, client>>

(* load_scraped_data_to_database, mark_job_succeeded and commit: one       *)
(* transaction. It looks the job up by id only; it updates the target row. *)
LoadSucceeds(s) ==
    LET j == slot[s].job IN
    /\ slot[s].phase = "load"
    /\ job[j].status # "gone"
    /\ ~TargetLocked(job[j].card)
    /\ job' = [job EXCEPT ![j] = Ended(@, "succeeded")]
    /\ slot' = [slot EXCEPT ![s] = Done]
    /\ UNCHANGED <<target, alive, deaths, client>>

(* The transaction fails (the card is gone, the database refuses it): the  *)
(* catch-all records an internal_error.                                    *)
LoadFails(s) ==
    /\ slot[s].phase = "load"
    /\ slot' = [slot EXCEPT ![s] =
                   SlotIn("record", slot[s].job, slot[s].left, "retryable")]
    /\ UNCHANGED <<target, job, alive, deaths, client>>

(* Mutant: one attempt more than max_attempts.                             *)
EndsJobLate(s) ==
    \/ slot[s].error = "not_found"
    \/ job[slot[s].job].attempts > MaxAttempts

(* Mutant: a 404 is retried like any other failure.                        *)
EndsJobByAttempts(s) == job[slot[s].job].attempts >= MaxAttempts

(* mark_job_failed: terminal or job.attempts >= max_attempts, read from    *)
(* the row as it is now.                                                   *)
EndsJob(s) ==
    \/ slot[s].error = "not_found"
    \/ job[slot[s].job].attempts >= MaxAttempts

(* A retry makes the row active: the unique index refuses it while the     *)
(* target has another active job. A missing row raises too.                *)
RecordBreaks(s) ==
    LET j == slot[s].job IN
    \/ job[j].status = "gone"
    \/ ~EndsJob(s) /\ ActiveJobs(job[j].card) \ {j} # {}

RecordFailure(s, delay) ==
    LET j == slot[s].job
        c == job[slot[s].job].card
        notFound == slot[s].error = "not_found" IN
    /\ slot[s].phase = "record"
    /\ ~RecordBreaks(s)
    /\ notFound => ~TargetLocked(c)
    /\ job' = [job EXCEPT ![j] = IF EndsJob(s) THEN Ended(@, "failed")
                                               ELSE Retried(@, delay)]
    /\ target' = IF notFound THEN [target EXCEPT ![c] = "disabled"] ELSE target
    /\ slot' = [slot EXCEPT ![s] = Done]
    /\ UNCHANGED <<alive, deaths, client>>

(***************************************************************************)
(* Processes                                                               *)
(***************************************************************************)
Die(p) ==
    /\ alive[p]
    /\ alive' = [alive EXCEPT ![p] = FALSE]
    /\ deaths' = deaths + 1
    /\ slot' = [s \in Slots |-> IF ProcOf[s] = p THEN Ready ELSE slot[s]]
    /\ UNCHANGED <<target, job, client>>

(* Nothing in run_forever catches what _record_failure raises.             *)
RecordFailureRaises(s) ==
    /\ slot[s].phase = "record"
    /\ RecordBreaks(s)
    /\ Die(ProcOf[s])

Crash(p) ==
    /\ deaths < MaxDeaths
    /\ Die(p)

(* The container ends with its worker and Docker starts it again.          *)
Restart(p) ==
    /\ ~alive[p]
    /\ alive' = [alive EXCEPT ![p] = TRUE]
    /\ UNCHANGED <<target, job, slot, deaths, client>>

(***************************************************************************)
(* Time. wait_for ends extraction at its deadline: time waits for a slot   *)
(* there. Past extraction no timeout applies; ~LoadsMayStall states the    *)
(* deployment's hope that it takes at most LoadBudget.                     *)
(***************************************************************************)
(* Mutant: the timeout around extraction is gone.                          *)
OnTimeNever(s) ==
    \/ slot[s].left > 0
    \/ slot[s].phase \notin {"load", "record"}

OnTime(s) ==
    \/ slot[s].left > 0
    \/ ~Busy(s)
    \/ LoadsMayStall /\ slot[s].phase # "extract"

Down(n, floor) == IF n > floor THEN n - 1 ELSE n

Aged(row) ==
    Row(row.status, row.card, row.priority, row.attempts,
        Down(row.avail, -MaxAge), Down(row.lease, 0))

Tick ==
    /\ \A s \in Slots : OnTime(s)
    /\ job' = [j \in JobIds |-> IF IsActive(j) THEN Aged(job[j]) ELSE job[j]]
    /\ slot' = [s \in Slots |-> [slot[s] EXCEPT !.left = Down(@, 0)]]
    /\ UNCHANGED <<target, alive, deaths, client>>

(***************************************************************************)
(* The specification                                                       *)
(***************************************************************************)
SlotStep(s) ==
    \/ \E j \in JobIds : Claim(s, j)
    \/ ClaimNothing(s)
    \/ ExtractSucceeds(s)
    \/ \E error \in {"retryable", "not_found"} : ExtractFails(s, error)
    \/ LoadSucceeds(s)
    \/ LoadFails(s)
    \/ \E delay \in RetryDelays : RecordFailure(s, delay)
    \/ RecordFailureRaises(s)

ClientStep(q) ==
    \/ \E c \in Cards, j \in JobIds : EnqueueNew(q, c, j)
    \/ \E c \in Cards, j \in JobIds : EnqueueConflict(q, c, j)
    \/ EnqueueJoin(q)

OperatorStep(c) ==
    \/ \E j \in JobIds, delay \in ScheduleDelays, all \in BOOLEAN :
          ScheduleCard(c, j, delay, all)
    \/ ResetTarget(c)
    \/ DeleteCard(c)

ProcStep(p) == NextRound(p) \/ Crash(p) \/ Restart(p)

Next ==
    \/ \E s \in Slots : SlotStep(s)
    \/ \E q \in Clients : ClientStep(q)
    \/ \E c \in Cards : OperatorStep(c)
    \/ \E p \in Procs : ProcStep(p)
    \/ Tick

Spec == Init /\ [][Next]_vars

(* What runs keeps running: the event loop resumes every slot, Docker      *)
(* restarts a dead worker, the database answers, time passes. PostgreSQL   *)
(* queues the waiters of a row lock, hence strong fairness for the         *)
(* transactions that need the target row. Nothing is assumed of clients    *)
(* that have not started or of operators.                                  *)
Fairness ==
    /\ \A s \in Slots :
          /\ WF_vars(SlotStep(s))
          /\ SF_vars(LoadSucceeds(s) \/ \E d \in RetryDelays : RecordFailure(s, d))
    /\ \A q \in Clients : WF_vars(EnqueueJoin(q))
    /\ \A p \in Procs : WF_vars(NextRound(p)) /\ WF_vars(Restart(p))
    /\ WF_vars(Tick)

FairSpec == Spec /\ Fairness

(***************************************************************************)
(* Properties                                                              *)
(***************************************************************************)
(* Every variable has its type.                                            *)
TypeOK ==
    /\ target \in [Cards -> {"absent", "enabled", "disabled", "deleted"}]
    /\ job \in [JobIds -> Job]
    /\ slot \in [Slots -> Slot]
    /\ alive \in [Procs -> BOOLEAN]
    /\ deaths \in Nat
    /\ client \in [Clients -> Client]

(* A card never has two jobs that a worker could run, whatever the order   *)
(* of searches, schedules, late results and retries.                       *)
UniqueActiveJob ==
    \A j, k \in JobIds :
        IsActive(j) /\ IsActive(k) /\ job[j].card = job[k].card => j = k

(* Between the two statements of a search that collided with an active     *)
(* job, the target stays enabled and the job neither succeeds nor is       *)
(* deleted: at worst it ends as failed, and only then does the search find *)
(* nothing to hand out.                                                    *)
JoinIsSafe ==
    \A q \in Clients : client[q].phase = "joining" =>
        /\ target[client[q].card] = "enabled"
        /\ job[client[q].job].card = client[q].card
        /\ job[client[q].job].status \in Active \cup {"failed"}

(* No two process_once calls work on the same job at the same time.        *)
ExclusiveHolder ==
    \A s, t \in Slots :
        Busy(s) /\ Busy(t) /\ slot[s].job = slot[t].job => s = t

(* After a 404 nothing is scheduled for the card until it is enabled       *)
(* again: a disabled target has no active job.                             *)
DisabledIsQuiet ==
    \A c \in Cards : target[c] = "disabled" => ActiveJobs(c) = {}

(* claim_next_job does not look at max_attempts; still, a job is claimed   *)
(* at most max_attempts times plus once for each process that died.        *)
AttemptsBounded ==
    \A j \in JobIds : job[j].attempts <= MaxAttempts + deaths

(* A job that succeeded or failed stays so until its card is deleted: no   *)
(* late result of another holder changes what a client polled.             *)
TerminalIsFinal ==
    [][\A j \in JobIds : job[j].status \in Terminal =>
          job'[j].status \in {job[j].status, "gone"}]_vars

(* What ExclusiveHolder, DisabledIsQuiet, AttemptsBounded and              *)
(* TerminalIsFinal rest on when loads keep to their budget. A slot's row is*)
(* running (unless its card is gone) and its lease outlasts the time the   *)
(* slot still has; a waiting row has attempts left; a running row nobody   *)
(* works on lost its holder to a death that AttemptsBounded counts.        *)
TimeLeft(s) ==
    slot[s].left + (IF slot[s].phase = "extract" THEN LoadBudget ELSE 0)

HolderIsCurrent ==
    \A s \in Slots :
        Busy(s) /\ job[slot[s].job].status # "gone" =>
            /\ job[slot[s].job].status = "running"
            /\ job[slot[s].job].lease > TimeLeft(s)

AttemptsLeft ==
    \A j \in JobIds :
        /\ job[j].status \in {"pending", "retry_wait"} =>
              job[j].attempts < MaxAttempts
        /\ job[j].status = "running" /\ Holders(j) = {} =>
              job[j].attempts < MaxAttempts + deaths

(* Whatever crashes, expires or fails, an active job ends: it succeeds, it *)
(* fails for good, or its card is deleted.                                 *)
ActiveSettles == \A j \in JobIds : IsActive(j) ~> ~IsActive(j)

(* The queue of WorkQueue, seen through the rows and the slots: a running  *)
(* row is held while some slot works on it, and waits once none does.      *)
QueueState ==
    [j \in JobIds |->
        CASE job[j].status = "none" -> "unborn"
          [] job[j].status = "gone" -> "removed"
          [] job[j].status \in Terminal -> "ended"
          [] OTHER -> IF Holders(j) = {} THEN "waiting" ELSE "held"]

QueueHolder ==
    [j \in JobIds |->
        IF QueueState[j] = "held"
        THEN CHOOSE s \in Slots : s \in Holders(j)
        ELSE NoSlot]

Queue == INSTANCE WorkQueue
           WITH Jobs <- JobIds, Workers <- Slots, Nobody <- NoSlot,
                state <- QueueState, holder <- QueueHolder

(* The queue implements WorkQueue.                                         *)
IsWorkQueue == Queue!Spec
=============================================================================
