---------------------------- MODULE SearchOutbox ----------------------------
(***************************************************************************)
(* The transactional outbox that keeps the Meilisearch index of cards in   *)
(* step with PostgreSQL.                                                   *)
(*                                                                         *)
(*   card_cases.py            a write and its event commit together        *)
(*   search_index_events.py   claims, leases, retries of events            *)
(*   search_index/worker.py   process_once: wait for known tasks, read the *)
(*                            cards, replace or delete documents           *)
(*                                                                         *)
(* Meilisearch is external: it runs the tasks of an index one after the    *)
(* other in the order it accepted them. Backoff and lease durations are    *)
(* abstracted: a waiting event may be claimed at any time, a lease may run *)
(* out at any time.                                                        *)
(***************************************************************************)
EXTENDS Integers, FiniteSets, Sequences

CONSTANTS
    Workers,       \* processes that run the worker: the service's, a manual one
    Cards,         \* cards the API writes
    EventIds,      \* ids of outbox events: bounds the writes
    NoTask,        \* remote_task_uid IS NULL
    BatchLimit,    \* settings.outbox_batch_size
    MaxTasks,      \* bound on tasks Meilisearch accepts
    MaxFaults      \* bound on crashes, lost responses, failed or forgotten
                   \* tasks, and leases that end under a worker

ASSUME OutboxAssumption ==
    /\ BatchLimit \in Nat \ {0}
    /\ MaxTasks \in Nat
    /\ MaxFaults \in Nat
    /\ NoTask \notin Nat

VARIABLES
    db,       \* version of each card in PostgreSQL, NoDoc when absent
    event,    \* rows of search_index_events
    worker,   \* what each search-index worker is doing
    tasks,    \* the tasks Meilisearch accepted; a uid is a position
    index,    \* version of each card's document in the index
    faults    \* faults so far

vars == <<db, event, worker, tasks, index, faults>>

NoDoc == 0
Versions == 1 .. Cardinality(EventIds)

Unsettled == {"pending", "running", "retry_wait"}
Event == [status : Unsettled \cup {"none", "succeeded"},
          card   : Cards,
          task   : (1 .. MaxTasks) \cup {NoTask},
          leased : BOOLEAN]

(* Events that await the same task: the cards that exist are replaced with *)
(* one call, the cards that do not are deleted with another.               *)
Group == [events : SUBSET EventIds,
          docs   : UNION {[S -> Versions \cup {NoDoc}] : S \in SUBSET Cards}]

(* known: the uids that events were claimed with.                          *)
Idle == [phase |-> "idle", known |-> <<>>, fresh |-> {}, groups |-> <<>>,
         task |-> NoTask]

EventsOf(c) == {e \in EventIds : event[e].status # "none" /\ event[e].card = c}

Init ==
    /\ db = [c \in Cards |-> NoDoc]
    /\ event \in [EventIds -> {[status |-> "none", card |-> c, task |-> NoTask,
                                leased |-> FALSE] : c \in Cards}]
    /\ worker = [w \in Workers |-> Idle]
    /\ tasks = <<>>
    /\ index = [c \in Cards |-> NoDoc]
    /\ faults = 0

Fault == faults < MaxFaults /\ faults' = faults + 1

(***************************************************************************)
(* Writers: create, update and remove commit the card with a new event. A  *)
(* removed card's id is not used again.                                    *)
(***************************************************************************)
EnqueueCard(c, e) == event' = [event EXCEPT ![e].status = "pending"]

Unused(c, e) == event[e].status = "none" /\ event[e].card = c

Create(c, e) ==
    /\ Unused(c, e)
    /\ EventsOf(c) = {}
    /\ db[c] = NoDoc
    /\ EnqueueCard(c, e)
    /\ db' = [db EXCEPT ![c] = 1]
    /\ UNCHANGED <<worker, tasks, index, faults>>

Update(c, e) ==
    /\ Unused(c, e)
    /\ db[c] # NoDoc
    /\ EnqueueCard(c, e)
    /\ db' = [db EXCEPT ![c] = @ + 1]
    /\ UNCHANGED <<worker, tasks, index, faults>>

Remove(c, e) ==
    /\ Unused(c, e)
    /\ db[c] # NoDoc
    /\ EnqueueCard(c, e)
    /\ db' = [db EXCEPT ![c] = NoDoc]
    /\ UNCHANGED <<worker, tasks, index, faults>>

(***************************************************************************)
(* The workers                                                             *)
(***************************************************************************)
Goes(w, to) == worker' = [worker EXCEPT ![w] = to]

Eligible == {e \in EventIds : \/ event[e].status \in {"pending", "retry_wait"}
                              \/ event[e].status = "running" /\ ~event[e].leased}

(* claim_events: up to BatchLimit of the events whose time has come.       *)
ClaimEvents(w) ==
    /\ worker[w].phase = "idle"
    /\ \E batch \in SUBSET Eligible :
        /\ Cardinality(batch) \in 1 .. BatchLimit
        /\ event' = [e \in EventIds |->
                       IF e \in batch
                       THEN [event[e] EXCEPT !.status = "running", !.leased = TRUE]
                       ELSE event[e]]
        /\ LET fresh == {e \in batch : event[e].task = NoTask} IN
           Goes(w, [Idle EXCEPT !.phase = "known", !.fresh = fresh,
                                !.known = [e \in batch \ fresh |-> event[e].task]])
    /\ UNCHANGED <<db, tasks, index, faults>>

(* The marks look at nothing: another worker may have claimed the event,   *)
(* or marked it, since.                                                    *)
Succeeded(events) ==
    event' = [e \in EventIds |->
                IF e \in events
                THEN [event[e] EXCEPT !.status = "succeeded", !.leased = FALSE]
                ELSE event[e]]

(* mark_retry; the uid is kept unless the task failed or was canceled.     *)
Retry(events, clear) ==
    event' = [e \in EventIds |->
                IF e \in events
                THEN [event[e] EXCEPT !.status = "retry_wait", !.leased = FALSE,
                                      !.task = IF clear THEN NoTask ELSE @]
                ELSE event[e]]

(* What asking for a task tells: "enqueued" is a wait that timed out,      *)
(* "not_found" is the answer for a task the server has forgotten.          *)
Answer(uid) == IF tasks[uid].known THEN tasks[uid].status ELSE "not_found"

(* Mutant: a failed task counts as done.                                   *)
WaitAndMarkAny(uid, events) ==
    /\ UNCHANGED faults
    /\ IF Answer(uid) \in {"succeeded", "failed"}
       THEN Succeeded(events)
       ELSE Retry(events, FALSE)

(* Mutant: the uid of a failed task is kept, and waited for again.         *)
WaitAndMarkKeeping(uid, events) ==
    /\ UNCHANGED faults
    /\ IF Answer(uid) = "succeeded"
       THEN Succeeded(events)
       ELSE Retry(events, FALSE)

(* wait_for_task and the mark that follows: the task ended, or the wait    *)
(* timed out on a task still queued, or the server no longer knows it, or  *)
(* it could not be asked.                                                  *)
WaitAndMark(uid, events) ==
    \/ /\ IF Answer(uid) = "succeeded"
          THEN Succeeded(events)
          ELSE Retry(events, Answer(uid) = "failed")
       /\ UNCHANGED faults
    \/ Retry(events, FALSE) /\ Fault

(* The uid is the one it was claimed with, whatever its row says by now.   *)
WaitKnown(w, e) ==
    /\ worker[w].phase = "known"
    /\ e \in DOMAIN worker[w].known
    /\ WaitAndMark(worker[w].known[e], {e})
    /\ worker' = [worker EXCEPT ![w].known = [f \in DOMAIN @ \ {e} |-> @[f]]]
    /\ UNCHANGED <<db, tasks, index>>

(* get_many_by_ids, after every known task was waited for: one document    *)
(* per card however many events it has, split by existence.                *)
Docs(cards) == [c \in cards |-> db[c]]

ReadCards(w) ==
    LET cards == {event[e].card : e \in worker[w].fresh}
        of(S) == [events |-> {e \in worker[w].fresh : event[e].card \in S},
                  docs |-> Docs(S)]
        existing == {c \in cards : db[c] # NoDoc}
        groups == IF existing \in {{}, cards} THEN <<of(cards)>>
                  ELSE <<of(existing), of(cards \ existing)>>
    IN
    /\ worker[w].phase = "known"
    /\ DOMAIN worker[w].known = {}
    /\ Goes(w, IF worker[w].fresh = {} THEN Idle
               ELSE [Idle EXCEPT !.phase = "submit", !.groups = groups])
    /\ UNCHANGED <<db, event, tasks, index, faults>>

(* Done with a group: the next one, or the end of process_once.            *)
NextGroup(w) ==
    Goes(w, IF Len(worker[w].groups) = 1 THEN Idle
            ELSE [worker[w] EXCEPT !.phase = "submit", !.task = NoTask,
                                   !.groups = Tail(@)])

Accepted(docs) == Append(tasks, [docs |-> docs, status |-> "enqueued",
                                  known |-> TRUE])

(* replace or delete: accepted; refused or unreachable; or accepted with   *)
(* the response lost, which the client does not retry.                     *)
Submit(w) ==
    LET group == Head(worker[w].groups) IN
    /\ worker[w].phase = "submit"
    /\ UNCHANGED <<db, index>>
    /\ \/ /\ Len(tasks) < MaxTasks
          /\ tasks' = Accepted(group.docs)
          /\ Goes(w, [worker[w] EXCEPT !.phase = "save", !.task = Len(tasks')])
          /\ UNCHANGED <<event, faults>>
       \/ /\ Fault
          /\ \/ UNCHANGED tasks
             \/ Len(tasks) < MaxTasks /\ tasks' = Accepted(group.docs)
          /\ Retry(group.events, FALSE)
          /\ NextGroup(w)

SaveTaskUid(w) ==
    /\ worker[w].phase = "save"
    /\ event' = [e \in EventIds |->
                   IF e \in Head(worker[w].groups).events
                   THEN [event[e] EXCEPT !.task = worker[w].task]
                   ELSE event[e]]
    /\ Goes(w, [worker[w] EXCEPT !.phase = "wait"])
    /\ UNCHANGED <<db, tasks, index, faults>>

WaitSubmitted(w) ==
    /\ worker[w].phase = "wait"
    /\ WaitAndMark(worker[w].task, Head(worker[w].groups).events)
    /\ NextGroup(w)
    /\ UNCHANGED <<db, tasks, index>>

(* An exception run_forever swallows, or the end of the process: the       *)
(* claimed events stay running until their lease ends.                     *)
Abort(w) ==
    /\ worker[w].phase # "idle"
    /\ Fault
    /\ Goes(w, Idle)
    /\ UNCHANGED <<db, event, tasks, index>>

Works(w, e) ==
    \/ e \in DOMAIN worker[w].known \cup worker[w].fresh
    \/ \E i \in DOMAIN worker[w].groups : e \in worker[w].groups[i].events

(* lease_expires_at passes, while a worker is at the event or not.         *)
LeaseEnds(e) ==
    /\ event[e].leased
    /\ event' = [event EXCEPT ![e].leased = FALSE]
    /\ IF \E w \in Workers : Works(w, e) THEN Fault ELSE UNCHANGED faults
    /\ UNCHANGED <<db, worker, tasks, index>>

(***************************************************************************)
(* Meilisearch                                                             *)
(***************************************************************************)
RunTask(uid) ==
    /\ tasks[uid].status = "enqueued"
    /\ \A u \in 1 .. uid - 1 : tasks[u].status # "enqueued"
    /\ UNCHANGED <<db, event, worker>>
    /\ \/ /\ tasks' = [tasks EXCEPT ![uid].status = "succeeded"]
          /\ index' = [c \in Cards |-> IF c \in DOMAIN tasks[uid].docs
                                       THEN tasks[uid].docs[c] ELSE index[c]]
          /\ UNCHANGED faults
       \/ /\ Fault
          /\ tasks' = [tasks EXCEPT ![uid].status = "failed"]
          /\ UNCHANGED index

(* Finished tasks are deleted or pruned by the server's operator.          *)
PruneTask(uid) ==
    /\ Fault
    /\ tasks[uid].known
    /\ tasks[uid].status \in {"succeeded", "failed"}
    /\ tasks' = [tasks EXCEPT ![uid].known = FALSE]
    /\ UNCHANGED <<db, event, worker, index>>

(***************************************************************************)
(* The specification                                                       *)
(***************************************************************************)
Write(c, e) == Create(c, e) \/ Update(c, e) \/ Remove(c, e)

WorkerStep(w) ==
    \/ ClaimEvents(w)
    \/ \E e \in EventIds : WaitKnown(w, e)
    \/ ReadCards(w)
    \/ Submit(w)
    \/ SaveTaskUid(w)
    \/ WaitSubmitted(w)

Next ==
    \/ \E c \in Cards, e \in EventIds : Write(c, e)
    \/ \E w \in Workers : WorkerStep(w) \/ Abort(w)
    \/ \E e \in EventIds : LeaseEnds(e)
    \/ \E uid \in 1 .. Len(tasks) : RunTask(uid) \/ PruneTask(uid)

Spec == Init /\ [][Next]_vars

(* A worker's loop runs on (restarted when it dies), claims what waits,    *)
(* leases end, and Meilisearch works through its queue. Which eligible     *)
(* events a claim takes is the order by available_at: none waits for ever. *)
Claims(e) == \E w \in Workers : ClaimEvents(w) /\ event'[e].leased /\ ~event[e].leased

Fairness ==
    /\ \A w \in Workers : WF_vars(WorkerStep(w))
    /\ \A e \in EventIds : WF_vars(LeaseEnds(e)) /\ SF_vars(Claims(e))
    /\ \A uid \in 1 .. MaxTasks : WF_vars(uid <= Len(tasks) /\ RunTask(uid))

FairSpec == Spec /\ Fairness

(***************************************************************************)
(* Properties                                                              *)
(***************************************************************************)
(* Every variable has its type.                                            *)
TypeOK ==
    /\ db \in [Cards -> Versions \cup {NoDoc}]
    /\ event \in [EventIds -> Event]
    /\ \A w \in Workers :
          /\ worker[w].phase \in {"idle", "known", "submit", "save", "wait"}
          /\ worker[w].known \in UNION {[S -> 1 .. MaxTasks] : S \in SUBSET EventIds}
          /\ worker[w].fresh \subseteq EventIds
          /\ worker[w].groups \in Seq(Group)
          /\ worker[w].task \in (1 .. MaxTasks) \cup {NoTask}
    /\ \A uid \in 1 .. Len(tasks) :
          tasks[uid].status \in {"enqueued", "succeeded", "failed"}
    /\ index \in [Cards -> Versions \cup {NoDoc}]
    /\ faults \in 0 .. MaxFaults

(* Document x says more of its card than y does.                           *)
Newer(x, y) == y # NoDoc /\ (x = NoDoc \/ x > y)

(* Meilisearch was sent an older document of c after a newer one: only a   *)
(* second worker, with an event of its own or one whose lease had ended,   *)
(* can have read the card later and been the first to submit it.           *)
Overtaken(c) ==
    \E u, v \in DOMAIN tasks :
        /\ u < v
        /\ c \in DOMAIN tasks[u].docs \cap DOMAIN tasks[v].docs
        /\ tasks[u].status # "failed"
        /\ Newer(tasks[u].docs[c], tasks[v].docs[c])
        /\ \A t \in v + 1 .. Len(tasks) :
              c \in DOMAIN tasks[t].docs => tasks[t].status # "succeeded"

(* A card whose document is not its row always has an event that is not    *)
(* marked succeeded: no crash, retry, lost response, failed task or second *)
(* worker on the same event leaves the index wrong with nothing on the way *)
(* to put it right, but for documents submitted out of order.              *)
StaleHasEvent ==
    \A c \in Cards : index[c] # db[c] /\ ~Overtaken(c) =>
        \E e \in EventsOf(c) : event[e].status \in Unsettled

(* An event waits for a task that the server has forgotten.                *)
Forgotten(e) ==
    /\ event[e].status \in Unsettled
    /\ event[e].task # NoTask
    /\ ~tasks[event[e].task].known

(* Once writes stop, every event of a card is marked succeeded and its     *)
(* document is its row, unless documents were submitted out of order; a    *)
(* card has neither only while the server has forgotten a task that one of *)
(* its events waits for.                                                   *)
Converges ==
    <>[](\A c \in Cards :
           \/ /\ \A e \in EventsOf(c) : event[e].status = "succeeded"
              /\ index[c] = db[c] \/ Overtaken(c)
           \/ \E e \in EventsOf(c) : Forgotten(e))
=============================================================================
