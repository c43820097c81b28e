# Free Win Search: a TLA+ development

Free Win Search keeps a catalogue of Yu-Gi-Oh! cards and what a store offers of
each. An API answers from PostgreSQL and a cache; a scraper process crawls the
store for cards whose listings are due; another process keeps a MeiliSearch
index of the cards. This directory models what those processes do to the state
they share, checks it with TLC and proves part of it with TLAPS.

Paths below are relative to the repository. A `tlc -config X.cfg M` runs a
check, `tlapm M.tla` checks the proofs of a module; `PROJECT.json` lists the
runs, what source lines every definition stands for, and for each property a
plausible bug that breaks it.

## 1. The system

    clients ──> API ──> cache (memory or Valkey)
                 │ └──> MeiliSearch (search, falls back to PostgreSQL)
                 ▼
            PostgreSQL <── schedule commands (backfill-missing, refresh-all)
             │      │ <── reset-target
     scrape_jobs   search_index_events
             ▼      ▼
      scraper worker   search-index worker, reindex ──> MeiliSearch
             └──> store (CoolStuffInc), cache invalidation

All are processes of one container under a supervisor (`service_supervisor.py`)
or commands an operator runs. They interact through rows of PostgreSQL, cache
entries, tasks on the MeiliSearch server, a checkpoint file and signals; nothing
else is shared between processes.

| Component | State | Operations | Hard because |
|---|---|---|---|
| Scrape queue (`scrape_jobs.py`, `model.py`) | targets, jobs with status, attempts, lease, priority, `available_at` | enqueue (two statements), claim with `SKIP LOCKED`, mark succeeded, mark failed, reset target, cascade of a card's deletion | leases expire under living holders; marks find a job by id only; an insert that conflicts reads again later |
| Scraper worker (`scraper/worker.py`) | calls in flight, per process; a process pool | `process_once`: claim, extract under a timeout, load and mark, or record the failure; `run_forever`: rounds of concurrent calls | only extraction has a timeout; a failed record ends the process; crashes |
| Crawl (`worker.py`, `search_results.py`, `scraper.py`) | pages seen, products found; the time of the latest request and a lock, shared by the calls of a process | search pages, product pages, spacing of requests | partial failures; what "nothing" means on a page; cancellation in the line for the lock or asleep in it |
| Load (`loader.py`) | listings, keyed by product, code and condition, not by card | upsert, zeroing, deactivation, in one transaction with the job's mark | two cards list one product: rows change owners, snapshots go stale, locks cross; the card may be removed meanwhile |
| Page transformation (`transformers.py`) | none | parse rows, deduplicate, decide empty or rejected | three ways to find a listing, four verdicts |
| Schedule commands (`scraper/backfill.py`) | checkpoint file, file lock | walk the catalogue in batches, enqueue, write the checkpoint | crash between commit and checkpoint; resumption, also of checkpoints an earlier version wrote; another command beside it; cards that come and go |
| Listing search and its cache (`card_listing_cases.py`, `cache/*`) | cached answers with a TTL | read-through, enqueue when due, invalidation after a load | reads at different times, invalidation that scans first and deletes later |
| Card catalogue cases (`card_cases.py`, `db/dao.py`) | card rows, two kinds of cache entries | create, update, remove, get, list | commit and cache store are separate, sessions keep old copies |
| Outbox (`search_index_events.py`, `search_index/worker.py`) | events with status, lease, task uid | claim, wait for tasks, replace or delete documents, retry | crash between submit and save, lost responses, failed and forgotten tasks, two workers |
| Reindex (`search_index/reindex.py`) | a cursor | pages of rows, replaced | beside the outbox worker |
| MeiliSearch client (`meilisearch/client.py`) | a semaphore, `closed` | every request, retries, `wait_for_task`, `aclose` | permits across retries, a deadline in a queue, closing under calls |
| Supervisor (`service_supervisor.py`) | children, a shutdown flag | start, watch, stop with a grace period | signals at any time, zombies and pid reuse |
| Routers, settings, migrations, sessions, card import, entities | none of their own | | see section 8 |

What makes each correct is the list of properties in section 3. The hazards,
each at its line with the property that would show it, are in `PROJECT.json`.

## 2. The plan

Order, most important first; all of them exist.

1. `ScrapeQueue`: the queue with its workers and clients, the core of the system;
   `WorkQueue`, what it promises, and the refinement.
2. `SearchOutbox`: the outbox, its worker and the server.
3. `Backfill`: the schedule commands.
4. `SearchReindex`, which extends `SearchOutbox` with the reindex command.
5. `Supervisor`: the container's services and their end.
6. `ListingCache`: the listing search against loads and invalidation.
7. `ListingPage`, the page transformation as operators, `SearchCrawl`, which
   extends it with the crawl and the load, and `PageReadings`, which states what
   the transformation owes every page that a crawl may get.
8. `SearchClient`: the MeiliSearch client.
9. `CardCatalog`: the card cases and their entries.
10. `HostPacing`, how the calls of one process space their requests, and
    `SharedListings`, the loads of several cards and a removal as transactions
    of statements on rows they share.
11. `ScraperRound`, which composes the two: what the calls of a process do from
    claim to mark, round after round.
12. Proofs, one module for each of `ScrapeQueue`, `SearchOutbox` (with
    `SearchReindex`), `Backfill`, `Supervisor`, `ListingCache`, `SearchClient`,
    `CardCatalog` and `ScraperRound` (with `HostPacing`, `SharedListings` and
    `SearchCrawl`), named after it with `_proofs`.

Composing `Backfill` with `ScrapeQueue` was considered and left: the queue takes
scheduled jobs at any moment, the schedule takes jobs that end and cards another
command takes at any moment, and both are more than the composition would do.

## 3. Modules, and what the runs show

Every MC module only adds model values, functions over them and symmetry. One
run per module asks for all that should hold of it at once, under its fairness
where liveness is among it; two more runs are refuted by the code (section 5).

| Run | Module | Properties |
|---|---|---|
| `queue` | `MCScrapeQueue` | `TypeOK`, `UniqueActiveJob`, `JoinIsSafe`, `ExclusiveHolder`, `DisabledIsQuiet`, `AttemptsBounded`, `TerminalIsFinal`, `IsWorkQueue`, `ActiveSettles` |
| `queue_two_holders` | `MCScrapeQueue` | `ExclusiveHolder`, refuted |
| `outbox` | `MCSearchOutbox` | `StaleHasEvent`, `Converges` |
| `reindex_covers` | `MCSearchReindex` | `ReindexCovers` |
| `backfill` | `MCBackfill` | `NothingPassedOver`, `BatchesSpaced`, `RunEnds` |
| `supervisor` | `MCSupervisor` | `NoneLeft`, `SignalsOwn`, `SuccessWasAsked`, `EndsContainer` |
| `cache_bounded` | `MCListingCache` | `StaleBounded`, `StaleOnlyByCrossing`, `RefreshDelayed` |
| `crawl_loads` | `MCSearchCrawl` | `NothingOnlyIfSaid`, `WholeCrawl`, `SoldOutIsZeroed`, `DeactivatedOnlyIfTold` |
| `crawl_empty` | `MCSearchCrawl` | `OffersStayActive`, refuted |
| `scraper_round` | `MCScraperRound` | `WaitBounded`, `Spaced`, `LoadIsWhole`, `SoldOutAmongOthers`, `OthersRowsKept`, `RoundsEnd` |
| `client` | `MCSearchClient` | `ConcurrencyBounded`, `WritesOnce`, `WaitKeepsDeadline`, `ClosedIsSaid`, `CallsEnd` |
| `catalog_cache` | `MCCardCatalog` | `FieldsRecent`, `ShownOnlyByCrossing`, `FieldsForward` |

### ScrapeQueue, WorkQueue

Variables: `target` (absent, enabled, disabled, deleted), `job` (the rows), `slot`
(a `process_once` call: phase, job, time left), `alive` and `deaths` of processes,
`client` (API requests between the statements of `enqueue_for_card`). An action is
a transaction: `EnqueueNew`, or `EnqueueConflict` and `EnqueueJoin`, for a search; `ScheduleCard`
for one card of a batch; `Claim` (by priority, then `available_at`),
`LoadSucceeds`, `RecordFailure`, `ResetTarget`, `DeleteCard`; rounds, `Die` and
`Restart`. `Tick` lets time pass for every countdown at once; a call that must
have ended blocks it, which is how a timeout is kept.

With loads inside a budget (`LoadsMayStall` FALSE) `queue` shows one active job
per card, exclusive holders, nothing scheduled after a 404, at most `max_attempts`
claims plus one for each death, final statuses that stay, and an end for every
active job through crashes and expiries. `IsWorkQueue` is the refinement: a
running row is *held* while a slot works on it and *waits* once none does, and
then the rows behave as the abstract queue of `WorkQueue` does. `JoinIsSafe` is
about the two statements of a search that collides with an active job.

Bounds: one card and two jobs, as a card has several jobs only one after the
other. With two cards, and less of everything else, the run took more than five
minutes; so TLC does not see a claim choose between jobs, which no property is
about, while the theorems are for any number of cards. Two processes with one
slot each, one client, a lease of 3 with timeout and budget of 1, two attempts, one death. Two slots
are enough for a stale holder and its successor, two jobs for a row that is
revived beside a newer one.

### SearchOutbox, SearchReindex

`db` and `index` hold the version of each card's row and document; `event` and
`tasks` are the rows and the server's queue, `worker` the point that each process
has reached in `process_once`, with what it read: the rows it claimed, the uids
they had then, the cards it loaded. `Submit` may be accepted, refused, or accepted
with the response lost; `Abort` is a crash anywhere; leases end at any time, under
a worker only as a fault. The server runs the tasks of an index in order and may
forget those that ended.

`outbox` (two workers, two cards, two events, five tasks, one fault) shows that a
document that is not its row always has an event still to be worked on, and that
index and rows come to agree, with every event succeeded, once writes and faults
end. Two things the code does are named in the properties. With two workers on
one card an older document may be submitted after a newer one, which nothing
orders (`Overtaken`). And an event whose task was forgotten is retried for ever
(`Forgotten`): `Converges` allows for it card by card, so the other cards must
settle all the same. A fault is a lost response, a refused submission, a failed
task, a crash, a lease that ends under its worker or a forgotten task: one lets
each of them meet a second worker; two are too many states for one run.
`reindex_covers` has the reindex beside the worker: when it returns, each row not
written under it is indexed or has an event. Rows older than the outbox, and an
earlier walk that ended early, are included.

### Backfill

The catalogue walk (`FindCards`, `Enqueue`, `SaveCheckpoint` as separate steps),
`Crash` between any two, exceptions that write the checkpoint on the way out, and
cards that gain listings, lose jobs or are disabled meanwhile. `backfill` shows
that the cursor passes no card that its query could not leave out and no batch
took, that batches are at least the minimum interval apart, also across resumed
runs, but for the one after a batch that a death separated from its checkpoint, which
may share that one's time and never precedes it, and that a run that is resumed
whenever it stops completes. `latest` remembers the latest batch of jobs and whether a
checkpoint was written since; no step depends on it. A checkpoint may be one that version 2 of the program wrote, which says
when the last jobs start and not when the next may (`FromDict`); another command,
whose lock is on another file, may take cards between the query and the batch.
Three cards in batches of two give a full batch, a part of one and an empty one;
two walks, an exception and a death let a failure meet a resumption and a restart.

### Supervisor

Children are running, zombies, or collected (then the pid may be somebody
else's). `poll`, `killpg`, `wait` and the loop over services are one step each,
signals and ends of services come between any two. `supervisor`: nobody outlives
`run`, `stop` signals only what it started and has not collected, a zero status
means that a stop was asked for, and a dead service or a request ends the
container. Three services, a grace of two polls, three exit codes.

### ListingCache

One card, two searches in flight, the worker's load with its commit, scan and
delete as three steps, and the card's removal, after which the search finds its
listings by name alone. `superseded` records when each version stopped being
current. `cache_bounded`: a search never answers from listings replaced longer ago
than a TTL and a request; an old answer survives an invalidation only if a
request crossed it; a cached answer delays a refresh by no more than that. Time
runs to 6 with a TTL of 2, long enough for two loads and an expiry.

### ListingPage, PageReadings, SearchCrawl

`Transform` is `transform_card_page` on rows that are what their text can be read
as. `PageReadings` has every page of up to two rows and one listing elsewhere, and
states what the transformation owes each of them. `SearchCrawl` asks the store for the
card, its search pages and each product, any of which may answer anything, and
loads the result; another card's load may come between. `crawl_loads`: a page is
taken to be empty only if it says so; nothing is loaded from part of a search, whose
last page was reached and whose products were all read; codes shown sold out end with
no stock, with the exceptions that section 5 names; and rows are deactivated only when
the store said that it has nothing. `shown` is what the store has shown to whoever
reads all of it, the rows that the code drops included; no step depends on it. Two products of one title, two codes, two search
pages; the crawl's own pages are those of `MCSearchCrawl!SomePages`, one or two for
each verdict.

### HostPacing, SharedListings, ScraperRound

`HostPacing` is the lock around `_last_request_at`: a `line` (asyncio's FIFO), the
time `since` the latest request, and for each call whether it is in the line,
asleep at its head or sending. `Leave` is the job's timeout cancelling it anywhere.
`SharedListings` has one action per statement of a load, or rather per row it
writes: PostgreSQL at READ COMMITTED gives each statement a snapshot, makes a
writer wait for the lock of a row, judges the row again when it gets it, and
breaks a cycle of waiters (`Sees`, `Holds`, `WaitsFor`, `Deadlocked`). The key
share lock on the card's row and the removal that waits for it, or is waited for,
are there too. `ScraperRound` runs a process with both: claim, requests, load and
mark, or `_record_failure`, whose error when the job went with its card ends the
process, which is restarted.

`scraper_round` (two calls, two cards that list the same two products in opposite
orders, one of them removable, an interval of 2) shows: requests start an interval
apart however jobs are cancelled; no request waits more than a turn of every call;
a load that commits is whole, zeroes what it was told is sold out, also in a row
that somebody else had locked, and touches no row of another card that it does
not list; and every round ends, through deadlocks, foreign key errors and
vanished jobs. The orders are opposite so that locks cross, and both listings
have one code so that zeroing one reaches the other.

### SearchClient

A call is queued, sending, asleep before a retry, or pausing inside
`wait_for_task`; the semaphore is asyncio's FIFO queue. `Apply` is the server
doing what it was asked, whatever the client gets to see, and `Close` may come at
any moment. `client`: at most `max_concurrency` requests, a write applied once at
most per call, deadlines kept in the queue, httpx's own error only for calls that
`aclose` overtook in the queue or between retries, and every call ends.
Two callers and one permit, so that one always waits; two retries, so that a
retry can fail again; a wait of two polls.

### CardCatalog

One card, two requests in flight, each with a session that keeps what it read.
A write commits in one step, the cache stores and deletes come later, one at a
time, and a request may be cut short between them. `catalog_cache`: each field that
the cache shows was the row's no longer ago than a TTL and a request; updates of
different fields both last; once a removal is over the card is cached only
through a request that crossed it. Two fields and two updates are the least that
can cross.

## 4. Time, fairness and what they assume

Clocks are small integers. Queue rows hold countdowns so that the state space is
finite without a bound on time; the other modules bound `now` by `MaxTime`: above
TTL plus request time for the caches, and one interval for the schedule, whose
`next` runs ahead of the clock by the batches of a walk. Every other bound
is a CONSTANT with a comment (`MaxClaims`, `MaxDeaths`, `MaxFaults`, `MaxRuns`...).
The runs with such bounds say `CHECK_DEADLOCK FALSE`, because the models stop
there; the queue and the client never stop and are checked for deadlock.

Fairness is stated beside each `FairSpec`:

- Queue: the event loop resumes every call, Docker restarts a dead worker, time
  passes (weak). Transactions that need the target's row get strong fairness:
  PostgreSQL queues the waiters of a row lock, so a stream of searches does not
  keep a worker from its mark. No client has to start.
- Outbox: the worker's loop goes on, leases end, the server works through its
  queue; claims are by `available_at`, so an eligible event is not passed over
  for ever (strong). Every worker goes on. Faults are bounded, not fair.
- Backfill: the process takes its steps, and an operator resumes a run that
  stopped; the code does not do that by itself.
- Supervisor: its loop goes on, a killed child dies. Services need not react to
  SIGTERM, and no signal has to arrive.
- Scraper round: a call whose next step is possible again and again takes it in the
  end (strong): PostgreSQL queues waiters and breaks cycles, the store answers or
  the job times out. A removal under way goes on (weak); none has to begin, and
  one that was aborted may begin again, which is why weak fairness of a load
  would not do.
- Client: httpx ends every attempt and the event loop wakes sleepers.

## 5. Where the code and the repository's words differ

Each of the first two is a run that TLC violates; `PROJECT.json` quotes the words.

- `queue_two_holders`: a load or a failure record that outlives the lease leaves
  two workers on one job, although the README says PostgreSQL prevents it.
- `crawl_empty`: a page can be confirmed empty and give listings; the load then
  deactivates what it inserted.

The following was met while modelling. No run is kept for it, but the modules
have the behaviour, and the properties that hold are stated around it.

- A search that finds its card scheduled is given the scheduled job with its
  priority and its time (`scrape_jobs.py:79`), although the README says that an
  interactive search goes first: other scheduled jobs may go before it.
- The conflict key of a listing has no card in it (`loader.py:122`), so a load takes
  rows from another card that lists the same product; `LoadIsWhole` and
  `OthersRowsKept` say what remains true of both.
- Removing a card leaves its listings active without a card (`model.py:77`); a search
  by name shows them for good.
- Removing a card under its load makes `_record_failure` raise, which ends the
  process and every call beside it (`worker.py:412`); `RoundsEnd` holds because it
  is restarted.
- A second outbox worker can submit an older document last
  (`search_index_events.py:38`). Hence `Overtaken`.
- With stalled loads, the late failure of a first holder can reopen a job that a
  second holder ended with a 404 (`scrape_jobs.py:201`), and its late success ends a
  job that another slot holds or that has failed (`scrape_jobs.py:155-179`). Hence the assumption of
  the theorems `NotFoundIsQuiet` and `Final`.
- After a death between the commit of a batch and its checkpoint the next batch
  may get the `available_at` of that one (`backfill.py:588`). Hence `latest.saved` in
  `BatchesSpaced`: that batch loses its distance, the ones after it do not.
- When the search calls a product sold out and no row of its page can be read, the
  job goes on with the code of the search row alone: codes that the page itself calls
  sold out are dropped (`worker.py:311-332`), although `transform_card_page` had
  collected them before it raised. Say a load stored c2 with stock 1, then the search
  shows a product sold out without a code, and its page has a row for c1 that cannot be
  read and one for c2 that says "out of stock": the load leaves c2 with stock 1. And a
  search row is forgotten when a later page shows its product again (`worker.py:262`),
  its sold-out code with it. `SoldOutIsZeroed` excepts the codes that only such rows
  called sold out (`Disregarded`); no words of the repository claim them.
- A cached answer for an overdue card queues no refresh
  (`card_listing_cases.py:123`); `RefreshDelayed` says for how long.
- Overlapping updates leave a card in the cache that lacks a field of the other,
  and a request that crosses a removal caches the removed card
  (`card_cases.py:193`, `215`); `FieldsRecent` and `ShownOnlyByCrossing` bound both.
- A call overtaken by `aclose` fails with httpx's `RuntimeError` and not with a
  `MeilisearchError` (`meilisearch/client.py:357`); `ClosedIsSaid` says which may.
- An event whose task the server has forgotten keeps its uid and is retried for
  ever (`search_index/worker.py:64`). Hence `Forgotten`.

## 6. What is proved

Every safety property of the passing runs, for every value of the constants: any
number of cards, jobs, processes, callers, fields, rows, products, pages and
services, any timeouts, intervals and retry schedules, and any of the bounds that
the runs need. Some have a hypothesis beside the types of the constants: prompt
loads in the queue, a single outbox worker for the reindex. Each module has a
theorem for its type invariant, or proves it as part of its inductive invariant.
In all of them the argument is one invariant, its lemma for `Init`, one for each
action, and the properties as consequences.

| Module | Theorems | Inductive invariant |
|---|---|---|
| `ScrapeQueue_proofs` | `Typing`, `UniqueActive`, `SafeJoin`; with prompt loads `Exclusive`, `NotFoundIsQuiet`, `Final`, `BoundedAttempts`, `Implements` | the properties themselves; `LeaseInv`, `AttemptsInv`, `BlankRows` |
| `SearchOutbox_proofs` | `StaleOnTheWay`; with one worker `Covers` | `OutboxInv`; `ReindexInv` |
| `Backfill_proofs` | `Typing`, `NothingPassed`, `Spaced` | `IInv` |
| `Supervisor_proofs` | `NobodyLeft`, `OwnSignals`, `AskedSuccess` | `IInv` |
| `ListingCache_proofs` | `Typing`, `Fresh`, `Crossing`, `Refreshed` | `IInv` |
| `SearchClient_proofs` | `Typing`, `Bounded`, `Once`, `Deadline`, `Told` | `IInv` |
| `CardCatalog_proofs` | `Typing`, `Recent`, `Shown`, `NoFieldLost` | `IInv` |
| `ScraperRound_proofs` | `Waits`, `KeepsDistance`; `Whole`, `SoldOutRows`, `OthersKept`; `CrawlTyping`, `NothingUnsaid`, `WholeSearch`, `ZeroedIfSoldOut`, `OnlyIfTold` | `IInv`; `LoadsInv`; `CrawlInv` |

### The queue

`UniqueActiveJob` is inductive together with the types: a step makes a row active
only where the partial unique index finds none, or where the row was active.
`JoinIsSafe` is too: a target that some request has locked is not disabled or
deleted, and its jobs neither succeed nor go, since every transaction that would
do so updates the target's row first. Neither assumes anything about loads.

The others assume `LoadsPrompt`: loads keep to a budget, and job timeout plus
budget is less than the lease. The settings validate only the second, without
the budget; `queue_two_holders` shows that the first is needed. None of them is
inductive. `LeaseInv` adds that the row of every busy slot is running (unless its
card was deleted) and that its lease is longer than the time the slot has left.
So the row is not claimable, a claim cannot give it to another slot, and a mark
finds the row its own claim made. `AttemptsLeft` adds that a waiting row has
attempts left and that a running row without a holder was dropped by a death that
is counted.

`Implements` is the refinement of `WorkQueue`: every step of the queue is a step of
it, or none, as a job is seen through its row and its holders (`QueueState`). A
claim is `Take` because nobody holds a claimable row (`LeaseInv`); a mark is `End`
or `GiveBack` of what the slot held; a death gives back the jobs of all slots of
the process at once; a lease that runs out changes nothing, since nobody holds
the row by then. `BlankRows`, that rows not inserted yet belong to no card, makes
a deletion `Remove` only jobs that exist.

### The outbox

`StaleHasEvent` relates the index to the events; between them are a worker's
batches, accepted tasks, and the uids by which events and workers know them.
`OutboxInv` says of every card that the event of the last write to it carries the
row as it is: the task of its uid, the task it was claimed with and every batch
it is in say what the row says, and it is marked succeeded only after a task that
said so has succeeded (`Last`). It also says that documents only ever were the
card's rows (`SaidOnce`), that tasks end in the order they were accepted in, and
that the index has what the last task to succeed said (`IndexOK`). So if no event
of a stale card is unsettled, the task of its last write succeeded, and a later
one said something older: `Overtaken`, the exception that two workers make. The
number of workers and of faults is free.

`ReindexCovers` says that a row which nothing wrote under the walk is indexed, or has
an event, when the command returns. A row is `Covered` if some task that succeeded,
or that the command waits for, says it as it is and no task after it says anything
else. `ReindexInv` adds to `OutboxInv` that a row the walk has passed (`Watched`) is
covered, unless an event of its last write is there (`CardOK`): then whatever task
comes to carry that event (`Carries`) covers the row from there on (`CoveredFrom`).
What could go wrong is that an older document of the card is submitted after the
page's. With one worker it cannot: once that worker has seen the event (`Seen`),
every batch it holds says the row as it is (`Caught`), and a card without events is
in no batch (`InHand`). Pages are taken in the order of the ids, so that a row which
is not in a page was passed, or is beyond it (`WalkOK`, `Ranks`, `Pages`).

### The schedule

`NothingPassed`: between two steps the command's state is the checkpoint, a batch
and the cards excused so far are all that is up to its last card (`InBatch`), and
who is not excused has been wanted all along (`OutOfReach`). The cursor's move
to the last card of a batch then passes nobody. `Spaced` needs to know how far the
checkpoint is from the latest batch in each phase, and in each version of the
file (`Spacing`): an interval once a checkpoint was written after that batch
(`latest.saved`); until then, and through a death, only that the next batch is not
sooner (`NotEarly`). Version 2 says when the last jobs start, and reading it adds the
interval that the others have added already. `Init` has any
checkpoint that version 2 of the program may have left: its cursor at any card,
with or without a latest job.

### The supervisor

`IInv` adds which children each phase may have: the list of `stop` holds only
children not collected (`ListIsOwn`), and behind the position of the final loop
all are (`ReapedBehind`).

### The caches

What a request has read was the database's when it read it, at most its own age
ago; so what it stores was so at most a request before it expires, less a TTL
(`ReadersOK`, `EntryOK`; `CopiesOK`, `EntryOK`, where a copy may mix fields that
were the row's at different times within that span). The rest of the invariants
is about crossing: whoever has an old version was under way at the commit, and an
old entry that no such request stored is still to be deleted, by the worker or by
the request that removed the card.

### The client

A permit is held from the head of the queue to the last attempt, the sleeps
before retries included, so counting those who hold one bounds those who send
(`HoldersOK`). `CallOK` counts, phase by phase, the attempts of a call against what
the server did, and what is left of a wait against its pauses.

### The round

`Waits`: the lock is free, or one call sleeps with it. What the i-th in the line
has waited, what the sleeper has left and i turns fit into one turn of every call
(`Asleep`), or, with the lock free, what is left of the interval and i - 1 turns
(`Awake`). A sleeper that is cancelled leaves to the others no more of the interval
than it had left to sleep; whoever leaves the line moves those behind it up by a
turn. A call is in the line once (`InLine`), so the line is no longer than there
are calls (`FS_Injection` of the library).

`LoadsInv` follows each load through its plan: which of the rows it listed are
written as it saw them (`Stored`), which rows of a sold-out code, or of a card
that has nothing, are still to be changed (`OnSale`, `OnOffer`), and that these are
among the keys it has left to do. Other transactions cannot disturb it, because a
row that one of them has written is locked (`Locked`), and what a commit of
theirs gives or takes is a row of their own card: rows that become the load's own
card's after its statement began would be the danger, and calls work on different
cards (`JobsApart`). `SoldOutAmongOthers` needs that a statement looks again at a
row it waited for, which is the condition of `Writes`.

### The crawl

`Reading` says what the rest of a job may rely on of a page of any length: it is
called empty only if its text says so, it gives no listing only if no row can be
read as one, and a code counts as in stock only if some row of it shows units
(`LastRow`: of the rows of one code and condition there is a last one). `EmptyPages`
follows, and with it `NothingUnsaid`. `CrawlInv` says phase by phase what the job's
variables have to do with what the store has shown: while it searches, the products
it has found are those shown and none is read (`SearchOK`); then the last search page
named no further one, and those shown are those read and those left to fetch
(`FetchOK`); a result is empty only if the store said there is nothing and showed no
product; a code that stands as sold out is among those to zero, and a code the job
takes for being in stock was shown so (`OutKnown`). A code that was called sold out
and does not stand is what `Disregarded` excuses. What a load writes (`LoadedRow`)
gives the three properties from there.

### Assumptions

The named ASSUMEs of the modules, which every run evaluates, and `LoadsPrompt` or
`SingleWorker` where said. `SingleWorker` is a deployment with one worker process: with
two, `ReindexCovers` is false for the reason `Overtaken` is there, an older
document submitted after the page's. The ASSUMEs are types of the constants, that
placeholders (`NoJob`, `NoTask`, `NoCard`, `NoSlot`) are none of the things they stand
in for, that the calls of a process, the rows a load can touch and the products of
the store are finitely many, that a card has a field, and that a page lists a row
at most once, which `deduplicate_listings` sees to.

## 7. What is only model-checked

- Liveness, with its fairness, which is beyond the proof system: `ActiveSettles`,
  `Converges`, `RunEnds`, `EndsContainer`, `RoundsEnd`, `CallsEnd`.
- The two properties that the code violates, each by a trace (section 5).

## 8. What is not modelled

- Redirects inside httpx, which are requests that nothing spaces; the process pool;
  a second scraper process, which the program's README rules out because the
  spacing is per process.
- `last_seen_at` of listings, which two loads may set back (`loader.py:135`), and an
  empty `retry_delays_seconds` (`worker.py:404`): no property looks at either.
- A checkpoint that cannot be read is refused even with `--restart`
  (`backfill.py:431`), and an API write whose cache fails after the commit is
  answered 500 (`card_cases.py:165`): no state of a module depends on them.
- `search_cards` and the adapter: one call and a fallback, no state. Errors of
  the adapter are the outcomes of `WaitAndMark` and `Submit`.
- Routers, validation, authentication metadata, the application's lifespan: the
  handlers are the requests of `ListingCache` and `CardCatalog`.
- Settings: read once; the relations they validate are assumptions here.
- Migrations, sessions, the card import, entities, filters and serialisers: data
  or input and output without control of their own.
- `get_one` and the list of listings: the read-through of `CardCatalog` and
  `ListingCache` without a target.
