---------------------------- MODULE ListingCache ----------------------------
(***************************************************************************)
(* One card's listings as GET /card-listings/search answers them: from the *)
(* cache, or from PostgreSQL with a look at the target that decides        *)
(* between caching the answer and queueing a refresh.                      *)
(*                                                                         *)
(*   card_listing_cases.py   search                                        *)
(*   scraper/worker.py       process_once: commit, then delete_prefix      *)
(*   cache/valkey.py         TTL; delete_prefix scans, then deletes        *)
(*                                                                         *)
(* A request makes each of its reads at a time of its own: its session     *)
(* reads committed data statement by statement. A query that names no card *)
(* finds listings by their name: so does the card's, once it is removed.   *)
(***************************************************************************)
EXTENDS Integers

CONSTANTS
    Readers,     \* requests in flight at a time
    TTL,         \* CARD_LISTING_CACHE_TTL_SECONDS
    ReqTime,     \* bound on how long a request takes
    Intervals,   \* what next_refresh_at may add
    MaxLoads,    \* bound on loads
    MaxTime      \* bound on the clock

ASSUME CacheAssumption ==
    /\ TTL \in Nat \ {0}
    /\ {ReqTime, MaxLoads, MaxTime} \subseteq Nat
    /\ Intervals \subseteq Nat \ {0}

VARIABLES
    now,
    version,       \* loads committed: which listings the database has
    superseded,    \* when each version stopped being the database's
    target,        \* its card is there, enabled, and since when it is due
    job,           \* whether the target has an active job
    cache,         \* the entry for the query
    reader,        \* the requests in flight
    worker,        \* the invalidation after a load
    missed         \* the latest invalidation did not happen

vars == <<now, version, superseded, target, job, cache, reader, worker, missed>>

NoEntry == [set |-> FALSE, version |-> 0, expires |-> 0, crossed |-> FALSE]

(* crossed: a load was committed while the request was in flight.          *)
Resting == [phase |-> "idle", version |-> 0, age |-> 0, crossed |-> FALSE]

Init ==
    /\ now = 0
    /\ version = 0
    /\ superseded = [v \in 0 .. MaxLoads |-> MaxTime]
    /\ target = [card |-> TRUE, enabled |-> TRUE, due |-> 0]
    /\ job = FALSE
    /\ cache = NoEntry
    /\ reader = [r \in Readers |-> Resting]
    /\ worker = "idle"
    /\ missed = FALSE

Overdue == target.card /\ target.enabled /\ target.due <= now

(***************************************************************************)
(* search                                                                  *)
(***************************************************************************)
(* Mutant: the entry does not expire.                                      *)
HitForever == cache.set

Hit == cache.set /\ now < cache.expires

(* A hit is answered at once, and nothing changes.                         *)
Ask(r) ==
    /\ reader[r].phase = "idle"
    /\ ~Hit
    /\ reader' = [reader EXCEPT ![r] = [Resting EXCEPT !.phase = "listings"]]
    /\ UNCHANGED <<now, version, superseded, target, job, cache, worker, missed>>

(* resolve_canonical and the listings. Without a card they are cached as   *)
(* they are; a card that goes between the two costs the request its job.   *)
ReadListings(r) ==
    /\ reader[r].phase = "listings"
    /\ reader' = [reader EXCEPT ![r].phase = IF target.card THEN "target" ELSE "store",
                                ![r].version = version]
    /\ UNCHANGED <<now, version, superseded, target, job, cache, worker, missed>>

(* Mutant: what was read is cached whether or not a refresh is due.        *)
ReadTargetCaching(r) ==
    /\ reader[r].phase = "target"
    /\ reader' = [reader EXCEPT ![r].phase = "store"]
    /\ UNCHANGED <<now, version, superseded, target, job, cache, worker, missed>>

(* A disabled target and a fresh one are cached; an overdue one is not,    *)
(* nor is one that went with its card.                                     *)
ReadTarget(r) ==
    /\ reader[r].phase = "target"
    /\ reader' = [reader EXCEPT ![r].phase = IF Overdue \/ ~target.card
                                              THEN "enqueue" ELSE "store"]
    /\ UNCHANGED <<now, version, superseded, target, job, cache, worker, missed>>

(* enqueue_for_card: the job there is or a new one, none once disabled;    *)
(* with the card gone, an error.                                           *)
Enqueue(r) ==
    /\ reader[r].phase = "enqueue"
    /\ job' = (job \/ (target.card /\ target.enabled))
    /\ reader' = [reader EXCEPT ![r] = Resting]
    /\ UNCHANGED <<now, version, superseded, target, cache, worker, missed>>

Store(r) ==
    /\ reader[r].phase = "store"
    /\ cache' = [set |-> TRUE, version |-> reader[r].version,
                 expires |-> now + TTL, crossed |-> reader[r].crossed]
    /\ reader' = [reader EXCEPT ![r] = Resting]
    /\ UNCHANGED <<now, version, superseded, target, job, worker, missed>>

(***************************************************************************)
(* The worker                                                              *)
(***************************************************************************)
(* The transaction of process_once: listings, job and next_refresh_at.     *)
Load ==
    /\ job
    /\ worker = "idle"
    /\ version < MaxLoads
    /\ job' = FALSE
    /\ version' = version + 1
    /\ superseded' = [superseded EXCEPT ![version] = now]
    /\ \E interval \in Intervals :
          target' = [target EXCEPT !.due = now + interval]
    /\ reader' = [r \in Readers |->
                    IF reader[r].phase = "idle" THEN Resting
                    ELSE [reader[r] EXCEPT !.crossed = TRUE]]
    /\ worker' = "scan"
    /\ UNCHANGED <<now, cache, missed>>

(* delete_prefix: SCAN finds the key or not, DELETE comes after; a key set *)
(* in between may be deleted too, or stay.                                 *)
Scan ==
    /\ worker = "scan"
    /\ worker' = IF cache.set THEN "delete" ELSE "idle"
    /\ missed' = FALSE
    /\ UNCHANGED <<now, version, superseded, target, job, cache, reader>>

(* Mutant: nothing is deleted.                                             *)
DeleteNothing ==
    /\ worker = "delete"
    /\ worker' = "idle"
    /\ UNCHANGED <<now, version, superseded, target, job, cache, reader, missed>>

Delete ==
    /\ worker = "delete"
    /\ cache' = NoEntry
    /\ worker' = "idle"
    /\ UNCHANGED <<now, version, superseded, target, job, reader, missed>>

(* The cache is unreachable, or the worker dies before it is reached.      *)
InvalidationLost ==
    /\ worker # "idle"
    /\ worker' = "idle"
    /\ missed' = TRUE
    /\ UNCHANGED <<now, version, superseded, target, job, cache, reader>>

(* A 404 ends the job and disables the target; any other final failure     *)
(* only ends the job.                                                      *)
JobFails ==
    /\ job
    /\ job' = FALSE
    /\ \E enabled \in BOOLEAN :
          target' = [target EXCEPT !.enabled = target.enabled /\ enabled]
    /\ UNCHANGED <<now, version, superseded, cache, reader, worker, missed>>

(* next_refresh_at = None: due from now on, if it was not before.          *)
ResetTarget ==
    /\ target.card
    /\ target' = [card |-> TRUE, enabled |-> TRUE,
                  due |-> IF Overdue THEN target.due ELSE now]
    /\ UNCHANGED <<now, version, superseded, job, cache, reader, worker, missed>>

(* Removing the card takes its target and job along. Its listings stay    *)
(* active, without a card, and no entry of the listing cache is deleted.   *)
RemoveCard ==
    /\ target.card
    /\ target' = [target EXCEPT !.card = FALSE]
    /\ job' = FALSE
    /\ UNCHANGED <<now, version, superseded, cache, reader, worker, missed>>

Tick ==
    /\ now < MaxTime
    /\ \A r \in Readers : reader[r].phase # "idle" => reader[r].age < ReqTime
    /\ now' = now + 1
    /\ reader' = [r \in Readers |->
                    IF reader[r].phase = "idle" THEN Resting
                    ELSE [reader[r] EXCEPT !.age = @ + 1]]
    /\ UNCHANGED <<version, superseded, target, job, cache, worker, missed>>

Next ==
    \/ \E r \in Readers : \/ Ask(r) \/ ReadListings(r) \/ ReadTarget(r)
                          \/ Enqueue(r) \/ Store(r)
    \/ Load \/ Scan \/ Delete \/ InvalidationLost
    \/ JobFails \/ ResetTarget \/ RemoveCard
    \/ Tick

Spec == Init /\ [][Next]_vars

(***************************************************************************)
(* Properties                                                              *)
(***************************************************************************)
(* Every variable has its type.                                            *)
TypeOK ==
    /\ now \in 0 .. MaxTime
    /\ version \in 0 .. MaxLoads
    /\ superseded \in [0 .. MaxLoads -> 0 .. MaxTime]
    /\ target \in [card : BOOLEAN, enabled : BOOLEAN, due : Nat]
    /\ job \in BOOLEAN
    /\ cache \in [set : BOOLEAN, version : 0 .. MaxLoads, expires : Nat,
                  crossed : BOOLEAN]
    /\ reader \in [Readers ->
                     [phase : {"idle", "listings", "target", "enqueue", "store"},
                      version : 0 .. MaxLoads, age : 0 .. ReqTime,
                      crossed : BOOLEAN]]
    /\ worker \in {"idle", "scan", "delete"}
    /\ missed \in BOOLEAN

(* However invalidation fails or is overtaken, no search answers from      *)
(* listings that were replaced longer ago than a TTL and a request.        *)
StaleBounded ==
    Hit /\ cache.version < version =>
        now < superseded[cache.version] + TTL + ReqTime

(* Once the invalidation after a load has been made, an older answer is in *)
(* the cache only because a request that was under way at the commit put   *)
(* it there afterwards.                                                    *)
StaleOnlyByCrossing ==
    cache.set /\ cache.version < version /\ worker = "idle" /\ ~missed =>
        cache.crossed

(* A cached answer keeps an overdue target from being queued for a TTL and *)
(* a request at most.                                                      *)
RefreshDelayed ==
    Hit /\ Overdue => now < target.due + TTL + ReqTime
=============================================================================
