------------------------------ MODULE CardCatalog ------------------------------
(***************************************************************************)
(* One card of the catalogue: requests that create, change, remove and     *)
(* read it, and its two cache entries, the card's own and a page of the    *)
(* list.                                                                   *)
(*                                                                         *)
(*   card_cases.py   get_one, get_multi, create, update, remove            *)
(*   db/dao.py       get, create, update, delete                           *)
(*                                                                         *)
(* Every request has a session of its own, which keeps the objects it has  *)
(* read. A write and its commit are one step: until the commit nobody sees *)
(* the row it locks. Values are numbered in the order they are written.    *)
(***************************************************************************)
EXTENDS Integers

CONSTANTS
    Requests,    \* requests in flight at a time
    Fields,      \* the fields of a card that PATCH sends
    TTL,         \* CARD_CACHE_TTL_SECONDS
    ReqTime,     \* bound on how long a request takes
    MaxWrites,   \* bound on updates
    MaxTime      \* bound on the clock

ASSUME CatalogAssumption ==
    /\ TTL \in Nat \ {0}
    /\ {ReqTime, MaxWrites, MaxTime} \subseteq Nat
    /\ Fields # {}

VARIABLES
    now,
    row,         \* the card in PostgreSQL
    writes,      \* updates committed
    until,       \* when each value of each field stopped being the row's
    cache,       \* the card's entry and the list's
    req,         \* the requests in flight
    lost         \* a request was cut short

vars == <<now, row, writes, until, cache, req, lost>>

Keys == {"item", "list"}

NoCard == [state |-> "unborn", value |-> [f \in Fields |-> 0]]

NoEntry == [set |-> FALSE, card |-> NoCard, expires |-> 0, crossed |-> FALSE]

(* crossed: the card was removed while the request was in flight.          *)
Resting == [phase |-> "idle", field |-> CHOOSE f \in Fields : TRUE,
            card |-> NoCard, age |-> 0, crossed |-> FALSE]

Init ==
    /\ now = 0
    /\ row = NoCard
    /\ writes = 0
    /\ until = [f \in Fields |-> [v \in 0 .. MaxWrites |-> MaxTime]]
    /\ cache = [k \in Keys |-> NoEntry]
    /\ req = [r \in Requests |-> Resting]
    /\ lost = FALSE

There(card) == card.state = "there"

Goes(r, phase) == req' = [req EXCEPT ![r].phase = phase]

Done(r) == req' = [req EXCEPT ![r] = Resting]

(***************************************************************************)
(* The cache                                                               *)
(***************************************************************************)
(* Mutant: entries do not expire.                                          *)
HitForever(k) == cache[k].set

Hit(k) == cache[k].set /\ now < cache[k].expires

Cached(k, r) ==
    cache' = [cache EXCEPT ![k] = [set |-> TRUE, card |-> req[r].card,
                                   expires |-> now + TTL,
                                   crossed |-> req[r].crossed]]

(* delete_prefix("cards:list:"), in create, update and remove.             *)
DropList(r) ==
    /\ req[r].phase \in {"drop", "undrop"}
    /\ cache' = [cache EXCEPT !["list"] = NoEntry]
    /\ IF req[r].phase = "drop" THEN Goes(r, "item") ELSE Done(r)
    /\ UNCHANGED <<now, row, writes, until, lost>>

StoreItem(r) ==
    /\ req[r].phase = "item"
    /\ Cached("item", r)
    /\ Done(r)
    /\ UNCHANGED <<now, row, writes, until, lost>>

(***************************************************************************)
(* Reading: get_one and get_multi                                          *)
(***************************************************************************)
(* A hit changes nothing; a card that is not there is not cached as such,  *)
(* but the list is, without it.                                            *)
ReadMiss(r) ==
    /\ req[r].phase = "idle"
    /\ \/ /\ ~Hit("item") /\ There(row)
          /\ req' = [req EXCEPT ![r] = [Resting EXCEPT !.phase = "item", !.card = row]]
       \/ /\ ~Hit("list")
          /\ req' = [req EXCEPT ![r] = [Resting EXCEPT !.phase = "page", !.card = row]]
    /\ UNCHANGED <<now, row, writes, until, cache, lost>>

StorePage(r) ==
    /\ req[r].phase = "page"
    /\ Cached("list", r)
    /\ Done(r)
    /\ UNCHANGED <<now, row, writes, until, lost>>

(***************************************************************************)
(* create, update, remove                                                  *)
(***************************************************************************)
(* The identifier of a card is not used again.                             *)
Create(r) ==
    /\ req[r].phase = "idle"
    /\ row.state = "unborn"
    /\ row' = [NoCard EXCEPT !.state = "there"]
    /\ req' = [req EXCEPT ![r] = [Resting EXCEPT !.phase = "drop", !.card = row']]
    /\ UNCHANGED <<now, writes, until, cache, lost>>

(* The first look at the card: without it there is nothing to do (404).    *)
Get(r) ==
    /\ req[r].phase = "idle"
    /\ There(row)
    /\ \/ req' = [req EXCEPT ![r] = [Resting EXCEPT !.phase = "remove"]]
       \/ \E f \in Fields :
             req' = [req EXCEPT ![r] = [Resting EXCEPT !.phase = "update",
                                                       !.field = f, !.card = row]]
    /\ UNCHANGED <<now, row, writes, until, cache, lost>>

(* Mutant: all the fields that were read are written back.                 *)
WrittenWhole(r) == [req[r].card EXCEPT !.value[req[r].field] = writes + 1]

(* exclude_unset: only the fields that were sent.                          *)
Written(r) == [row EXCEPT !.value[req[r].field] = writes + 1]

(* The session's copy gets the values written and nothing else: reading    *)
(* the row again does not refresh an object the session already has. A row *)
(* that is gone fails the request.                                         *)
Update(r) ==
    /\ req[r].phase = "update"
    /\ IF There(row)
       THEN /\ writes < MaxWrites
            /\ writes' = writes + 1
            /\ row' = Written(r)
            /\ until' = [until EXCEPT ![req[r].field][row.value[req[r].field]] = now]
            /\ req' = [req EXCEPT ![r] =
                 [@ EXCEPT !.phase = "drop", !.field = Resting.field,
                           !.card.value[req[r].field] = writes + 1]]
       ELSE /\ Done(r)
            /\ UNCHANGED <<row, writes, until>>
    /\ UNCHANGED <<now, cache, lost>>

Gone(card) == [card EXCEPT !.state = "gone"]

Remove(r) ==
    /\ req[r].phase = "remove"
    /\ row' = Gone(row)
    /\ until' = IF There(row)
                THEN [f \in Fields |-> [until[f] EXCEPT ![row.value[f]] = now]]
                ELSE until
    /\ req' = [q \in Requests |->
                 IF q = r THEN [req[q] EXCEPT !.phase = "unset"]
                 ELSE [req[q] EXCEPT !.crossed = req[q].phase # "idle"]]
    /\ UNCHANGED <<now, writes, cache, lost>>

(* Mutant: the card's own entry is left to expire.                         *)
UnsetNothing(r) ==
    /\ req[r].phase = "unset"
    /\ Goes(r, "undrop")
    /\ UNCHANGED <<now, row, writes, until, cache, lost>>

(* cache.delete of the card's entry, before that of the list's.            *)
Unset(r) ==
    /\ req[r].phase = "unset"
    /\ cache' = [cache EXCEPT !["item"] = NoEntry]
    /\ Goes(r, "undrop")
    /\ UNCHANGED <<now, row, writes, until, lost>>

(* The cache cannot be reached, or the process ends.                       *)
CutShort(r) ==
    /\ req[r].phase # "idle"
    /\ Done(r)
    /\ lost' = TRUE
    /\ UNCHANGED <<now, row, writes, until, cache>>

Tick ==
    /\ now < MaxTime
    /\ \A r \in Requests : req[r].phase # "idle" => req[r].age < ReqTime
    /\ now' = now + 1
    /\ req' = [r \in Requests |->
                 IF req[r].phase = "idle" THEN Resting
                 ELSE [req[r] EXCEPT !.age = @ + 1]]
    /\ UNCHANGED <<row, writes, until, cache, lost>>

Next ==
    \/ \E r \in Requests :
          \/ ReadMiss(r) \/ StorePage(r)
          \/ Create(r) \/ Get(r) \/ Update(r) \/ Remove(r)
          \/ DropList(r) \/ StoreItem(r) \/ Unset(r) \/ CutShort(r)
    \/ Tick

Spec == Init /\ [][Next]_vars

(***************************************************************************)
(* Properties                                                              *)
(***************************************************************************)
Card == [state : {"unborn", "there", "gone"}, value : [Fields -> 0 .. MaxWrites]]

(* Every variable has its type.                                            *)
TypeOK ==
    /\ now \in 0 .. MaxTime
    /\ row \in Card
    /\ writes \in 0 .. MaxWrites
    /\ until \in [Fields -> [0 .. MaxWrites -> 0 .. MaxTime]]
    /\ cache \in [Keys -> [set : BOOLEAN, card : Card, expires : Nat,
                       crossed : BOOLEAN]]
    /\ req \in [Requests ->
                  [phase : {"idle", "page", "drop", "undrop", "item", "update",
                            "remove", "unset"},
                   field : Fields, card : Card, age : 0 .. ReqTime,
                   crossed : BOOLEAN]]
    /\ lost \in BOOLEAN

(* Whatever requests cross or are cut short, each field that the cache     *)
(* shows was the row's no longer ago than a TTL and a request.             *)
FieldsRecent ==
    \A k \in Keys : Hit(k) /\ There(cache[k].card) =>
        \A f \in Fields :
            now < until[f][cache[k].card.value[f]] + TTL + ReqTime
                \/ (There(row) /\ row.value[f] = cache[k].card.value[f])

(* Two updates of different fields both last: no commit takes a field back *)
(* to what it was.                                                         *)
FieldsForward ==
    [][\A f \in Fields : row'.value[f] >= row.value[f]]_vars

Quiet == ~lost /\ \A r \in Requests : req[r].phase = "idle"

(* Once the removal of a card is over, the cache shows it only because a   *)
(* request that was under way when it was removed put it there afterwards. *)
ShownOnlyByCrossing ==
    Quiet /\ row.state = "gone" =>
        \A k \in Keys : Hit(k) /\ There(cache[k].card) => cache[k].crossed
=============================================================================
