--------------------------- MODULE CardCatalog_proofs ---------------------------
(***************************************************************************)
(* Proofs about CardCatalog, for any number of requests in flight, any     *)
(* fields of a card, any TTL and any bounds on updates and on the clock.   *)
(***************************************************************************)
EXTENDS CardCatalog, TLAPS

(* Nothing is written over a later value.                                  *)
RowOK ==
    \A f \in Fields : /\ row.value[f] <= writes
                      /\ row.state = "unborn" => row.value[f] = 0

(* Each value of the copy is the row's, or was when the time was "from".   *)
RecentIn(rw, un, card, from) ==
    There(card) =>
        \A f \in Fields : \/ There(rw) /\ rw.value[f] = card.value[f]
                          \/ from <= un[f][card.value[f]]

(* What a request has of a card is as old as the request at most, and was  *)
(* there before a removal only if the request was too.                     *)
CopyOK(q) ==
    /\ q.phase \in {"remove", "unset", "undrop"} => ~There(q.card)
    /\ q.phase # "idle" /\ There(q.card) => (row.state = "gone" => q.crossed)
    /\ q.phase # "idle" => RecentIn(row, until, q.card, now - q.age)

CopiesOK == \A r \in Requests : CopyOK(req[r])

(* Who removed the card has yet to delete the entry.                       *)
Removes(q, k) == q.phase = "unset" \/ (q.phase = "undrop" /\ k = "list")

(* A copy is cached no later than a request after it was read.             *)
EntryOK(k) ==
    cache[k].set =>
        /\ cache[k].expires <= now + TTL
        /\ RecentIn(row, until, cache[k].card, cache[k].expires - (TTL + ReqTime))
        /\ There(cache[k].card) /\ row.state = "gone" =>
             cache[k].crossed \/ lost \/ \E r \in Requests : Removes(req[r], k)

IInv == TypeOK /\ RowOK /\ CopiesOK /\ \A k \in Keys : EntryOK(k)

Entries == [set : BOOLEAN, card : Card, expires : Nat, crossed : BOOLEAN]

InFlight == [phase : {"idle", "page", "drop", "undrop", "item", "update",
                      "remove", "unset"},
             field : Fields, card : Card, age : 0 .. ReqTime, crossed : BOOLEAN]

LEMMA ConstantTypes ==
    TTL \in Nat /\ ReqTime \in Nat /\ MaxWrites \in Nat /\ MaxTime \in Nat
<1>1. /\ ReqTime \in {ReqTime, MaxWrites, MaxTime}
      /\ MaxWrites \in {ReqTime, MaxWrites, MaxTime}
      /\ MaxTime \in {ReqTime, MaxWrites, MaxTime}
  OBVIOUS
<1> QED BY <1>1, CatalogAssumption

(* TypeOK, by the parts the proofs use.                                    *)
LEMMA Types ==
    ASSUME TypeOK
    PROVE  /\ now \in 0 .. MaxTime /\ now \in Nat
           /\ row \in Card /\ row.value \in [Fields -> 0 .. MaxWrites]
           /\ writes \in 0 .. MaxWrites /\ writes \in Nat
           /\ until \in [Fields -> [0 .. MaxWrites -> 0 .. MaxTime]]
           /\ cache \in [Keys -> Entries]
           /\ req \in [Requests -> InFlight]
           /\ lost \in BOOLEAN
  BY ConstantTypes DEF TypeOK, Card, Entries, InFlight

LEMMA NoCardTypes ==
    /\ NoCard \in Card /\ NoCard.state = "unborn"
    /\ \A f \in Fields : NoCard.value[f] = 0
<1>1. 0 \in 0 .. MaxWrites BY ConstantTypes
<1> QED BY <1>1 DEF NoCard, Card

LEMMA NoEntryTypes == NoEntry \in Entries /\ ~NoEntry.set
  BY NoCardTypes DEF NoEntry, Entries

LEMMA RestingTypes ==
    /\ Resting \in InFlight /\ Resting.phase = "idle" /\ Resting.field \in Fields
    /\ Resting.age = 0 /\ Resting.card = NoCard
<1>1. (CHOOSE f \in Fields : TRUE) \in Fields BY CatalogAssumption
<1>2. 0 \in 0 .. ReqTime BY ConstantTypes
<1> QED BY <1>1, <1>2, NoCardTypes DEF Resting, InFlight

LEMMA InitHolds == Init => IInv
<1> SUFFICES ASSUME Init PROVE IInv
  OBVIOUS
<1>1. /\ 0 \in 0 .. MaxWrites /\ 0 \in 0 .. MaxTime /\ MaxTime \in 0 .. MaxTime
  BY ConstantTypes
<1>2. until \in [Fields -> [0 .. MaxWrites -> 0 .. MaxTime]] BY <1>1 DEF Init
<1>3. cache \in [Keys -> Entries] BY NoEntryTypes DEF Init
<1>4. req \in [Requests -> InFlight] BY RestingTypes DEF Init
<1>5. TypeOK BY <1>1, <1>2, <1>3, <1>4, NoCardTypes DEF Init, TypeOK, Entries, InFlight
<1>6. RowOK BY NoCardTypes DEF Init, RowOK
<1>7. CopiesOK BY RestingTypes DEF Init, CopiesOK, CopyOK
<1>8. \A k \in Keys : EntryOK(k) BY NoEntryTypes DEF Init, EntryOK
<1> QED BY <1>5, <1>6, <1>7, <1>8 DEF IInv

-----------------------------------------------------------------------------
(* Steps that leave the row alone.                                         *)

Fresh(q) == [set |-> TRUE, card |-> q.card, expires |-> now + TTL, crossed |-> q.crossed]

(* One request goes on; it may drop entries, or store what it read.        *)
LEMMA RequestStep ==
    ASSUME IInv, NEW r \in Requests, NEW q \in InFlight, CopyOK(q),
           req' = [req EXCEPT ![r] = q],
           UNCHANGED <<now, row, writes, until>>,
           lost' \in BOOLEAN, lost => lost',
           cache' \in [Keys -> Entries],
           \A k \in Keys :
              \/ cache'[k] = NoEntry
              \/ req[r].phase # "idle" /\ cache'[k] = Fresh(req[r])
              \/ /\ cache'[k] = cache[k]
                 /\ Removes(req[r], k) => Removes(q, k) \/ lost'
    PROVE  IInv'
<1>t. TypeOK BY DEF IInv
<1>1. \A s \in Requests : req'[s] = IF s = r THEN q ELSE req[s]
  BY <1>t, Types
<1>2. TypeOK'
  <2>1. req' \in [Requests -> InFlight] BY <1>t, Types
  <2> QED BY <1>t, <2>1 DEF TypeOK, Entries, InFlight
<1>3. RowOK' BY DEF IInv, RowOK
<1>4. CopiesOK' BY <1>1 DEF IInv, CopiesOK, CopyOK
<1>5. ASSUME NEW k \in Keys PROVE EntryOK(k)'
  <2>1. CASE cache'[k] = NoEntry BY <2>1, NoEntryTypes DEF EntryOK
  <2>2. CASE req[r].phase # "idle" /\ cache'[k] = Fresh(req[r])
    <3>1. /\ cache'[k].expires = now + TTL /\ cache'[k].card = req[r].card
          /\ cache'[k].crossed = req[r].crossed
      BY <2>2 DEF Fresh
    <3>2. /\ There(req[r].card) => (row.state = "gone" => req[r].crossed)
          /\ RecentIn(row, until, req[r].card, now - req[r].age)
      BY <2>2 DEF IInv, CopiesOK, CopyOK
    <3>3. /\ req[r].age \in 0 .. ReqTime /\ req[r].card \in Card /\ now \in Nat
          /\ until \in [Fields -> [0 .. MaxWrites -> 0 .. MaxTime]]
      BY <1>t, Types DEF InFlight
    <3>4. now + TTL - (TTL + ReqTime) <= now - req[r].age /\ now + TTL <= now + TTL
      BY <3>3, ConstantTypes
    <3>5. RecentIn(row, until, req[r].card, now + TTL - (TTL + ReqTime))
      <4> SUFFICES ASSUME There(req[r].card), NEW f \in Fields,
                          ~(There(row) /\ row.value[f] = req[r].card.value[f])
                   PROVE  now + TTL - (TTL + ReqTime) <= until[f][req[r].card.value[f]]
        BY DEF RecentIn
      <4> DEFINE u == until[f][req[r].card.value[f]]
                 from == now - req[r].age
                 least == now + TTL - (TTL + ReqTime)
      <4>1. from <= u BY <3>2 DEF RecentIn
      <4>2. u \in Nat BY <3>3, ConstantTypes DEF Card
      <4>3. from \in Int /\ least \in Int /\ least <= from
        BY <3>3, <3>4, ConstantTypes
      <4> HIDE DEF u, from, least
      <4>4. least <= u BY <4>1, <4>2, <4>3
      <4> QED BY <4>4 DEF u, least
    <3>6. now' = now /\ row' = row /\ until' = until
      OBVIOUS
    <3>7. cache'[k].expires <= now' + TTL BY <3>1, <3>4, <3>6
    <3>8. RecentIn(row', until', cache'[k].card, cache'[k].expires - (TTL + ReqTime))
      BY <3>1, <3>3, <3>5, <3>6, ConstantTypes DEF RecentIn
    <3>9. There(cache'[k].card) /\ row'.state = "gone" => cache'[k].crossed
      BY <3>1, <3>2, <3>6
    <3> QED BY <3>7, <3>8, <3>9 DEF EntryOK
  <2>3. CASE cache'[k] = cache[k] /\ (Removes(req[r], k) => Removes(q, k) \/ lost')
    <3>1. EntryOK(k) BY DEF IInv
    <3>2. (\E s \in Requests : Removes(req[s], k)) =>
             lost' \/ \E s \in Requests : Removes(req'[s], k)
      BY <1>1, <2>3
    <3> QED BY <2>3, <3>1, <3>2 DEF EntryOK
  <2> QED BY <2>1, <2>2, <2>3
<1> QED BY <1>2, <1>3, <1>4, <1>5 DEF IInv

LEMMA ReadingHolds ==
    ASSUME IInv, NEW r \in Requests,
           ReadMiss(r) \/ Get(r) \/ StorePage(r) \/ StoreItem(r)
    PROVE  IInv'
<1>t. /\ TypeOK /\ req[r] \in InFlight /\ row \in Card /\ lost \in BOOLEAN
      /\ cache \in [Keys -> Entries] /\ now \in Nat
      /\ until \in [Fields -> [0 .. MaxWrites -> 0 .. MaxTime]]
      /\ row.value \in [Fields -> 0 .. MaxWrites]
  BY Types DEF IInv
<1>1. RecentIn(row, until, row, now - 0) BY DEF RecentIn
<1>2. CASE ReadMiss(r)
  <2>1. PICK phase \in {"item", "page"} :
           /\ req' = [req EXCEPT ![r] = [Resting EXCEPT !.phase = phase, !.card = row]]
           /\ phase = "item" => There(row)
    BY <1>2 DEF ReadMiss
  <2> DEFINE q == [Resting EXCEPT !.phase = phase, !.card = row]
  <2>2. /\ q \in InFlight /\ q.phase = phase /\ q.card = row /\ q.age = 0
    BY <1>t, RestingTypes DEF InFlight
  <2>3. req' = [req EXCEPT ![r] = q] BY <2>1
  <2> HIDE DEF q
  <2>4. CopyOK(q) BY <1>1, <2>2 DEF CopyOK, There
  <2>5. req[r].phase = "idle" /\ UNCHANGED <<now, row, writes, until, cache, lost>>
    BY <1>2 DEF ReadMiss
  <2> QED BY <1>t, <2>2, <2>3, <2>4, <2>5, RequestStep DEF Removes
<1>3. CASE Get(r)
  <2> DEFINE q1 == [Resting EXCEPT !.phase = "remove"]
             q2(f) == [Resting EXCEPT !.phase = "update", !.field = f, !.card = row]
  <2>1. /\ q1 \in InFlight /\ q1.phase = "remove" /\ q1.card = NoCard /\ q1.age = 0
    BY RestingTypes DEF InFlight
  <2>2. \A f \in Fields : /\ q2(f) \in InFlight /\ q2(f).phase = "update"
                           /\ q2(f).card = row /\ q2(f).age = 0
    BY <1>t, RestingTypes DEF InFlight
  <2>3. There(row) /\ (req' = [req EXCEPT ![r] = q1]
                       \/ \E f \in Fields : req' = [req EXCEPT ![r] = q2(f)])
    BY <1>3 DEF Get
  <2> HIDE DEF q1, q2
  <2>4. CopyOK(q1)
    BY <2>1, NoCardTypes DEF CopyOK, There, RecentIn
  <2>5. \A f \in Fields : CopyOK(q2(f)) BY <1>1, <2>2, <2>3 DEF CopyOK, There
  <2>6. req[r].phase = "idle" /\ UNCHANGED <<now, row, writes, until, cache, lost>>
    BY <1>3 DEF Get
  <2>7. CASE req' = [req EXCEPT ![r] = q1]
    BY <1>t, <2>1, <2>4, <2>6, <2>7, RequestStep DEF Removes
  <2>8. CASE \E f \in Fields : req' = [req EXCEPT ![r] = q2(f)]
    <3>1. PICK f \in Fields : req' = [req EXCEPT ![r] = q2(f)] BY <2>8
    <3> QED BY <1>t, <2>2, <2>5, <2>6, <3>1, RequestStep DEF Removes
  <2> QED BY <2>3, <2>7, <2>8
<1>4. CASE StorePage(r) \/ StoreItem(r)
  <2>1. PICK k \in Keys : Cached(k, r) BY <1>4 DEF StorePage, StoreItem, Keys
  <2>2. /\ req[r].phase \in {"page", "item"} /\ req' = [req EXCEPT ![r] = Resting]
        /\ UNCHANGED <<now, row, writes, until, lost>>
    BY <1>4 DEF StorePage, StoreItem, Done
  <2>3. cache' = [cache EXCEPT ![k] = Fresh(req[r])] BY <2>1 DEF Cached, Fresh
  <2>4. Fresh(req[r]) \in Entries
    <3>1. now + TTL \in Nat BY <1>t, ConstantTypes
    <3> QED BY <1>t, <3>1 DEF Fresh, Entries, InFlight
  <2>5. /\ cache' \in [Keys -> Entries]
        /\ \A j \in Keys : cache'[j] = IF j = k THEN Fresh(req[r]) ELSE cache[j]
    BY <1>t, <2>3, <2>4
  <2>6. CopyOK(Resting) BY RestingTypes DEF CopyOK
  <2> QED BY <1>t, <2>2, <2>5, <2>6, RestingTypes, RequestStep DEF Removes
<1> QED BY <1>2, <1>3, <1>4

LEMMA DroppingHolds ==
    ASSUME IInv, NEW r \in Requests, DropList(r) \/ Unset(r) \/ CutShort(r)
    PROVE  IInv'
<1>t. /\ TypeOK /\ req[r] \in InFlight /\ lost \in BOOLEAN
      /\ cache \in [Keys -> Entries] /\ req \in [Requests -> InFlight]
  BY Types DEF IInv
<1>r. CopyOK(req[r]) BY DEF IInv, CopiesOK
<1>1. ASSUME NEW k \in Keys, cache' = [cache EXCEPT ![k] = NoEntry]
      PROVE  /\ cache' \in [Keys -> Entries]
             /\ \A j \in Keys : cache'[j] = IF j = k THEN NoEntry ELSE cache[j]
  BY <1>t, <1>1, NoEntryTypes
<1>2. ASSUME NEW phase \in {"item", "undrop"}, Goes(r, phase),
             req[r].phase # "idle",
             phase = "undrop" => req[r].phase = "unset"
      PROVE  \E q \in InFlight : /\ req' = [req EXCEPT ![r] = q]
                                 /\ q.phase = phase /\ CopyOK(q)
  <2> DEFINE q == [req[r] EXCEPT !.phase = phase]
  <2>1. req' = [req EXCEPT ![r] = q] BY <1>t, <1>2 DEF Goes
  <2>2. /\ q \in InFlight /\ q.phase = phase /\ q.card = req[r].card
        /\ q.age = req[r].age /\ q.crossed = req[r].crossed
    BY <1>t DEF InFlight
  <2> HIDE DEF q
  <2>3. CopyOK(q) BY <1>r, <1>2, <2>2 DEF CopyOK
  <2> QED BY <2>1, <2>2, <2>3
<1>3. CASE DropList(r)
  <2>1. /\ req[r].phase \in {"drop", "undrop"}
        /\ cache' = [cache EXCEPT !["list"] = NoEntry]
        /\ UNCHANGED <<now, row, writes, until, lost>>
    BY <1>3 DEF DropList
  <2>2. \A k \in Keys : k = "list" \/ k = "item" BY DEF Keys
  <2>3. /\ cache' \in [Keys -> Entries] /\ cache'["list"] = NoEntry
        /\ cache'["item"] = cache["item"]
    BY <2>1, <1>1 DEF Keys
  <2>4. CASE req[r].phase = "drop"
    <3>1. Goes(r, "item") BY <1>3, <2>4 DEF DropList
    <3>2. PICK q \in InFlight : /\ req' = [req EXCEPT ![r] = q]
                               /\ q.phase = "item" /\ CopyOK(q)
      BY <1>2, <2>4, <3>1
    <3>3. ~Removes(req[r], "item") BY <2>4 DEF Removes
    <3>4. \A k \in Keys : \/ cache'[k] = NoEntry
                          \/ cache'[k] = cache[k] /\ ~Removes(req[r], k)
      BY <2>2, <2>3, <3>3
    <3> QED BY <1>t, <2>1, <2>3, <3>2, <3>4, RequestStep
  <2>5. CASE req[r].phase = "undrop"
    <3>1. req' = [req EXCEPT ![r] = Resting] BY <1>3, <2>5 DEF DropList, Done
    <3>2. CopyOK(Resting) BY RestingTypes DEF CopyOK
    <3>3. ~Removes(req[r], "item") BY <2>5 DEF Removes
    <3>4. \A k \in Keys : \/ cache'[k] = NoEntry
                          \/ cache'[k] = cache[k] /\ ~Removes(req[r], k)
      BY <2>2, <2>3, <3>3
    <3> QED BY <1>t, <2>1, <2>3, <3>1, <3>2, <3>4, RestingTypes, RequestStep
  <2> QED BY <2>1, <2>4, <2>5
<1>4. CASE Unset(r)
  <2>1. /\ req[r].phase = "unset" /\ Goes(r, "undrop")
        /\ cache' = [cache EXCEPT !["item"] = NoEntry]
        /\ UNCHANGED <<now, row, writes, until, lost>>
    BY <1>4 DEF Unset
  <2>2. \A k \in Keys : k = "list" \/ k = "item" BY DEF Keys
  <2>3. /\ cache' \in [Keys -> Entries] /\ cache'["item"] = NoEntry
        /\ cache'["list"] = cache["list"]
    BY <2>1, <1>1 DEF Keys
  <2>4. PICK q \in InFlight : /\ req' = [req EXCEPT ![r] = q]
                             /\ q.phase = "undrop" /\ CopyOK(q)
    BY <1>2, <2>1
  <2>5. Removes(q, "list") BY <2>4 DEF Removes
  <2>6. \A k \in Keys : \/ cache'[k] = NoEntry
                        \/ cache'[k] = cache[k] /\ Removes(q, k)
    BY <2>2, <2>3, <2>5
  <2> QED BY <1>t, <2>1, <2>3, <2>4, <2>6, RequestStep
<1>5. CASE CutShort(r)
  <2>1. /\ req' = [req EXCEPT ![r] = Resting] /\ lost' = TRUE
        /\ UNCHANGED <<now, row, writes, until, cache>>
    BY <1>5 DEF CutShort, Done
  <2>2. CopyOK(Resting) BY RestingTypes DEF CopyOK
  <2> QED BY <1>t, <2>1, <2>2, RestingTypes, RequestStep
<1> QED BY <1>3, <1>4, <1>5

-----------------------------------------------------------------------------
(* Steps that change the row.                                              *)

(* A value stops being the row's now, or nothing is said of it.            *)
Moved ==
    \A f \in Fields : \A v \in 0 .. MaxWrites :
        /\ until'[f][v] \in {until[f][v], now}
        /\ There(row) /\ row.value[f] = v =>
             (There(row') /\ row'.value[f] = v) \/ until'[f][v] = now

LEMMA MovedKeeps ==
    ASSUME TypeOK, Moved, NEW card \in Card, NEW from \in Int, from <= now,
           RecentIn(row, until, card, from)
    PROVE  RecentIn(row', until', card, from)
<1> SUFFICES ASSUME There(card), NEW f \in Fields
             PROVE  \/ There(row') /\ row'.value[f] = card.value[f]
                    \/ from <= until'[f][card.value[f]]
  BY DEF RecentIn
<1> DEFINE v == card.value[f]
<1>1. v \in 0 .. MaxWrites BY DEF Card
<1>2. (There(row) /\ row.value[f] = v) \/ from <= until[f][v] BY DEF RecentIn
<1>3. /\ until'[f][v] \in {until[f][v], now}
      /\ There(row) /\ row.value[f] = v =>
           (There(row') /\ row'.value[f] = v) \/ until'[f][v] = now
  BY <1>1 DEF Moved
<1> HIDE DEF v
<1> QED BY <1>2, <1>3 DEF v

LEMMA CopyAges ==
    ASSUME TypeOK, NEW q \in InFlight
    PROVE  now - q.age \in Int /\ now - q.age <= now /\ q.card \in Card
<1>1. q.age \in Nat /\ q.card \in Card BY ConstantTypes DEF InFlight
<1>2. now \in Nat BY Types
<1> QED BY <1>1, <1>2

(* create, and the write of update.                                        *)
LEMMA WriteStep ==
    ASSUME IInv, NEW r \in Requests, NEW q \in InFlight,
           req' = [req EXCEPT ![r] = q], UNCHANGED <<now, cache, lost>>,
           Moved, RowOK', row' \in Card, There(row'), writes' \in 0 .. MaxWrites,
           until' \in [Fields -> [0 .. MaxWrites -> 0 .. MaxTime]],
           q.phase = "drop", RecentIn(row', until', q.card, now - q.age)
    PROVE  IInv'
<1>t. TypeOK /\ req \in [Requests -> InFlight] /\ row'.state # "gone"
  BY Types DEF IInv, There
<1>1. \A s \in Requests : req'[s] = IF s = r THEN q ELSE req[s]
  BY <1>t
<1>2. TypeOK'
  <2>1. req' \in [Requests -> InFlight] BY <1>t
  <2> QED BY <1>t, <2>1 DEF TypeOK, InFlight
<1>3. CopiesOK'
  <2>1. ASSUME NEW s \in Requests, s # r PROVE CopyOK(req[s])'
    <3>1. req[s] \in InFlight /\ CopyOK(req[s]) /\ req'[s] = req[s]
      BY <1>t, <1>1, <2>1 DEF IInv, CopiesOK
    <3>2. /\ now - req[s].age \in Int /\ now - req[s].age <= now
          /\ req[s].card \in Card
      BY <1>t, <3>1, CopyAges
    <3>3. req[s].phase # "idle" => RecentIn(row', until', req[s].card, now - req[s].age)
      BY <1>t, <3>1, <3>2, MovedKeeps DEF CopyOK
    <3> QED BY <1>t, <3>1, <3>3 DEF CopyOK
  <2>2. CopyOK(req[r])' BY <1>t, <1>1 DEF CopyOK
  <2> QED BY <2>1, <2>2 DEF CopiesOK
<1>4. ASSUME NEW k \in Keys PROVE EntryOK(k)'
  <2>1. /\ EntryOK(k) /\ cache'[k] = cache[k] /\ cache[k] \in Entries /\ now \in Nat
    BY <1>t, Types DEF IInv
  <2>2. ASSUME cache[k].set
        PROVE  RecentIn(row', until', cache[k].card, cache[k].expires - (TTL + ReqTime))
    <3>1. /\ cache[k].expires \in Nat /\ cache[k].card \in Card
          /\ cache[k].expires <= now + TTL
      BY <2>1, <2>2 DEF Entries, EntryOK
    <3>2. /\ cache[k].expires - (TTL + ReqTime) \in Int
          /\ cache[k].expires - (TTL + ReqTime) <= now
      BY <2>1, <3>1, ConstantTypes
    <3> QED BY <1>t, <2>1, <2>2, <3>1, <3>2, MovedKeeps DEF EntryOK
  <2> QED BY <1>t, <2>1, <2>2 DEF EntryOK
<1> QED BY <1>2, <1>3, <1>4 DEF IInv

LEMMA CreateHolds ==
    ASSUME IInv, NEW r \in Requests, Create(r)
    PROVE  IInv'
<1>t. TypeOK BY DEF IInv
<1> DEFINE q == [Resting EXCEPT !.phase = "drop", !.card = row']
<1>1. /\ row.state = "unborn" /\ row' = [NoCard EXCEPT !.state = "there"]
      /\ req' = [req EXCEPT ![r] = q]
      /\ UNCHANGED <<now, writes, until, cache, lost>>
  BY DEF Create
<1>2. /\ row' \in Card /\ There(row')
      /\ \A f \in Fields : row'.value[f] = 0
  BY <1>1, NoCardTypes DEF Card, There
<1>3. q \in InFlight /\ q.phase = "drop" /\ q.card = row' /\ q.age = 0
  BY <1>2, RestingTypes DEF InFlight
<1> HIDE DEF q
<1>4. RecentIn(row', until', q.card, now - q.age) BY <1>2, <1>3 DEF RecentIn
<1>5. Moved BY <1>1 DEF Moved, There
<1>6. RowOK' BY <1>t, <1>1, <1>2, Types DEF RowOK, There
<1> QED BY <1>t, <1>1, <1>2, <1>3, <1>4, <1>5, <1>6, Types, WriteStep

LEMMA UpdateHolds ==
    ASSUME IInv, NEW r \in Requests, Update(r)
    PROVE  IInv'
<1>t. /\ TypeOK /\ req \in [Requests -> InFlight] /\ req[r] \in InFlight
      /\ row \in Card /\ row.value \in [Fields -> 0 .. MaxWrites]
      /\ until \in [Fields -> [0 .. MaxWrites -> 0 .. MaxTime]]
      /\ writes \in Nat /\ now \in 0 .. MaxTime
      /\ cache \in [Keys -> Entries] /\ lost \in BOOLEAN
  BY Types DEF IInv
<1>r. CopyOK(req[r]) BY DEF IInv, CopiesOK
<1>u. req[r].phase = "update" /\ UNCHANGED <<now, cache, lost>> BY DEF Update
<1>1. CASE ~There(row)
  <2>1. req' = [req EXCEPT ![r] = Resting] /\ UNCHANGED <<row, writes, until>>
    BY <1>1 DEF Update, Done
  <2>2. CopyOK(Resting) BY RestingTypes DEF CopyOK
  <2> QED BY <1>t, <1>u, <2>1, <2>2, RestingTypes, RequestStep DEF Removes
<1>2. CASE There(row)
  <2> DEFINE g == req[r].field
             old == row.value[g]
             q == [req[r] EXCEPT !.phase = "drop", !.field = Resting.field,
                                 !.card.value[req[r].field] = writes + 1]
  <2>1. /\ writes < MaxWrites /\ writes' = writes + 1
        /\ row' = [row EXCEPT !.value[g] = writes + 1]
        /\ until' = [until EXCEPT ![g][old] = now]
    BY <1>2 DEF Update, Written
  <2>2. req' = [req EXCEPT ![r] = q] BY <1>2, <1>t DEF Update
  <2>3. /\ g \in Fields /\ old \in 0 .. MaxWrites /\ writes + 1 \in 0 .. MaxWrites
    BY <1>t, <2>1, ConstantTypes DEF InFlight
  <2>4. /\ row' \in Card /\ row'.state = row.state /\ row'.value[g] = writes + 1
        /\ \A f \in Fields \ {g} : row'.value[f] = row.value[f]
    BY <1>t, <2>1, <2>3 DEF Card
  <2>5. /\ until' \in [Fields -> [0 .. MaxWrites -> 0 .. MaxTime]]
        /\ \A f \in Fields : \A v \in 0 .. MaxWrites :
             until'[f][v] = IF f = g /\ v = old THEN now ELSE until[f][v]
    BY <1>t, <2>1, <2>3
  <2>6. req[r].card \in Card /\ req[r].card.value \in [Fields -> 0 .. MaxWrites]
    BY <1>t DEF InFlight, Card
  <2>7. /\ q \in InFlight /\ q.phase = "drop" /\ q.age = req[r].age
        /\ q.card.state = req[r].card.state /\ q.card.value[g] = writes + 1
        /\ \A f \in Fields \ {g} : q.card.value[f] = req[r].card.value[f]
    <3> DEFINE c == [req[r].card EXCEPT !.value[g] = writes + 1]
    <3>1. /\ c \in Card /\ c.state = req[r].card.state /\ c.value[g] = writes + 1
          /\ \A f \in Fields \ {g} : c.value[f] = req[r].card.value[f]
      BY <2>3, <2>6 DEF Card
    <3>2. q = [req[r] EXCEPT !.phase = "drop", !.field = Resting.field, !.card = c]
      BY <1>t DEF InFlight
    <3> HIDE DEF c, q, g
    <3> QED BY <1>t, <3>1, <3>2, RestingTypes DEF InFlight
  <2> HIDE DEF g, old, q
  <2>8. Moved BY <2>3, <2>4, <2>5 DEF Moved, There, old
  <2>9. RowOK'
    <3>1. \A f \in Fields : row.value[f] <= writes /\ row.value[f] \in Nat
      BY <1>t, ConstantTypes DEF IInv, RowOK
    <3>2. row'.state = "there" BY <1>2, <2>4 DEF There
    <3> QED BY <1>t, <2>1, <2>3, <2>4, <3>1, <3>2, SMTT(30) DEF RowOK
  <2>10. RecentIn(row', until', q.card, now - q.age)
    <3>1. RecentIn(row, until, req[r].card, now - req[r].age) BY <1>r, <1>u DEF CopyOK
    <3>2. now - req[r].age \in Int /\ now - req[r].age <= now BY <1>t, CopyAges
    <3>3. RecentIn(row', until', req[r].card, now - req[r].age)
      BY <1>t, <2>6, <2>8, <3>1, <3>2, MovedKeeps
    <3> QED BY <1>2, <2>3, <2>4, <2>7, <3>3 DEF RecentIn, There
  <2> QED BY <1>t, <1>u, <1>2, <2>1, <2>2, <2>3, <2>4, <2>5, <2>7, <2>8, <2>9, <2>10,
             WriteStep DEF There
<1> QED BY <1>1, <1>2

(* Whoever removes the card tells the requests under way by it.            *)
LEMMA RemoveHolds ==
    ASSUME IInv, NEW r \in Requests, Remove(r)
    PROVE  IInv'
<1>t. /\ TypeOK /\ req \in [Requests -> InFlight] /\ req[r] \in InFlight
      /\ row \in Card /\ row.value \in [Fields -> 0 .. MaxWrites]
      /\ until \in [Fields -> [0 .. MaxWrites -> 0 .. MaxTime]]
      /\ now \in 0 .. MaxTime /\ now \in Nat
  BY Types DEF IInv
<1>1. /\ req[r].phase = "remove" /\ row' = Gone(row)
      /\ until' = IF There(row)
                  THEN [f \in Fields |-> [until[f] EXCEPT ![row.value[f]] = now]]
                  ELSE until
      /\ req' = [q \in Requests |->
                   IF q = r THEN [req[q] EXCEPT !.phase = "unset"]
                   ELSE [req[q] EXCEPT !.crossed = req[q].phase # "idle"]]
      /\ UNCHANGED <<now, writes, cache, lost>>
  BY DEF Remove
<1>2. row' \in Card /\ row'.state = "gone" /\ row'.value = row.value
  BY <1>t, <1>1 DEF Gone, Card
<1>3. /\ until' \in [Fields -> [0 .. MaxWrites -> 0 .. MaxTime]]
      /\ \A f \in Fields : \A v \in 0 .. MaxWrites :
           until'[f][v] = IF There(row) /\ v = row.value[f] THEN now ELSE until[f][v]
  <2>1. CASE There(row) BY <1>t, <1>1, <2>1
  <2>2. CASE ~There(row) BY <1>t, <1>1, <2>2
  <2> QED BY <2>1, <2>2
<1>4. Moved BY <1>3 DEF Moved
<1>5. ASSUME NEW s \in Requests
      PROVE  /\ req'[s] \in InFlight
             /\ req'[s].card = req[s].card /\ req'[s].age = req[s].age
             /\ s = r => req'[s].phase = "unset"
             /\ s # r => /\ req'[s].phase = req[s].phase
                         /\ req'[s].crossed = (req[s].phase # "idle")
  <2>1. req[s] \in InFlight BY <1>t
  <2>2. (req[s].phase # "idle") \in BOOLEAN OBVIOUS
  <2>3. CASE s = r BY <1>1, <2>1, <2>3 DEF InFlight
  <2>4. CASE s # r
    <3>1. req'[s] = [req[s] EXCEPT !.crossed = req[s].phase # "idle"]
      BY <1>1, <2>4
    <3> QED BY <2>1, <2>2, <2>4, <3>1 DEF InFlight
  <2> QED BY <2>3, <2>4
<1>6. TypeOK'
  <2>1. req' \in [Requests -> InFlight]
    <3> DEFINE told(q) == IF q = r THEN [req[q] EXCEPT !.phase = "unset"]
                          ELSE [req[q] EXCEPT !.crossed = req[q].phase # "idle"]
    <3>1. req' = [q \in Requests |-> told(q)] BY <1>1
    <3> HIDE DEF told
    <3>2. \A q \in Requests : req'[q] = told(q) BY <3>1
    <3>3. \A q \in Requests : told(q) \in InFlight BY <1>5, <3>2
    <3> QED BY <3>1, <3>3
  <2> QED BY <1>t, <1>1, <1>2, <1>3, <2>1 DEF TypeOK, InFlight
<1>7. RowOK' BY <1>1, <1>2 DEF IInv, RowOK
<1>8. CopiesOK'
  <2> SUFFICES ASSUME NEW s \in Requests PROVE CopyOK(req[s])'
    BY DEF CopiesOK
  <2>1. req[s] \in InFlight /\ CopyOK(req[s]) BY <1>t DEF IInv, CopiesOK
  <2>2. /\ now - req[s].age \in Int /\ now - req[s].age <= now /\ req[s].card \in Card
    BY <1>t, <2>1, CopyAges
  <2>3. req[s].phase # "idle" => RecentIn(row', until', req[s].card, now - req[s].age)
    BY <1>t, <1>4, <2>1, <2>2, MovedKeeps DEF CopyOK
  <2>4. CASE s = r
    <3>1. ~There(req[r].card) /\ req[r].phase # "idle" BY <1>1, <2>1, <2>4 DEF CopyOK
    <3> QED BY <1>1, <1>5, <2>3, <2>4, <3>1 DEF CopyOK
  <2>5. CASE s # r
    <3>1. /\ req'[s].card = req[s].card /\ req'[s].age = req[s].age
          /\ req'[s].phase = req[s].phase
          /\ req[s].phase # "idle" => req'[s].crossed
      BY <1>5, <2>5
    <3>2. now' = now BY <1>1
    <3>3. req'[s].phase # "idle" =>
             RecentIn(row', until', req'[s].card, now' - req'[s].age)
      BY <2>3, <3>1, <3>2
    <3> QED BY <2>1, <3>1, <3>3 DEF CopyOK
  <2> QED BY <2>4, <2>5
<1>9. ASSUME NEW k \in Keys PROVE EntryOK(k)'
  <2>1. /\ EntryOK(k) /\ cache'[k] = cache[k] /\ cache[k] \in Entries
    BY <1>t, <1>1, Types DEF IInv
  <2>2. ASSUME cache[k].set
        PROVE  RecentIn(row', until', cache[k].card, cache[k].expires - (TTL + ReqTime))
    <3>1. /\ cache[k].expires \in Nat /\ cache[k].card \in Card
          /\ cache[k].expires <= now + TTL
      BY <2>1, <2>2 DEF Entries, EntryOK
    <3>2. /\ cache[k].expires - (TTL + ReqTime) \in Int
          /\ cache[k].expires - (TTL + ReqTime) <= now
      BY <1>t, <3>1, ConstantTypes
    <3> QED BY <1>t, <1>4, <2>1, <2>2, <3>1, <3>2, MovedKeeps DEF EntryOK
  <2>3. Removes(req'[r], k) BY <1>5 DEF Removes
  <2> QED BY <1>1, <2>1, <2>2, <2>3 DEF EntryOK
<1> QED BY <1>6, <1>7, <1>8, <1>9 DEF IInv

LEMMA TickHolds ==
    ASSUME IInv, Tick
    PROVE  IInv'
<1>t. /\ TypeOK /\ req \in [Requests -> InFlight] /\ now \in Nat
      /\ cache \in [Keys -> Entries]
  BY Types DEF IInv
<1>1. /\ now < MaxTime /\ now' = now + 1
      /\ \A r \in Requests : req[r].phase # "idle" => req[r].age < ReqTime
      /\ req' = [r \in Requests |->
                   IF req[r].phase = "idle" THEN Resting
                   ELSE [req[r] EXCEPT !.age = @ + 1]]
      /\ UNCHANGED <<row, writes, until, cache, lost>>
  BY DEF Tick
<1> DEFINE older(r) == IF req[r].phase = "idle" THEN Resting
                       ELSE [req[r] EXCEPT !.age = @ + 1]
<1>2. ASSUME NEW r \in Requests
      PROVE  /\ older(r) \in InFlight
             /\ older(r).phase = req[r].phase
             /\ req[r].phase # "idle" => /\ older(r).card = req[r].card
                                         /\ older(r).crossed = req[r].crossed
                                         /\ older(r).age = req[r].age + 1
  <2>1. CASE req[r].phase = "idle" BY <2>1, RestingTypes
  <2>2. CASE req[r].phase # "idle"
    <3>1. req[r] \in InFlight /\ req[r].age \in Nat
      BY <1>t, ConstantTypes DEF InFlight
    <3>2. req[r].age + 1 \in 0 .. ReqTime BY <1>1, <2>2, <3>1, ConstantTypes
    <3> QED BY <2>2, <3>1, <3>2 DEF InFlight
  <2> QED BY <2>1, <2>2
<1>3. req' = [r \in Requests |-> older(r)] BY <1>1
<1> HIDE DEF older
<1>4. req' \in [Requests -> InFlight] BY <1>2, <1>3
<1>5. TypeOK'
  <2>1. now' \in 0 .. MaxTime BY <1>t, <1>1, ConstantTypes
  <2> QED BY <1>t, <1>1, <1>4, <2>1 DEF TypeOK, InFlight
<1>6. RowOK' BY <1>1 DEF IInv, RowOK
<1>7. CopiesOK'
  <2> SUFFICES ASSUME NEW r \in Requests PROVE CopyOK(req[r])'
    BY DEF CopiesOK
  <2>1. CopyOK(req[r]) /\ req'[r] = older(r) BY <1>3 DEF IInv, CopiesOK
  <2>2. CASE req[r].phase = "idle" BY <1>2, <2>1, <2>2 DEF CopyOK
  <2>3. CASE req[r].phase # "idle"
    <3>1. req[r].age \in Nat BY <1>t, ConstantTypes DEF InFlight
    <3>2. now + 1 - (req[r].age + 1) = now - req[r].age BY <1>t, <3>1
    <3>3. RecentIn(row, until, req[r].card, now + 1 - (req[r].age + 1))
      BY <2>1, <2>3, <3>2 DEF CopyOK
    <3>4. /\ req'[r].phase = req[r].phase /\ req'[r].card = req[r].card
          /\ req'[r].crossed = req[r].crossed /\ req'[r].age = req[r].age + 1
      BY <1>2, <2>1, <2>3
    <3>5. now' - req'[r].age = now + 1 - (req[r].age + 1)
        BY <1>t, <1>1, <3>1, <3>4, SMTT(30)
    <3>6. RecentIn(row', until', req'[r].card, now' - req'[r].age)
      BY <1>1, <3>3, <3>4, <3>5
    <3> QED BY <1>1, <2>1, <2>3, <3>4, <3>6 DEF CopyOK
  <2> QED BY <2>2, <2>3
<1>8. ASSUME NEW k \in Keys PROVE EntryOK(k)'
  <2>1. EntryOK(k) /\ (cache[k].set => cache[k].expires <= now + 1 + TTL)
    <3>1. EntryOK(k) /\ cache[k].expires \in Nat BY <1>t DEF IInv, Entries
    <3> QED BY <1>t, <3>1, ConstantTypes DEF EntryOK
  <2>2. (\E r \in Requests : Removes(req[r], k)) => \E r \in Requests : Removes(req'[r], k)
    BY <1>2, <1>3 DEF Removes
  <2> QED BY <1>1, <2>1, <2>2 DEF EntryOK
<1> QED BY <1>5, <1>6, <1>7, <1>8 DEF IInv

-----------------------------------------------------------------------------
LEMMA StepHolds == IInv /\ [Next]_vars => IInv'
<1> SUFFICES ASSUME IInv, [Next]_vars PROVE IInv'
  OBVIOUS
<1>1. ASSUME NEW r \in Requests, ReadMiss(r) \/ Get(r) \/ StorePage(r) \/ StoreItem(r)
      PROVE  IInv'
  BY <1>1, ReadingHolds
<1>2. ASSUME NEW r \in Requests, DropList(r) \/ Unset(r) \/ CutShort(r)
      PROVE  IInv'
  BY <1>2, DroppingHolds
<1>3. ASSUME NEW r \in Requests, Create(r) PROVE IInv'
  BY <1>3, CreateHolds
<1>4. ASSUME NEW r \in Requests, Update(r) PROVE IInv'
  BY <1>4, UpdateHolds
<1>5. ASSUME NEW r \in Requests, Remove(r) PROVE IInv'
  BY <1>5, RemoveHolds
<1>6. CASE Tick BY <1>6, TickHolds
<1>7. CASE UNCHANGED vars
  BY <1>7 DEF vars, IInv, TypeOK, RowOK, CopiesOK, CopyOK, EntryOK
<1> QED BY <1>1, <1>2, <1>3, <1>4, <1>5, <1>6, <1>7 DEF Next

LEMMA Invariance == Spec => []IInv
<1>1. IInv /\ [Next]_vars => IInv' BY StepHolds
<1> QED BY <1>1, InitHolds, PTL DEF Spec

(* Every variable keeps its type.                                          *)
THEOREM Typing == Spec => []TypeOK
<1>1. IInv => TypeOK BY DEF IInv
<1> QED BY <1>1, Invariance, PTL

(* Each field the cache shows was the row's no longer ago than a TTL and   *)
(* the time a request takes, whatever updates, removals and failures cross.*)
THEOREM Recent == Spec => []FieldsRecent
<1>1. IInv => FieldsRecent
  <2> SUFFICES ASSUME IInv, NEW k \in Keys, Hit(k), There(cache[k].card), NEW f \in Fields,
                      ~(There(row) /\ row.value[f] = cache[k].card.value[f])
               PROVE  now < until[f][cache[k].card.value[f]] + TTL + ReqTime
    BY DEF FieldsRecent
  <2> DEFINE u == until[f][cache[k].card.value[f]]
  <2>1. /\ cache[k] \in Entries /\ now \in Nat
        /\ until \in [Fields -> [0 .. MaxWrites -> 0 .. MaxTime]]
    BY Types DEF IInv
  <2>2. cache[k].expires \in Nat /\ cache[k].card.value[f] \in 0 .. MaxWrites
    BY <2>1 DEF Entries, Card
  <2>3. u \in Nat BY <2>1, <2>2, ConstantTypes
  <2>4. cache[k].set /\ now < cache[k].expires BY DEF Hit
  <2>5. cache[k].expires - (TTL + ReqTime) <= u BY <2>4 DEF IInv, EntryOK, RecentIn
  <2> HIDE DEF u
  <2>6. now < u + TTL + ReqTime BY <2>1, <2>2, <2>3, <2>4, <2>5, ConstantTypes
  <2> QED BY <2>6 DEF u
<1> QED BY <1>1, Invariance, PTL

(* A removed card that the cache still shows was put there by a request    *)
(* that was under way at its removal, once nobody is cut short.            *)
THEOREM Shown == Spec => []ShownOnlyByCrossing
<1>1. IInv => ShownOnlyByCrossing
  <2> SUFFICES ASSUME IInv, Quiet, row.state = "gone", NEW k \in Keys,
                      Hit(k), There(cache[k].card)
               PROVE  cache[k].crossed
    BY DEF ShownOnlyByCrossing
  <2>1. ~lost /\ \A r \in Requests : ~Removes(req[r], k) BY DEF Quiet, Removes
  <2> QED BY <2>1 DEF IInv, EntryOK, Hit
<1> QED BY <1>1, Invariance, PTL

(* What FieldsForward asks of a step.                                      *)
Forward == \A f \in Fields : row'.value[f] >= row.value[f]

(* No commit takes a field of the card back to an earlier value.           *)
THEOREM NoFieldLost == Spec => FieldsForward
<1>1. IInv /\ [Next]_vars => [Forward]_vars
  <2> SUFFICES ASSUME IInv, [Next]_vars PROVE Forward \/ UNCHANGED vars
    OBVIOUS
  <2>t. /\ TypeOK /\ row \in Card /\ writes \in Nat
        /\ \A f \in Fields : row.value[f] \in Nat
    BY Types, ConstantTypes DEF IInv
  <2>1. ASSUME row'.value = row.value PROVE Forward BY <2>t, <2>1 DEF Forward
  <2>2. ASSUME NEW r \in Requests, Create(r) PROVE Forward
    <3>1. \A f \in Fields : row.value[f] = 0 BY <2>2 DEF Create, IInv, RowOK
    <3>2. row'.value = NoCard.value BY <2>2 DEF Create, NoCard
    <3> QED BY <2>t, <3>1, <3>2, NoCardTypes DEF Forward
  <2>3. ASSUME NEW r \in Requests, Update(r) PROVE Forward
    <3>1. CASE ~There(row) BY <2>1, <2>3, <3>1 DEF Update
    <3>2. CASE There(row)
      <4>1. row' = [row EXCEPT !.value[req[r].field] = writes + 1]
        BY <2>3, <3>2 DEF Update, Written
      <4>2. \A f \in Fields : row'.value[f] = writes + 1 \/ row'.value[f] = row.value[f]
        BY <2>t, <4>1 DEF Card
      <4>3. \A f \in Fields : row.value[f] <= writes BY DEF IInv, RowOK
      <4> QED BY <2>t, <4>2, <4>3 DEF Forward
    <3> QED BY <3>1, <3>2
  <2>4. ASSUME NEW r \in Requests, Remove(r) PROVE Forward
    <3>1. row'.value = row.value BY <2>t, <2>4 DEF Remove, Gone, Card
    <3> QED BY <2>1, <3>1
  <2>5. CASE UNCHANGED row
    BY <2>1, <2>5
  <2> QED BY <2>2, <2>3, <2>4, <2>5
        DEF Next, ReadMiss, StorePage, Get, DropList, StoreItem, Unset, CutShort, Tick
<1>2. [Forward]_vars => [\A f \in Fields : row'.value[f] >= row.value[f]]_vars
  BY DEF Forward
<1> QED BY <1>1, <1>2, Invariance, PTL DEF Spec, FieldsForward
=============================================================================
