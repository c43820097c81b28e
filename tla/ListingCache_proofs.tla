-------------------------- MODULE ListingCache_proofs --------------------------
(***************************************************************************)
(* Proofs about ListingCache, for any number of requests in flight, any    *)
(* TTL, any refresh intervals and any bounds on loads and on the clock.    *)
(***************************************************************************)
EXTENDS ListingCache, TLAPS

Reading == {"target", "enqueue", "store"}

(* What a request has read was the database's, and was not due, when it was*)
(* read: no earlier than the request began.                                *)
ReadersOK ==
    \A r \in Readers :
        /\ reader[r].phase \in Reading =>
             /\ reader[r].version <= version
             /\ reader[r].version < version =>
                  /\ reader[r].crossed
                  /\ now <= superseded[reader[r].version] + reader[r].age
        /\ reader[r].phase = "store" /\ target.card /\ target.enabled =>
             now <= target.due + reader[r].age

(* So was what is cached, at most a request before it was stored.          *)
EntryOK ==
    cache.set =>
        /\ cache.expires <= now + TTL
        /\ cache.version <= version
        /\ cache.version < version =>
             /\ cache.expires <= superseded[cache.version] + TTL + ReqTime
             /\ cache.crossed \/ worker # "idle" \/ missed
        /\ target.card /\ target.enabled => cache.expires <= target.due + TTL + ReqTime

IInv == TypeOK /\ ReadersOK /\ EntryOK

Requests ==
    [phase : {"idle", "listings", "target", "enqueue", "store"},
     version : 0 .. MaxLoads, age : 0 .. ReqTime, crossed : BOOLEAN]

LEMMA ConstantTypes ==
    TTL \in Nat /\ ReqTime \in Nat /\ MaxLoads \in Nat /\ MaxTime \in Nat
<1>1. /\ ReqTime \in {ReqTime, MaxLoads, MaxTime}
      /\ MaxLoads \in {ReqTime, MaxLoads, MaxTime}
      /\ MaxTime \in {ReqTime, MaxLoads, MaxTime}
  OBVIOUS
<1> QED BY <1>1, CacheAssumption

(* TypeOK, by the parts the proofs use.                                    *)
LEMMA Types ==
    ASSUME TypeOK
    PROVE  /\ now \in Nat /\ version \in Nat /\ target.due \in Nat
           /\ version \in 0 .. MaxLoads
           /\ cache.version \in 0 .. MaxLoads /\ cache.expires \in Nat
           /\ cache.set \in BOOLEAN /\ cache.crossed \in BOOLEAN
           /\ superseded \in [0 .. MaxLoads -> 0 .. MaxTime]
           /\ \A v \in 0 .. MaxLoads : superseded[v] \in Nat
           /\ reader \in [Readers -> Requests]
           /\ \A r \in Readers : /\ reader[r] \in Requests
                                 /\ reader[r].version \in 0 .. MaxLoads
                                 /\ reader[r].age \in Nat
                                 /\ reader[r].age <= ReqTime
  BY ConstantTypes DEF TypeOK, Requests

LEMMA RestingTypes == Resting \in Requests /\ Resting.phase = "idle"
<1>1. 0 \in 0 .. MaxLoads /\ 0 \in 0 .. ReqTime BY ConstantTypes
<1> QED BY <1>1 DEF Resting, Requests

LEMMA InitHolds == Init => IInv
<1> SUFFICES ASSUME Init PROVE IInv
  OBVIOUS
<1>1. /\ 0 \in 0 .. MaxLoads /\ 0 \in 0 .. MaxTime /\ MaxTime \in 0 .. MaxTime
      /\ 0 \in Nat
  BY ConstantTypes
<1>2. reader \in [Readers -> Requests] BY RestingTypes DEF Init
<1>3. NoEntry \in [set : BOOLEAN, version : 0 .. MaxLoads, expires : Nat,
                   crossed : BOOLEAN]
  BY <1>1 DEF NoEntry
<1>4. TypeOK BY <1>1, <1>2, <1>3 DEF Init, TypeOK, Requests
<1>5. ReadersOK BY RestingTypes DEF Init, ReadersOK, Reading
<1>6. EntryOK BY DEF Init, EntryOK, NoEntry
<1> QED BY <1>4, <1>5, <1>6 DEF IInv

(* One request goes on, and the entry stays as it is.                      *)
LEMMA OneRequest ==
    ASSUME IInv, NEW r \in Readers, NEW q \in Requests,
           reader' = [reader EXCEPT ![r] = q],
           UNCHANGED <<now, version, superseded, target, cache, worker, missed>>,
           job' \in BOOLEAN,
           q.phase \in Reading =>
             /\ q.version <= version
             /\ q.version < version =>
                  /\ q.crossed
                  /\ now <= superseded[q.version] + q.age,
           q.phase = "store" /\ target.card /\ target.enabled =>
             now <= target.due + q.age
    PROVE  IInv'
<1>1. TypeOK' BY DEF IInv, TypeOK, Requests
<1>2. \A s \in Readers : reader'[s] = IF s = r THEN q ELSE reader[s]
  BY Types DEF IInv
<1>3. ReadersOK' BY <1>2 DEF IInv, ReadersOK
<1>4. EntryOK' BY DEF IInv, EntryOK
<1> QED BY <1>1, <1>3, <1>4 DEF IInv

-----------------------------------------------------------------------------
(* The steps of a request.                                                 *)

LEMMA RequestHolds ==
    ASSUME IInv, NEW r \in Readers,
           Ask(r) \/ ReadListings(r) \/ ReadTarget(r) \/ Enqueue(r)
    PROVE  IInv'
<1> USE DEF Reading
<1>t. /\ TypeOK /\ reader[r] \in Requests /\ reader \in [Readers -> Requests]
      /\ job \in BOOLEAN
  BY Types DEF IInv, TypeOK
<1>1. CASE Ask(r)
  <2> DEFINE q == [Resting EXCEPT !.phase = "listings"]
  <2>1. q \in Requests /\ q.phase = "listings" BY RestingTypes DEF Requests
  <2>2. reader' = [reader EXCEPT ![r] = q] BY <1>1 DEF Ask
  <2> HIDE DEF q
  <2> QED BY <1>1, <1>t, <2>1, <2>2, OneRequest DEF Ask
<1>2. CASE ReadListings(r)
  <2> DEFINE q == [reader[r] EXCEPT !.phase = IF target.card THEN "target" ELSE "store",
                                    !.version = version]
  <2>1. reader' = [reader EXCEPT ![r] = q] BY <1>2, <1>t DEF ReadListings
  <2>2. version \in 0 .. MaxLoads /\ version <= version /\ ~(version < version)
    BY <1>t, Types
  <2>3. /\ q \in Requests /\ q.version = version
        /\ q.phase = IF target.card THEN "target" ELSE "store"
    BY <1>t, <2>2 DEF Requests
  <2> HIDE DEF q
  <2> QED BY <1>2, <1>t, <2>1, <2>2, <2>3, OneRequest DEF ReadListings
<1>3. CASE ReadTarget(r)
  <2> DEFINE q == [reader[r] EXCEPT !.phase = IF Overdue \/ ~target.card
                                              THEN "enqueue" ELSE "store"]
  <2>1. reader' = [reader EXCEPT ![r] = q] /\ reader[r].phase = "target"
    BY <1>3, <1>t DEF ReadTarget
  <2>2. /\ q \in Requests /\ q.version = reader[r].version
        /\ q.crossed = reader[r].crossed /\ q.age = reader[r].age
        /\ q.phase = IF Overdue \/ ~target.card THEN "enqueue" ELSE "store"
    BY <1>t DEF Requests
  <2> HIDE DEF q
  <2>3. q.phase = "store" /\ target.card /\ target.enabled => now <= target.due + q.age
    BY <1>t, <2>2, Types DEF Overdue
  <2> QED BY <1>3, <1>t, <2>1, <2>2, <2>3, OneRequest, ZenonT(40) DEF ReadTarget, IInv, ReadersOK
<1>4. CASE Enqueue(r)
  <2>1. job' \in BOOLEAN BY <1>4 DEF Enqueue
  <2> QED BY <1>4, <2>1, RestingTypes, OneRequest DEF Enqueue
<1> QED BY <1>1, <1>2, <1>3, <1>4

LEMMA StoreHolds ==
    ASSUME IInv, NEW r \in Readers, Store(r)
    PROVE  IInv'
<1>t. /\ TypeOK /\ reader[r] \in Requests /\ reader \in [Readers -> Requests]
  BY Types DEF IInv
<1> DEFINE e == [set |-> TRUE, version |-> reader[r].version,
                 expires |-> now + TTL, crossed |-> reader[r].crossed]
<1>1. /\ reader[r].phase = "store" /\ cache' = e
      /\ reader' = [reader EXCEPT ![r] = Resting]
      /\ UNCHANGED <<now, version, superseded, target, job, worker, missed>>
  BY DEF Store
<1>2. now + TTL \in Nat BY <1>t, Types, ConstantTypes
<1>3. e \in [set : BOOLEAN, version : 0 .. MaxLoads, expires : Nat, crossed : BOOLEAN]
  BY <1>t, <1>2 DEF Requests
<1>4. TypeOK'
  <2>1. reader' \in [Readers -> Requests] BY <1>t, <1>1, RestingTypes
  <2> QED BY <1>t, <1>1, <1>3, <2>1 DEF TypeOK, Requests
<1>5. ReadersOK'
  <2>1. \A s \in Readers : reader'[s] = IF s = r THEN Resting ELSE reader[s]
    BY <1>t, <1>1
  <2> QED BY <1>1, <2>1, RestingTypes DEF IInv, ReadersOK, Reading
<1>6. EntryOK'
  <2>1. /\ reader[r].version <= version
        /\ reader[r].version < version =>
             /\ reader[r].crossed
             /\ now <= superseded[reader[r].version] + reader[r].age
        /\ target.card /\ target.enabled => now <= target.due + reader[r].age
    BY <1>1 DEF IInv, ReadersOK, Reading
  <2>t. /\ reader[r].version \in 0 .. MaxLoads /\ reader[r].age \in Nat
        /\ reader[r].age <= ReqTime /\ version \in Nat /\ now \in Nat
        /\ target.due \in Nat /\ superseded[reader[r].version] \in Nat
    BY <1>t, Types
  <2>2. reader[r].version < version =>
           now + TTL <= superseded[reader[r].version] + TTL + ReqTime
    BY <2>t, <2>1, ConstantTypes
  <2>3. target.card /\ target.enabled => now + TTL <= target.due + TTL + ReqTime
    BY <2>t, <2>1, ConstantTypes
  <2>4. now + TTL <= now + TTL BY <1>2
  <2>5. /\ cache'.expires = now + TTL /\ cache'.version = reader[r].version
        /\ cache'.crossed = reader[r].crossed
    BY <1>1
  <2> QED BY <1>1, <2>1, <2>2, <2>3, <2>4, <2>5 DEF EntryOK
<1> QED BY <1>4, <1>5, <1>6 DEF IInv

-----------------------------------------------------------------------------
(* The steps of the worker, of the queue and of the catalogue.             *)

LEMMA LoadHolds ==
    ASSUME IInv, Load
    PROVE  IInv'
<1>t. TypeOK BY DEF IInv
<1>1. PICK interval \in Intervals : target' = [target EXCEPT !.due = now + interval]
  BY DEF Load
<1>2. /\ version < MaxLoads /\ version' = version + 1 /\ job' = FALSE
      /\ superseded' = [superseded EXCEPT ![version] = now]
      /\ reader' = [r \in Readers |->
                       IF reader[r].phase = "idle" THEN Resting
                       ELSE [reader[r] EXCEPT !.crossed = TRUE]]
      /\ worker' = "scan" /\ UNCHANGED <<now, cache, missed>>
  BY DEF Load
<1>3. /\ interval \in Nat /\ now + interval \in Nat /\ now <= now + interval
      /\ target \in [card : BOOLEAN, enabled : BOOLEAN, due : Nat]
      /\ now \in 0 .. MaxTime /\ version + 1 \in 0 .. MaxLoads
  BY <1>t, <1>2, CacheAssumption, ConstantTypes, SMTT(30) DEF TypeOK
<1>4. /\ target' \in [card : BOOLEAN, enabled : BOOLEAN, due : Nat]
      /\ target'.due = now + interval
  BY <1>1, <1>3
<1>5. /\ superseded' \in [0 .. MaxLoads -> 0 .. MaxTime]
      /\ superseded'[version] = now
      /\ \A v \in 0 .. MaxLoads : v # version => superseded'[v] = superseded[v]
  BY <1>t, <1>2, <1>3, Types
<1>6. \A r \in Readers :
         /\ reader'[r] \in Requests
         /\ reader'[r].phase = reader[r].phase
         /\ reader[r].phase # "idle" => /\ reader'[r].crossed
                                        /\ reader'[r].version = reader[r].version
                                        /\ reader'[r].age = reader[r].age
  BY <1>t, <1>2, Types, RestingTypes DEF Requests
<1>7. reader' \in [Readers -> Requests]
  <2>1. \A r \in Readers :
           (IF reader[r].phase = "idle" THEN Resting
            ELSE [reader[r] EXCEPT !.crossed = TRUE]) \in Requests
    BY <1>t, Types, RestingTypes DEF Requests
  <2> QED BY <1>2, <2>1, Zenon
<1>8. TypeOK' BY <1>t, <1>2, <1>3, <1>4, <1>5, <1>7 DEF TypeOK, Requests
<1>9. ReadersOK'
  <2> SUFFICES ASSUME NEW r \in Readers, reader[r].phase \in Reading
               PROVE  /\ reader[r].version <= version + 1
                      /\ now <= superseded'[reader[r].version] + reader[r].age
                      /\ now <= now + interval + reader[r].age
    BY <1>1, <1>2, <1>4, <1>6, ZenonT(40) DEF ReadersOK, Reading
  <2>1. /\ reader[r].version \in 0 .. MaxLoads /\ reader[r].age \in Nat
        /\ version \in Nat /\ now \in Nat /\ now + interval \in Nat
        /\ superseded[reader[r].version] \in Nat
    BY <1>t, <1>3, Types
  <2>2. /\ reader[r].version <= version
        /\ reader[r].version < version =>
             now <= superseded[reader[r].version] + reader[r].age
    BY DEF IInv, ReadersOK
  <2>3. CASE reader[r].version = version BY <1>3, <1>5, <2>1, <2>3
  <2>4. CASE reader[r].version # version
    <3>1. superseded'[reader[r].version] = superseded[reader[r].version]
      BY <1>5, <2>1, <2>4
    <3>2. reader[r].version < version /\ reader[r].version <= version + 1
      BY <2>1, <2>2, <2>4, ConstantTypes
    <3>3. now <= superseded'[reader[r].version] + reader[r].age BY <2>2, <3>1, <3>2
    <3>4. now <= now + interval + reader[r].age BY <1>3, <2>1
    <3> QED BY <3>2, <3>3, <3>4
  <2> QED BY <2>3, <2>4
<1>10. EntryOK'
  <2> SUFFICES ASSUME cache.set
               PROVE  /\ cache.expires <= now + TTL
                      /\ cache.version <= version + 1
                      /\ cache.expires <= superseded'[cache.version] + TTL + ReqTime
                      /\ cache.expires <= now + interval + TTL + ReqTime
    BY <1>2, <1>4 DEF EntryOK
  <2>1. /\ cache.version \in 0 .. MaxLoads /\ cache.expires \in Nat
        /\ version \in Nat /\ now \in Nat /\ now + interval \in Nat
        /\ superseded[cache.version] \in Nat
    BY <1>t, <1>3, Types
  <2>2. /\ cache.expires <= now + TTL
        /\ cache.version <= version
        /\ cache.version < version =>
             cache.expires <= superseded[cache.version] + TTL + ReqTime
    BY DEF IInv, EntryOK
  <2>3. CASE cache.version = version
    BY <1>3, <1>5, <2>1, <2>2, <2>3, ConstantTypes
  <2>4. CASE cache.version # version
    <3>1. superseded'[cache.version] = superseded[cache.version]
      BY <1>5, <2>1, <2>4
    <3> QED BY <1>3, <2>1, <2>2, <2>4, <3>1, ConstantTypes
  <2> QED BY <2>3, <2>4
<1> QED BY <1>8, <1>9, <1>10 DEF IInv

(* The entry is deleted, or its deletion comes closer or never comes.      *)
LEMMA InvalidationHolds ==
    ASSUME IInv, Scan \/ Delete \/ InvalidationLost
    PROVE  IInv'
<1>1. CASE Scan
  BY <1>1 DEF Scan, IInv, TypeOK, ReadersOK, EntryOK
<1>2. CASE Delete
  <2>1. 0 \in 0 .. MaxLoads BY ConstantTypes
  <2>2. NoEntry \in [set : BOOLEAN, version : 0 .. MaxLoads, expires : Nat,
                     crossed : BOOLEAN]
    BY <2>1 DEF NoEntry
  <2>3. TypeOK' BY <1>2, <2>2 DEF Delete, IInv, TypeOK
  <2> QED BY <1>2, <2>3 DEF Delete, IInv, ReadersOK, EntryOK, NoEntry
<1>3. CASE InvalidationLost
  BY <1>3 DEF InvalidationLost, IInv, TypeOK, ReadersOK, EntryOK
<1> QED BY <1>1, <1>2, <1>3

(* The target goes, is switched on or off, or becomes due no earlier than  *)
(* now unless it was due already.                                          *)
LEMMA TargetHolds ==
    ASSUME IInv, JobFails \/ ResetTarget \/ RemoveCard
    PROVE  IInv'
<1> DEFINE targets == [card : BOOLEAN, enabled : BOOLEAN, due : Nat]
<1>t. /\ TypeOK /\ target \in targets /\ now \in Nat /\ cache.expires \in Nat
      /\ job \in BOOLEAN
  BY Types DEF IInv, TypeOK
<1>1. /\ target' \in targets /\ job' \in BOOLEAN
      /\ UNCHANGED <<now, version, superseded, cache, reader, worker, missed>>
  <2>1. CASE JobFails
    <3>1. PICK enabled \in BOOLEAN :
             target' = [target EXCEPT !.enabled = target.enabled /\ enabled]
      BY <2>1 DEF JobFails
    <3>2. target' \in targets BY <1>t, <3>1
    <3> QED BY <2>1, <3>2 DEF JobFails
  <2>2. CASE ResetTarget BY <1>t, <2>2 DEF ResetTarget
  <2>3. CASE RemoveCard BY <1>t, <2>3 DEF RemoveCard
  <2> QED BY <2>1, <2>2, <2>3
<1>2. TypeOK' BY <1>t, <1>1 DEF TypeOK
<1>3. target'.card /\ target'.enabled =>
         \/ target'.due = now
         \/ target.card /\ target.enabled /\ target'.due = target.due
  BY <1>t DEF JobFails, ResetTarget, RemoveCard, Overdue
<1> HIDE DEF targets
<1>4. ReadersOK'
  <2>1. \A r \in Readers : reader[r].age \in Nat BY <1>t, Types
  <2>2. ASSUME NEW r \in Readers PROVE now <= now + reader[r].age
    BY <1>t, <2>1
  <2> QED BY <1>1, <1>3, <2>2 DEF IInv, ReadersOK
<1>5. EntryOK'
  <2>1. cache.set => cache.expires <= now + TTL + ReqTime
    BY <1>t, ConstantTypes DEF IInv, EntryOK
  <2> QED BY <1>1, <1>3, <2>1 DEF IInv, EntryOK
<1> QED BY <1>2, <1>4, <1>5 DEF IInv

LEMMA TickHolds ==
    ASSUME IInv, Tick
    PROVE  IInv'
<1>t. TypeOK /\ now \in Nat /\ cache.expires \in Nat BY Types DEF IInv
<1>1. /\ now < MaxTime /\ now' = now + 1
      /\ \A r \in Readers : reader[r].phase # "idle" => reader[r].age < ReqTime
      /\ reader' = [r \in Readers |->
                       IF reader[r].phase = "idle" THEN Resting
                       ELSE [reader[r] EXCEPT !.age = @ + 1]]
      /\ UNCHANGED <<version, superseded, target, job, cache, worker, missed>>
  BY DEF Tick
<1> DEFINE older(r) == IF reader[r].phase = "idle" THEN Resting
                       ELSE [reader[r] EXCEPT !.age = @ + 1]
<1>2. ASSUME NEW r \in Readers
      PROVE  /\ older(r) \in Requests
             /\ older(r).phase = reader[r].phase
             /\ reader[r].phase # "idle" => /\ older(r).version = reader[r].version
                                            /\ older(r).crossed = reader[r].crossed
                                            /\ older(r).age = reader[r].age + 1
  <2>1. CASE reader[r].phase = "idle" BY <2>1, RestingTypes
  <2>2. CASE reader[r].phase # "idle"
    <3>1. reader[r] \in Requests /\ reader[r].age \in Nat BY <1>t, Types
    <3>2. reader[r].age + 1 \in 0 .. ReqTime BY <1>1, <2>2, <3>1, ConstantTypes
    <3> QED BY <2>2, <3>1, <3>2 DEF Requests
  <2> QED BY <2>1, <2>2
<1>3. reader' = [r \in Readers |-> older(r)] BY <1>1
<1> HIDE DEF older
<1>4. reader' \in [Readers -> Requests] BY <1>2, <1>3
<1>5. TypeOK'
  <2>1. now' \in 0 .. MaxTime BY <1>t, <1>1, ConstantTypes
  <2> QED BY <1>t, <1>1, <1>4, <2>1 DEF TypeOK, Requests
<1>6. ReadersOK'
  <2> SUFFICES ASSUME NEW r \in Readers, reader[r].phase \in Reading
               PROVE  /\ reader[r].version <= version
                      /\ reader[r].version < version =>
                           /\ reader[r].crossed
                           /\ now + 1 <= superseded[reader[r].version] + (reader[r].age + 1)
                      /\ reader[r].phase = "store" /\ target.card /\ target.enabled =>
                           now + 1 <= target.due + (reader[r].age + 1)
    BY <1>1, <1>2, <1>3 DEF ReadersOK, Reading
  <2>1. /\ reader[r].version \in 0 .. MaxLoads /\ reader[r].age \in Nat
        /\ target.due \in Nat /\ superseded[reader[r].version] \in Nat
    BY <1>t, Types
  <2>2. /\ reader[r].version <= version
        /\ reader[r].version < version =>
             /\ reader[r].crossed
             /\ now <= superseded[reader[r].version] + reader[r].age
        /\ reader[r].phase = "store" /\ target.card /\ target.enabled =>
             now <= target.due + reader[r].age
    BY DEF IInv, ReadersOK
  <2> QED BY <1>t, <2>1, <2>2
<1>7. EntryOK'
  <2>1. cache.set => cache.expires <= now + 1 + TTL
    BY <1>t, ConstantTypes DEF IInv, EntryOK
  <2> QED BY <1>1, <2>1 DEF IInv, EntryOK
<1> QED BY <1>5, <1>6, <1>7 DEF IInv

LEMMA StepHolds == IInv /\ [Next]_vars => IInv'
<1> SUFFICES ASSUME IInv, [Next]_vars PROVE IInv'
  OBVIOUS
<1>1. ASSUME NEW r \in Readers,
             Ask(r) \/ ReadListings(r) \/ ReadTarget(r) \/ Enqueue(r) \/ Store(r)
      PROVE  IInv'
  BY <1>1, RequestHolds, StoreHolds
<1>2. CASE Load BY <1>2, LoadHolds
<1>3. CASE Scan \/ Delete \/ InvalidationLost BY <1>3, InvalidationHolds
<1>4. CASE JobFails \/ ResetTarget \/ RemoveCard BY <1>4, TargetHolds
<1>5. CASE Tick BY <1>5, TickHolds
<1>6. CASE UNCHANGED vars BY <1>6 DEF vars, IInv, TypeOK, ReadersOK, EntryOK
<1> QED BY <1>1, <1>2, <1>3, <1>4, <1>5, <1>6 DEF Next

LEMMA Invariance == Spec => []IInv
<1>1. IInv /\ [Next]_vars => IInv' BY StepHolds
<1> QED BY <1>1, InitHolds, PTL DEF Spec

(* Every variable keeps its type.                                          *)
THEOREM Typing == Spec => []TypeOK
<1>1. IInv => TypeOK BY DEF IInv
<1> QED BY <1>1, Invariance, PTL

(* However many searches and loads cross, an answer is older than the      *)
(* database by less than a TTL and the time a request takes.               *)
THEOREM Fresh == Spec => []StaleBounded
<1>1. IInv => StaleBounded
  <2> SUFFICES ASSUME IInv, Hit, cache.version < version
               PROVE  now < superseded[cache.version] + TTL + ReqTime
    BY DEF StaleBounded
  <2>1. /\ now \in Nat /\ cache.expires \in Nat
        /\ cache.version \in 0 .. MaxLoads /\ superseded[cache.version] \in Nat
    BY Types DEF IInv
  <2>2. now < cache.expires /\ cache.expires <= superseded[cache.version] + TTL + ReqTime
    BY DEF IInv, EntryOK, Hit
  <2> QED BY <2>1, <2>2, ConstantTypes
<1> QED BY <1>1, Invariance, PTL

(* An invalidation that was made is undone by requests that crossed the    *)
(* commit, and by nothing else.                                            *)
THEOREM Crossing == Spec => []StaleOnlyByCrossing
<1>1. IInv => StaleOnlyByCrossing
  BY DEF IInv, EntryOK, StaleOnlyByCrossing
<1> QED BY <1>1, Invariance, PTL

(* A hit postpones the refresh of a target that is due by less than a TTL  *)
(* and the time a request takes.                                           *)
THEOREM Refreshed == Spec => []RefreshDelayed
<1>1. IInv => RefreshDelayed
  <2> SUFFICES ASSUME IInv, Hit, Overdue
               PROVE  now < target.due + TTL + ReqTime
    BY DEF RefreshDelayed
  <2>1. now \in Nat /\ cache.expires \in Nat /\ target.due \in Nat
    BY Types DEF IInv
  <2>2. now < cache.expires /\ cache.expires <= target.due + TTL + ReqTime
    BY DEF IInv, EntryOK, Hit, Overdue
  <2> QED BY <2>1, <2>2, ConstantTypes
<1> QED BY <1>1, Invariance, PTL
=============================================================================
