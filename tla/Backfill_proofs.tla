---------------------------- MODULE Backfill_proofs ----------------------------
(***************************************************************************)
(* Proofs about Backfill, for any catalogue, batch size, intervals and     *)
(* options and any number of runs, exceptions and crashes.                 *)
(***************************************************************************)
EXTENDS Backfill, FiniteSetTheorems, WellFoundedInduction, TLAPS

(* The command and its checkpoint agree between any two steps.             *)
InStep ==
    proc.phase # "off" =>
        proc.state = file /\ file.version = 4 /\ file.status = "running"

Behind(n) == {c \in Cards : c <= n}

(* A batch and the cards excused so far are all there is up to its last    *)
(* card; once it is enqueued its cards are excused too.                    *)
InBatch ==
    proc.phase \in {"enqueue", "save"} =>
        /\ proc.found # {}
        /\ Behind(Max(proc.found)) \subseteq excused \cup proc.found
        /\ proc.phase = "save" => proc.found \subseteq excused

(* Who is not excused from a run has been wanted by it all the time.       *)
OutOfReach ==
    file.status # "none" =>
        \A c \in Cards : c \in excused \/ card[c] \in Wanted(file.mode)

RunsOrdered ==
    /\ latest.run <= file.run
    /\ file.status = "none" => file.last = 0
    /\ file.status # "none" => file.run >= 1

(* How far the next batch is from the latest one of the same run: an       *)
(* interval once a checkpoint was written after it, and until then the     *)
(* next batch, which starts now or when the checkpoint says, is no sooner. *)
Spacing ==
    latest.run = file.run /\ latest.run # 0 =>
        /\ IF latest.saved
           THEN IF file.version = 2 THEN file.next = latest.at
                ELSE latest.at + MinGap <= file.next
           ELSE file.version = 4 /\ (latest.at <= now \/ latest.at <= file.next)
        /\ proc.phase \in {"enqueue", "save"} => latest.at <= proc.at

(* The batch in hand starts when the checkpoint says, or now if later.     *)
NotEarly ==
    proc.phase = "enqueue" =>
        file.next <= proc.at /\ (proc.at <= now \/ proc.at <= file.next)

IInv == /\ TypeOK /\ NothingPassedOver /\ InStep /\ InBatch /\ OutOfReach
        /\ RunsOrdered /\ Spacing /\ NotEarly

Procs == [phase : {"off", "find", "enqueue", "save"},
          state : Checkpoint, found : SUBSET Cards, at : Nat]

-----------------------------------------------------------------------------
(* The operators of the model.                                             *)

LEMMA ConstantTypes ==
    /\ Catalogue \in Nat /\ MaxTime \in Nat /\ MaxErrors \in Nat /\ MaxCrashes \in Nat
    /\ BatchSize \in Nat \ {0} /\ MaxRuns \in Nat \ {0}
    /\ MinGap \in Nat \ {0} /\ MaxGap \in Nat /\ MinGap <= MaxGap
<1> DEFINE S == {Catalogue, MaxTime, MaxErrors, MaxCrashes}
           T == {BatchSize, MaxRuns}
<1>1. Catalogue \in S /\ MaxTime \in S /\ MaxErrors \in S /\ MaxCrashes \in S
  OBVIOUS
<1>2. BatchSize \in T /\ MaxRuns \in T
  OBVIOUS
<1>3. S \subseteq Nat /\ T \subseteq Nat \ {0} BY BackfillAssumption
<1> QED BY <1>1, <1>2, <1>3, BackfillAssumption

LEMMA MaxOfPair ==
    ASSUME NEW a \in Int, NEW b \in Int
    PROVE  Max({a, b}) \in {a, b} /\ Max({a, b}) >= a /\ Max({a, b}) >= b
<1>1. \E x \in {a, b} : \A y \in {a, b} : x >= y
  <2>1. CASE a >= b BY <2>1
  <2>2. CASE b >= a BY <2>2
  <2> QED BY <2>1, <2>2
<1>2. /\ Max({a, b}) \in {a, b}
      /\ \A y \in {a, b} : Max({a, b}) >= y
  BY <1>1 DEF Max
<1> QED BY <1>2

(* The last card of a batch.                                               *)
LEMMA MaxOfCards ==
    ASSUME NEW S \in SUBSET Cards, S # {}
    PROVE  Max(S) \in S /\ \A y \in S : y <= Max(S)
<1> DEFINE T == {Catalogue - c : c \in S}
           R == OpToRel(<, Nat)
<1>1. \A c \in S : c \in Nat /\ c <= Catalogue BY ConstantTypes DEF Cards
<1>2. T \subseteq Nat /\ T # {} BY <1>1, ConstantTypes
<1>3. PICK x \in T : \A y \in T : <<y, x>> \notin R
  BY <1>2, NatLessThanWellFounded, WFMin
<1>4. \A y \in T : ~(y < x)
  <2>1. \A y \in T : y < x => <<y, x>> \in R BY <1>2 DEF OpToRel
  <2> QED BY <1>3, <2>1
<1>5. PICK m \in S : x = Catalogue - m
  OBVIOUS
<1>6. \A c \in S : m >= c
  <2> SUFFICES ASSUME NEW c \in S PROVE m >= c
    OBVIOUS
  <2>1. Catalogue - c \in T /\ ~(Catalogue - c < x) BY <1>4
  <2> QED BY <1>1, <1>5, <2>1, ConstantTypes
<1>7. Max(S) \in S /\ \A y \in S : Max(S) >= y
  BY <1>6 DEF Max
<1> QED BY <1>1, <1>7

(* No eligible card between the cursor and a card of the batch is left out.*)
LEMMA NextCardsProperties ==
    ASSUME NEW state
    PROVE  /\ NextCards(state) \subseteq Cards
           /\ \A c \in NextCards(state) : c > state.last
           /\ \A c \in Cards : \A m \in NextCards(state) :
                c > state.last /\ c \in Eligible(state.mode) /\ c <= m =>
                    c \in NextCards(state)
<1> DEFINE ahead == {c \in Eligible(state.mode) : c > state.last}
           before(c) == {d \in ahead : d < c}
<1>1. NextCards(state) = {c \in ahead : Cardinality(before(c)) < BatchSize}
  BY DEF NextCards
<1>2. ahead \subseteq Cards /\ \A c \in Cards : c \in Nat
  BY DEF Eligible, Cards
<1>3. IsFiniteSet(Cards) BY FS_Interval, ConstantTypes DEF Cards
<1>4. \A c \in Cards : before(c) \in SUBSET Cards BY <1>2
<1>5. \A c \in Cards : IsFiniteSet(before(c)) /\ Cardinality(before(c)) \in Nat
  BY <1>3, <1>4, FS_Subset, FS_CardinalityType
<1>6. ASSUME NEW c \in Cards, NEW m \in NextCards(state), c \in ahead, c <= m
      PROVE  c \in NextCards(state)
  <2>1. m \in ahead /\ m \in Cards /\ Cardinality(before(m)) < BatchSize
    BY <1>1, <1>2
  <2>2. before(c) \in SUBSET before(m) BY <1>2, <1>6, <2>1
  <2>3. Cardinality(before(c)) <= Cardinality(before(m))
    BY <1>5, <2>1, <2>2, FS_Subset
  <2>4. Cardinality(before(c)) < BatchSize
    BY <1>5, <2>1, <2>3, ConstantTypes
  <2> QED BY <1>1, <1>6, <2>4
<1> QED BY <1>1, <1>2, <1>6

LEMMA CheckpointTypes ==
    ASSUME TypeOK
    PROVE  /\ file \in Checkpoint /\ proc.state \in Checkpoint
           /\ proc \in Procs /\ proc.found \subseteq Cards /\ proc.at \in Nat
           /\ file.run \in 0 .. MaxRuns /\ file.run \in Nat
           /\ file.last \in 0 .. Catalogue /\ file.last \in Nat
           /\ file.next \in Int
           /\ latest.run \in Nat /\ latest.at \in Nat /\ now \in Nat
           /\ latest.saved \in BOOLEAN
           /\ crashes \in Nat /\ errors \in Nat
  BY ConstantTypes DEF TypeOK, Checkpoint, Procs, NoTime

LEMMA OffTypes == Off \in Procs /\ Off.phase = "off" /\ NoFile \in Checkpoint
<1>1. 0 \in 0 .. MaxRuns /\ 0 \in 0 .. Catalogue BY ConstantTypes
<1>2. NoFile \in Checkpoint BY <1>1 DEF NoFile, Checkpoint
<1> QED BY <1>2 DEF Off, Procs

(* The command begins, or goes on, with what it has just written.          *)
FindWith(state) == [Off EXCEPT !.phase = "find", !.state = state]

LEMMA FindWithTypes ==
    ASSUME NEW state \in Checkpoint
    PROVE  /\ FindWith(state) \in Procs /\ FindWith(state).phase = "find"
           /\ FindWith(state).state = state
  BY OffTypes DEF FindWith, Procs

LEMMA InitHolds == Init => IInv
<1> SUFFICES ASSUME Init PROVE IInv
  OBVIOUS
<1>1. /\ now = 0 /\ card \in [Cards -> CardStates] /\ proc = Off
      /\ errors = 0 /\ crashes = 0
  BY DEF Init
<1>2. /\ 0 \in 0 .. MaxTime /\ 0 \in 0 .. MaxErrors /\ 0 \in 0 .. MaxCrashes
      /\ 0 \in 0 .. MaxRuns /\ 1 \in 0 .. MaxRuns
  BY ConstantTypes
<1>3. CASE file = NoFile /\ latest = NoBatch /\ excused = {}
  <2>1. TypeOK BY <1>1, <1>2, <1>3, OffTypes DEF TypeOK, Procs, NoBatch
  <2>2. file.last = 0 /\ file.status = "none" /\ file.run = 0 BY <1>3 DEF NoFile
  <2>3. NothingPassedOver BY <2>2 DEF NothingPassedOver, Cards
  <2>4. latest.run = 0 BY <1>3 DEF NoBatch
  <2> QED BY <1>1, <2>1, <2>2, <2>3, <2>4, OffTypes
          DEF IInv, InStep, InBatch, OutOfReach, RunsOrdered, Spacing, NotEarly
<1>4. ASSUME NEW last \in Cards, NEW latestJob \in {NoTime, MaxTime},
             file = OldFile(last, latestJob),
             latest = IF latestJob = NoTime THEN NoBatch
                      ELSE [run |-> 1, at |-> latestJob, saved |-> TRUE],
             excused = (1 .. last) \cup (Cards \ Eligible("missing"))
      PROVE  IInv
  <2>1. /\ last \in 0 .. Catalogue /\ last \in Nat /\ latestJob \in Nat \cup {NoTime}
        /\ 1 .. last \subseteq Cards
    BY ConstantTypes DEF Cards
  <2>2. file \in Checkpoint BY <1>2, <1>4, <2>1 DEF OldFile, Checkpoint
  <2>3. latest \in [run : 0 .. MaxRuns, at : Nat, saved : BOOLEAN]
    BY <1>2, <1>4, <2>1 DEF NoBatch
  <2>4. TypeOK BY <1>1, <1>2, <1>4, <2>1, <2>2, <2>3, OffTypes DEF TypeOK, Procs
  <2>5. /\ file.version = 2 /\ file.status = "failed" /\ file.run = 1
        /\ file.mode = "missing" /\ file.last = last /\ file.next = latestJob
    BY <1>4 DEF OldFile
  <2>6. NothingPassedOver
    BY <1>4, <2>1, <2>5 DEF NothingPassedOver, Cards
  <2>7. OutOfReach BY <1>4, <2>5 DEF OutOfReach, Eligible
  <2>8. latest.run \in {0, 1} /\ (latest.run # 0 => latest.at = latestJob /\ latest.saved)
    BY <1>4 DEF NoBatch
  <2>9. RunsOrdered BY <2>5, <2>8 DEF RunsOrdered
  <2>10. Spacing BY <1>1, <2>5, <2>8, OffTypes DEF Spacing
  <2> QED BY <1>1, <2>4, <2>6, <2>7, <2>9, <2>10, OffTypes
          DEF IInv, InStep, InBatch, NotEarly
<1> QED BY <1>3, <1>4 DEF Init

-----------------------------------------------------------------------------
LEMMA StartHolds ==
    ASSUME IInv, NEW mode \in Modes, NEW restart \in BOOLEAN, Start(mode, restart)
    PROVE  IInv'
<1>t. TypeOK BY DEF IInv
<1>1. proc.phase = "off" /\ UNCHANGED <<now, card, latest, errors, crashes>>
  BY DEF Start
<1>2. CASE NewRun(mode)
  <2> DEFINE state == [version |-> 4, status |-> "running", run |-> file.run + 1,
                       mode |-> mode, last |-> 0, next |-> now]
  <2>1. /\ file.run < MaxRuns /\ file' = state /\ proc' = FindWith(state)
        /\ excused' = Cards \ Eligible(mode)
    BY <1>2 DEF NewRun, FindWith
  <2>2. /\ file.run + 1 \in 0 .. MaxRuns /\ 0 \in 0 .. Catalogue /\ now \in Nat
        /\ file.run \in Nat
    BY <1>t, <2>1, CheckpointTypes, ConstantTypes
  <2>3. state \in Checkpoint BY <2>2 DEF Checkpoint
  <2>4. /\ file'.version = 4 /\ file'.status = "running" /\ file'.run = file.run + 1
        /\ file'.mode = mode /\ file'.last = 0
    BY <2>1
  <2> HIDE DEF state
  <2>5. TypeOK' BY <1>t, <1>1, <2>1, <2>3, FindWithTypes DEF TypeOK, Procs
  <2>6. proc'.phase = "find" /\ proc'.state = file' BY <2>1, <2>3, FindWithTypes
  <2>7. NothingPassedOver' BY <2>4 DEF NothingPassedOver, Cards
  <2>8. OutOfReach' BY <1>1, <2>1, <2>4 DEF OutOfReach, Eligible
  <2>9. latest'.run < file'.run /\ file'.run >= 1
    BY <1>t, <1>1, <2>2, <2>4, CheckpointTypes DEF IInv, RunsOrdered
  <2>10. latest'.run \in Nat /\ file'.run \in Nat BY <1>t, <1>1, <2>2, <2>4, CheckpointTypes
  <2> QED BY <2>4, <2>5, <2>6, <2>7, <2>8, <2>9, <2>10
          DEF IInv, InStep, InBatch, RunsOrdered, Spacing, NotEarly
<1>3. CASE /\ file.status \notin {"none", "completed"}
           /\ file' = Resumed
           /\ proc' = FindWith(Resumed)
           /\ UNCHANGED excused
  <2>1. /\ file \in Checkpoint /\ file.next \in Nat \cup {NoTime} /\ file.version \in {2, 4}
    BY <1>t, CheckpointTypes DEF Checkpoint
  <2> DEFINE next == IF file.version = 4 THEN file.next
                     ELSE IF file.next = NoTime THEN 0
                     ELSE file.next + MaxGap
  <2>2. next \in Nat \cup {NoTime} BY <2>1, ConstantTypes
  <2>3. Resumed = [file EXCEPT !.version = 4, !.next = next, !.status = "running"]
    BY <2>1 DEF Resumed, FromDict, Checkpoint
  <2>4. /\ file.version = 4 => next = file.next
        /\ file.version = 2 /\ file.next \in Nat => next = file.next + MaxGap
    BY DEF NoTime
  <2> HIDE DEF next
  <2>5. Resumed \in Checkpoint BY <2>1, <2>2, <2>3 DEF Checkpoint
  <2>6. /\ file'.version = 4 /\ file'.status = "running" /\ file'.next = next
        /\ file'.run = file.run /\ file'.mode = file.mode /\ file'.last = file.last
    BY <1>3, <2>1, <2>3 DEF Checkpoint
  <2>7. TypeOK' BY <1>t, <1>1, <1>3, <2>5, FindWithTypes DEF TypeOK, Procs
  <2>8. proc'.phase = "find" /\ proc'.state = file' BY <1>3, <2>5, FindWithTypes
  <2>9. NothingPassedOver' BY <1>3, <2>6 DEF IInv, NothingPassedOver
  <2>10. OutOfReach' BY <1>1, <1>3, <2>6 DEF IInv, OutOfReach
  <2>11. RunsOrdered' BY <1>1, <1>3, <2>6 DEF IInv, RunsOrdered
  <2>12. Spacing'
    <3> SUFFICES ASSUME latest.run = file.run, latest.run # 0
                 PROVE  IF latest.saved THEN latest.at + MinGap <= next
                        ELSE latest.at <= now \/ latest.at <= next
      BY <1>1, <2>6, <2>8 DEF Spacing
    <3>1. IF latest.saved
          THEN IF file.version = 2 THEN file.next = latest.at
               ELSE latest.at + MinGap <= file.next
          ELSE file.version = 4 /\ (latest.at <= now \/ latest.at <= file.next)
      BY DEF IInv, Spacing
    <3>2. latest.at \in Nat BY <1>t, CheckpointTypes
    <3>3. CASE file.version = 2 BY <2>4, <3>1, <3>2, <3>3, ConstantTypes
    <3>4. CASE file.version = 4 BY <2>4, <3>1, <3>4
    <3> QED BY <2>1, <3>3, <3>4
  <2> QED BY <2>6, <2>7, <2>8, <2>9, <2>10, <2>11, <2>12
          DEF IInv, InStep, InBatch, NotEarly
<1> QED BY <1>2, <1>3 DEF Start, FindWith

LEMMA FindHolds == IInv /\ FindCards => IInv'
<1> SUFFICES ASSUME IInv, FindCards PROVE IInv'
  OBVIOUS
<1> DEFINE found == NextCards(proc.state)
<1>t. TypeOK BY DEF IInv
<1>1. proc.phase = "find" /\ UNCHANGED <<now, card, latest, excused, errors, crashes>>
  BY DEF FindCards
<1>2. proc.state = file /\ file.version = 4 /\ file.status = "running"
  BY <1>1 DEF IInv, InStep
<1>3. CASE file' = [file EXCEPT !.status = "completed"] /\ proc' = Off
  <2>1. /\ file' \in Checkpoint /\ file'.status = "completed"
        /\ file'.version = file.version /\ file'.run = file.run /\ file'.mode = file.mode
        /\ file'.last = file.last /\ file'.next = file.next
    BY <1>t, <1>3, CheckpointTypes DEF Checkpoint
  <2>2. TypeOK' BY <1>t, <1>1, <1>3, <2>1, OffTypes DEF TypeOK, Procs
  <2>3. NothingPassedOver' BY <1>1, <2>1 DEF IInv, NothingPassedOver
  <2>4. OutOfReach' BY <1>1, <1>2, <2>1 DEF IInv, OutOfReach
  <2>5. RunsOrdered' BY <1>1, <1>2, <2>1 DEF IInv, RunsOrdered
  <2>6. proc'.phase = "off" BY <1>3, OffTypes
  <2>7. Spacing' BY <1>1, <2>1, <2>6 DEF IInv, Spacing
  <2> QED BY <2>2, <2>3, <2>4, <2>5, <2>6, <2>7 DEF IInv, InStep, InBatch, NotEarly
<1>4. CASE /\ found # {} /\ UNCHANGED file
           /\ proc' = [proc EXCEPT !.phase = "enqueue", !.found = found,
                                   !.at = Max({now, proc.state.next})]
  <2>1. now \in Nat /\ file.next \in Int /\ file.last \in Nat
    BY <1>t, CheckpointTypes
  <2>2. /\ Max({now, file.next}) \in Nat
        /\ Max({now, file.next}) >= file.next /\ Max({now, file.next}) >= now
        /\ Max({now, file.next}) <= now \/ Max({now, file.next}) <= file.next
    <3>1. now \in Int BY <2>1
    <3>2. /\ Max({now, file.next}) \in {now, file.next}
          /\ Max({now, file.next}) >= now /\ Max({now, file.next}) >= file.next
      BY <2>1, <3>1, MaxOfPair
    <3>3. CASE Max({now, file.next}) = now BY <2>1, <3>2, <3>3
    <3>4. CASE Max({now, file.next}) = file.next
      <4>1. file.next >= now BY <3>2, <3>4
      <4>2. file.next \in Nat BY <2>1, <4>1
      <4> QED BY <3>2, <3>4, <4>2
    <3> QED BY <3>2, <3>3, <3>4
  <2>3. found \subseteq Cards BY NextCardsProperties
  <2>4. /\ proc' \in Procs /\ proc'.phase = "enqueue" /\ proc'.found = found
        /\ proc'.state = proc.state /\ proc'.at = Max({now, file.next})
    <3> HIDE DEF found
    <3> QED BY <1>t, <1>2, <1>4, <2>2, <2>3, CheckpointTypes DEF Procs
  <2>5. TypeOK' BY <1>t, <1>1, <1>4, <2>4 DEF TypeOK, Procs
  <2>6. NothingPassedOver' BY <1>1, <1>4 DEF IInv, NothingPassedOver
  <2>7. OutOfReach' BY <1>1, <1>4 DEF IInv, OutOfReach
  <2>8. RunsOrdered' BY <1>1, <1>4 DEF IInv, RunsOrdered
  <2>9. Spacing'
    <3> SUFFICES ASSUME latest.run = file.run, latest.run # 0
                 PROVE  latest.at <= proc'.at
      BY <1>1, <1>4, <2>4 DEF IInv, Spacing
    <3>1. \/ latest.at + MinGap <= file.next
          \/ latest.at <= now \/ latest.at <= file.next
      BY <1>2 DEF IInv, Spacing
    <3>2. latest.at \in Nat BY <1>t, CheckpointTypes
    <3> QED BY <2>1, <2>2, <2>4, <3>1, <3>2, ConstantTypes
  <2>10. NotEarly' BY <1>1, <1>4, <2>1, <2>2, <2>4 DEF NotEarly
  <2>11. Behind(Max(found)) \subseteq excused \cup found
    <3> SUFFICES ASSUME NEW c \in Cards, c <= Max(found), c \notin excused
                 PROVE  c \in found
      BY DEF Behind
    <3>1. Max(found) \in found BY <1>4, <2>3, MaxOfCards
    <3>2. ~ (c <= file.last) BY DEF IInv, NothingPassedOver
    <3>3. c > file.last BY <2>1, <3>2 DEF Cards
    <3>4. card[c] \in Wanted(file.mode) BY <1>2 DEF IInv, OutOfReach
    <3>5. c \in Eligible(proc.state.mode) BY <1>2, <3>4 DEF Eligible
    <3> QED BY <1>2, <3>1, <3>3, <3>5, NextCardsProperties
  <2>12. InBatch'
    <3> HIDE DEF found
    <3>1. /\ proc'.found # {}
          /\ Behind(Max(proc'.found)) \subseteq excused' \cup proc'.found
      BY <1>1, <1>4, <2>4, <2>11
    <3> QED BY <2>4, <3>1 DEF InBatch, Behind
  <2>13. InStep' BY <1>2, <1>4, <2>4 DEF InStep
  <2> QED BY <2>5, <2>6, <2>7, <2>8, <2>9, <2>10, <2>12, <2>13 DEF IInv
<1> QED BY <1>2, <1>3, <1>4 DEF FindCards

(* The cards that get a job.                                               *)
Created == {c \in proc.found :
              \/ card[c] \in {"missing", "listed"}
              \/ card[c] = "disabled" /\ proc.state.mode = "all_disabled"}

LEMMA EnqueueEffect ==
    ASSUME IInv, Enqueue
    PROVE  /\ proc.phase = "enqueue" /\ UNCHANGED <<now, file, errors, crashes>>
           /\ Created \subseteq proc.found
           /\ card' = [c \in Cards |-> IF c \in Created THEN "active" ELSE card[c]]
           /\ latest' = IF Created = {} THEN latest
                        ELSE [run |-> file.run, at |-> proc.at, saved |-> FALSE]
           /\ excused' = excused \cup proc.found
           /\ proc' \in Procs /\ proc'.phase = "save" /\ proc'.found = proc.found
           /\ proc'.state = proc.state /\ proc'.at = proc.at
<1>1. TypeOK BY DEF IInv
<1>2. proc.phase = "enqueue" /\ proc' = [proc EXCEPT !.phase = "save"]
  BY DEF Enqueue
<1>3. proc.state = file BY <1>2 DEF IInv, InStep
<1>4. /\ proc' \in Procs /\ proc'.phase = "save" /\ proc'.found = proc.found
      /\ proc'.state = proc.state /\ proc'.at = proc.at
  BY <1>1, <1>2, CheckpointTypes DEF Procs
<1> QED BY <1>2, <1>3, <1>4 DEF Enqueue, Created

LEMMA EnqueueHolds == IInv /\ Enqueue => IInv'
<1> SUFFICES ASSUME IInv, Enqueue PROVE IInv'
  OBVIOUS
<1>t. TypeOK BY DEF IInv
<1>1. /\ proc.phase = "enqueue" /\ UNCHANGED <<now, file, errors, crashes>>
      /\ Created \subseteq proc.found /\ excused' = excused \cup proc.found
      /\ proc' \in Procs /\ proc'.phase = "save" /\ proc'.found = proc.found
      /\ proc'.state = proc.state /\ proc'.at = proc.at
  BY EnqueueEffect
<1>2. proc.state = file /\ file.version = 4 /\ file.status = "running"
  BY <1>1 DEF IInv, InStep
<1>3. file.run \in 0 .. MaxRuns /\ proc.at \in Nat /\ proc.found \subseteq Cards
  BY <1>t, CheckpointTypes
<1>4. /\ card' \in [Cards -> CardStates]
      /\ \A c \in Cards : c \notin proc.found => card'[c] = card[c]
  <2> DEFINE new(c) == IF c \in Created THEN "active" ELSE card[c]
  <2>1. card' = [c \in Cards |-> new(c)] BY EnqueueEffect
  <2>2. \A c \in Cards : new(c) \in CardStates BY <1>t DEF TypeOK, CardStates
  <2>3. \A c \in Cards : c \notin proc.found => new(c) = card[c] BY <1>1
  <2> HIDE DEF new
  <2> QED BY <2>1, <2>2, <2>3
<1>5. latest' = latest \/ latest' = [run |-> file.run, at |-> proc.at, saved |-> FALSE]
  BY EnqueueEffect
<1>6. latest' \in [run : 0 .. MaxRuns, at : Nat, saved : BOOLEAN]
  <2>1. CASE latest' = latest BY <1>t, <2>1 DEF TypeOK
  <2>2. CASE latest' = [run |-> file.run, at |-> proc.at, saved |-> FALSE]
    BY <1>3, <2>2
  <2> QED BY <1>5, <2>1, <2>2
<1>7. TypeOK' BY <1>t, <1>1, <1>3, <1>4, <1>6 DEF TypeOK, Procs
<1>8. NothingPassedOver' BY <1>1 DEF IInv, NothingPassedOver
<1>9. InStep' BY <1>1, <1>2 DEF InStep
<1>10. InBatch'
  <2>1. /\ proc.found # {}
        /\ Behind(Max(proc.found)) \subseteq excused \cup proc.found
    BY <1>1 DEF IInv, InBatch
  <2>2. Behind(Max(proc.found))' = Behind(Max(proc.found)) BY <1>1 DEF Behind
  <2> QED BY <1>1, <2>1, <2>2 DEF InBatch
<1>11. OutOfReach' BY <1>1, <1>4 DEF IInv, OutOfReach
<1>12. RunsOrdered'
  BY <1>t, <1>1, <1>3, <1>5, CheckpointTypes DEF IInv, RunsOrdered
<1>13. Spacing'
  <2>1. CASE latest' = [run |-> file.run, at |-> proc.at, saved |-> FALSE]
    <3>1. proc.at <= now \/ proc.at <= file.next BY <1>1 DEF IInv, NotEarly
    <3>2. latest'.at = proc.at /\ latest'.saved = FALSE BY <2>1
    <3> QED BY <1>1, <1>2, <1>3, <3>1, <3>2 DEF Spacing
  <2>2. CASE latest' = latest BY <1>1, <2>2 DEF IInv, Spacing
  <2> QED BY <1>5, <2>1, <2>2
<1>14. NotEarly' BY <1>1 DEF NotEarly
<1> QED BY <1>7, <1>8, <1>9, <1>10, <1>11, <1>12, <1>13, <1>14 DEF IInv

(* What the state in memory becomes once a batch is enqueued.              *)
LEMMA AdvancedTypes ==
    ASSUME IInv, proc.phase = "save", NEW gap \in MinGap .. MaxGap
    PROVE  /\ Advanced(gap) \in Checkpoint
           /\ Advanced(gap).version = 4 /\ Advanced(gap).status = "running"
           /\ Advanced(gap).run = file.run /\ Advanced(gap).mode = file.mode
           /\ Advanced(gap).last = Max(proc.found)
           /\ Advanced(gap).next = proc.at + gap
<1>1. TypeOK BY DEF IInv
<1>2. proc.state = file /\ file.version = 4 /\ file.status = "running"
  BY DEF IInv, InStep
<1>3. proc.found # {} /\ proc.found \subseteq Cards
  BY <1>1, CheckpointTypes DEF IInv, InBatch
<1>4. Max(proc.found) \in Cards BY <1>3, MaxOfCards
<1>5. Max(proc.found) \in 0 .. Catalogue BY <1>4, ConstantTypes DEF Cards
<1>6. proc.at \in Nat /\ gap \in Nat BY <1>1, CheckpointTypes, ConstantTypes
<1>7. proc.at + gap \in Nat BY <1>6
<1>8. file \in Checkpoint BY <1>1, CheckpointTypes
<1> DEFINE last == Max(proc.found)
           next == proc.at + gap
<1>9. Advanced(gap) = [file EXCEPT !.last = last, !.next = next]
  BY <1>2 DEF Advanced
<1> HIDE DEF last, next
<1>10. last \in 0 .. Catalogue /\ next \in Nat BY <1>5, <1>7 DEF last, next
<1>11. /\ Advanced(gap) \in Checkpoint
       /\ Advanced(gap).version = file.version /\ Advanced(gap).status = file.status
       /\ Advanced(gap).run = file.run /\ Advanced(gap).mode = file.mode
       /\ Advanced(gap).last = last /\ Advanced(gap).next = next
  BY <1>8, <1>9, <1>10 DEF Checkpoint
<1> QED BY <1>2, <1>11 DEF last, next

(* A checkpoint written after the latest batch leaves its run and time.    *)
SavedBatch ==
    /\ latest' \in [run : 0 .. MaxRuns, at : Nat, saved : BOOLEAN]
    /\ latest'.run = latest.run /\ latest'.at = latest.at /\ latest'.saved

LEMMA SavedTypes ==
    ASSUME TypeOK, latest' = [latest EXCEPT !.saved = TRUE]
    PROVE  SavedBatch
  BY DEF TypeOK, SavedBatch

LEMMA SaveHolds ==
    ASSUME IInv, NEW gap \in MinGap .. MaxGap, SaveCheckpoint(gap)
    PROVE  IInv'
<1>t. TypeOK BY DEF IInv
<1>1. /\ proc.phase = "save" /\ UNCHANGED <<now, card, excused, errors, crashes>>
      /\ file' = Advanced(gap) /\ proc' = FindWith(Advanced(gap))
      /\ latest' = [latest EXCEPT !.saved = TRUE]
  BY DEF SaveCheckpoint, FindWith
<1>l. SavedBatch BY <1>t, <1>1, SavedTypes
<1>2. /\ file' \in Checkpoint /\ file'.version = 4 /\ file'.status = "running"
      /\ file'.run = file.run /\ file'.mode = file.mode
      /\ file'.last = Max(proc.found) /\ file'.next = proc.at + gap
  BY <1>1, AdvancedTypes
<1>3. proc' \in Procs /\ proc'.phase = "find" /\ proc'.state = file'
  BY <1>1, <1>2, FindWithTypes
<1>4. file.status = "running" BY <1>1 DEF IInv, InStep
<1>5. TypeOK' BY <1>t, <1>1, <1>2, <1>3, <1>l DEF TypeOK, Procs, SavedBatch
<1>6. NothingPassedOver'
  <2>1. /\ Behind(Max(proc.found)) \subseteq excused \cup proc.found
        /\ proc.found \subseteq excused
    BY <1>1 DEF IInv, InBatch
  <2> QED BY <1>1, <1>2, <2>1 DEF NothingPassedOver, Behind
<1>7. OutOfReach' BY <1>1, <1>2, <1>4 DEF IInv, OutOfReach
<1>8. RunsOrdered' BY <1>2, <1>4, <1>l DEF IInv, RunsOrdered, SavedBatch
<1>9. Spacing'
  <2> SUFFICES ASSUME latest.run = file.run, latest.run # 0
               PROVE  latest.at + MinGap <= proc.at + gap
    BY <1>2, <1>3, <1>l DEF Spacing, SavedBatch
  <2>1. latest.at <= proc.at BY <1>1 DEF IInv, Spacing
  <2>2. latest.at \in Nat /\ proc.at \in Nat /\ gap \in Nat /\ gap >= MinGap
    BY <1>t, CheckpointTypes, ConstantTypes
  <2> QED BY <2>1, <2>2, ConstantTypes
<1> QED BY <1>2, <1>3, <1>5, <1>6, <1>7, <1>8, <1>9 DEF IInv, InStep, InBatch, NotEarly

LEMMA FailHolds == IInv /\ Fail => IInv'
<1> SUFFICES ASSUME IInv, Fail PROVE IInv'
  OBVIOUS
<1>t. TypeOK BY DEF IInv
<1>1. /\ proc.phase # "off" /\ UNCHANGED <<now, card, excused, crashes>>
      /\ errors < MaxErrors /\ errors' = errors + 1 /\ proc' = Off
  BY DEF Fail
<1>2. errors' \in 0 .. MaxErrors BY <1>t, <1>1, ConstantTypes DEF TypeOK
<1>3. proc' \in Procs /\ proc'.phase = "off" BY <1>1, OffTypes
<1>4. proc.state = file /\ file.version = 4 /\ file.status = "running"
  BY <1>1 DEF IInv, InStep
<1>5. CASE proc.phase = "save"
  <2>1. PICK gap \in MinGap .. MaxGap : file' = [Advanced(gap) EXCEPT !.status = "failed"]
    BY <1>5 DEF Fail
  <2>l. SavedBatch BY <1>t, <1>5, SavedTypes DEF Fail
  <2>2. /\ Advanced(gap) \in Checkpoint /\ Advanced(gap).version = 4
        /\ Advanced(gap).run = file.run /\ Advanced(gap).mode = file.mode
        /\ Advanced(gap).last = Max(proc.found) /\ Advanced(gap).next = proc.at + gap
    BY <1>5, AdvancedTypes
  <2>3. /\ file' \in Checkpoint /\ file'.version = 4 /\ file'.status = "failed"
        /\ file'.run = Advanced(gap).run /\ file'.mode = Advanced(gap).mode
        /\ file'.last = Advanced(gap).last /\ file'.next = Advanced(gap).next
    BY <2>1, <2>2 DEF Checkpoint
  <2>4. TypeOK' BY <1>t, <1>1, <1>2, <1>3, <2>3, <2>l DEF TypeOK, Procs, SavedBatch
  <2>5. NothingPassedOver'
    <3>1. /\ Behind(Max(proc.found)) \subseteq excused \cup proc.found
          /\ proc.found \subseteq excused
      BY <1>5 DEF IInv, InBatch
    <3> QED BY <1>1, <2>2, <2>3, <3>1 DEF NothingPassedOver, Behind
  <2>6. OutOfReach' BY <1>1, <1>4, <2>2, <2>3 DEF IInv, OutOfReach
  <2>7. RunsOrdered' BY <1>4, <2>2, <2>3, <2>l DEF IInv, RunsOrdered, SavedBatch
  <2>8. Spacing'
    <3> SUFFICES ASSUME latest.run = file.run, latest.run # 0
                 PROVE  latest.at + MinGap <= proc.at + gap
      BY <1>3, <2>2, <2>3, <2>l DEF Spacing, SavedBatch
    <3>1. latest.at <= proc.at BY <1>5 DEF IInv, Spacing
    <3>2. latest.at \in Nat /\ proc.at \in Nat /\ gap \in Nat /\ gap >= MinGap
      BY <1>t, CheckpointTypes, ConstantTypes
    <3> QED BY <3>1, <3>2, ConstantTypes
  <2> QED BY <1>3, <2>4, <2>5, <2>6, <2>7, <2>8 DEF IInv, InStep, InBatch, NotEarly
<1>6. CASE proc.phase # "save"
  <2>1. file' = [file EXCEPT !.status = "failed"] /\ latest' = latest
    BY <1>4, <1>6 DEF Fail
  <2>2. /\ file' \in Checkpoint /\ file'.status = "failed"
        /\ file'.version = file.version /\ file'.run = file.run
        /\ file'.mode = file.mode /\ file'.last = file.last /\ file'.next = file.next
    BY <1>t, <2>1, CheckpointTypes DEF Checkpoint
  <2>3. TypeOK' BY <1>t, <1>1, <1>2, <1>3, <2>1, <2>2 DEF TypeOK, Procs
  <2>4. NothingPassedOver' BY <1>1, <2>2 DEF IInv, NothingPassedOver
  <2>5. OutOfReach' BY <1>1, <1>4, <2>2 DEF IInv, OutOfReach
  <2>6. RunsOrdered' BY <1>4, <2>1, <2>2 DEF IInv, RunsOrdered
  <2>7. Spacing' BY <1>1, <1>3, <2>1, <2>2 DEF IInv, Spacing
  <2> QED BY <1>3, <2>3, <2>4, <2>5, <2>6, <2>7 DEF IInv, InStep, InBatch, NotEarly
<1> QED BY <1>5, <1>6

LEMMA CrashHolds == IInv /\ Crash => IInv'
<1> SUFFICES ASSUME IInv, Crash PROVE IInv'
  OBVIOUS
<1>t. TypeOK BY DEF IInv
<1>1. /\ proc.phase # "off" /\ UNCHANGED <<now, card, latest, excused, errors>>
      /\ crashes < MaxCrashes /\ crashes' = crashes + 1 /\ proc' = Off
  BY DEF Crash
<1>2. crashes' \in 0 .. MaxCrashes
  BY <1>t, <1>1, ConstantTypes DEF TypeOK
<1>3. proc' \in Procs /\ proc'.phase = "off" BY <1>1, OffTypes
<1>4. file.status = "running" BY <1>1 DEF IInv, InStep
<1>5. PICK status \in {"failed", "running"} : file' = [file EXCEPT !.status = status]
  BY <1>4 DEF Crash
<1>6. /\ file' \in Checkpoint /\ file'.status = status
      /\ file'.version = file.version /\ file'.run = file.run
      /\ file'.mode = file.mode /\ file'.last = file.last /\ file'.next = file.next
  BY <1>t, <1>5, CheckpointTypes DEF Checkpoint
<1>7. TypeOK' BY <1>t, <1>1, <1>2, <1>3, <1>6 DEF TypeOK, Procs
<1>8. NothingPassedOver' BY <1>1, <1>6 DEF IInv, NothingPassedOver
<1>9. OutOfReach' BY <1>1, <1>4, <1>6 DEF IInv, OutOfReach
<1>10. RunsOrdered' BY <1>1, <1>4, <1>5, <1>6 DEF IInv, RunsOrdered
<1>11. Spacing' BY <1>1, <1>3, <1>6 DEF IInv, Spacing
<1> QED BY <1>3, <1>7, <1>8, <1>9, <1>10, <1>11 DEF IInv, InStep, InBatch, NotEarly

LEMMA CardChangesHolds ==
    ASSUME IInv, NEW c \in Cards, CardChanges(c)
    PROVE  IInv'
<1>t. TypeOK BY DEF IInv
<1>1. UNCHANGED <<now, file, proc, latest, errors, crashes>> BY DEF CardChanges
<1>2. PICK state \in CardStates :
        /\ card' = [card EXCEPT ![c] = state]
        /\ excused' = IF state \in Wanted(file.mode) THEN excused ELSE excused \cup {c}
  BY DEF CardChanges
<1>3. /\ excused \subseteq excused' /\ excused' \subseteq Cards
      /\ state \in Wanted(file.mode) \/ c \in excused'
  BY <1>t, <1>2 DEF TypeOK
<1>4. /\ card' \in [Cards -> CardStates] /\ card'[c] = state
      /\ \A d \in Cards : d # c => card'[d] = card[d]
  BY <1>t, <1>2 DEF TypeOK
<1>5. TypeOK' BY <1>t, <1>1, <1>3, <1>4 DEF TypeOK
<1>6. NothingPassedOver' BY <1>1, <1>3 DEF IInv, NothingPassedOver
<1>7. InBatch' BY <1>1, <1>3 DEF IInv, InBatch, Behind
<1>8. OutOfReach' BY <1>1, <1>3, <1>4 DEF IInv, OutOfReach, Wanted, CardStates
<1>9. InStep' /\ RunsOrdered' /\ Spacing' /\ NotEarly'
  BY <1>1 DEF IInv, InStep, RunsOrdered, Spacing, NotEarly
<1> QED BY <1>5, <1>6, <1>7, <1>8, <1>9 DEF IInv

LEMMA RestHolds == IInv /\ (Tick \/ UNCHANGED vars) => IInv'
<1> SUFFICES ASSUME IInv, Tick \/ UNCHANGED vars PROVE IInv'
  OBVIOUS
<1>1. UNCHANGED <<card, file, proc, latest, excused, errors, crashes>>
  BY DEF Tick, vars
<1>2. TypeOK BY DEF IInv
<1>3. now' \in 0 .. MaxTime BY <1>2, ConstantTypes DEF TypeOK, Tick, vars
<1>4. TypeOK' BY <1>1, <1>2, <1>3 DEF TypeOK
<1>5. NothingPassedOver' /\ InStep' /\ InBatch' /\ OutOfReach' /\ RunsOrdered'
  BY <1>1 DEF IInv, NothingPassedOver, InStep, InBatch, Behind, OutOfReach,
              Wanted, CardStates, RunsOrdered
<1>6. \A t \in Nat : t <= now => t <= now'
  BY <1>2, CheckpointTypes DEF Tick, vars
<1>7. latest.at \in Nat /\ proc.at \in Nat BY <1>2, CheckpointTypes
<1>8. Spacing' BY <1>1, <1>6, <1>7 DEF IInv, Spacing
<1>9. NotEarly' BY <1>1, <1>6, <1>7 DEF IInv, NotEarly
<1> QED BY <1>4, <1>5, <1>8, <1>9 DEF IInv

LEMMA StepHolds == IInv /\ [Next]_vars => IInv'
<1> SUFFICES ASSUME IInv, [Next]_vars PROVE IInv'
  OBVIOUS
<1>1. CASE \E mode \in Modes, restart \in BOOLEAN : Start(mode, restart)
  BY <1>1, StartHolds
<1>2. CASE FindCards BY <1>2, FindHolds
<1>3. CASE Enqueue BY <1>3, EnqueueHolds
<1>4. CASE \E gap \in MinGap .. MaxGap : SaveCheckpoint(gap) BY <1>4, SaveHolds
<1>5. CASE Fail BY <1>5, FailHolds
<1>6. CASE Crash BY <1>6, CrashHolds
<1>7. CASE \E c \in Cards : CardChanges(c) BY <1>7, CardChangesHolds
<1>8. CASE Tick \/ UNCHANGED vars BY <1>8, RestHolds
<1> QED BY <1>1, <1>2, <1>3, <1>4, <1>5, <1>6, <1>7, <1>8 DEF Next, CommandStep

LEMMA Invariance == Spec => []IInv
<1> QED BY InitHolds, StepHolds, PTL DEF Spec

-----------------------------------------------------------------------------
(* Every variable of the command keeps its type.                           *)
THEOREM Typing == Spec => []TypeOK
<1>1. IInv => TypeOK BY DEF IInv
<1> QED BY <1>1, Invariance, PTL

(* The checkpoint never runs ahead of the database (run_scrape_schedule    *)
(* enqueues, commits, and only then moves the cursor): whatever fails,     *)
(* crashes, is resumed or changes meanwhile, a card behind the cursor was  *)
(* in a committed batch of the run or could be left out by its query.      *)
THEOREM NothingPassed == Spec => []NothingPassedOver
<1>1. IInv => NothingPassedOver BY DEF IInv
<1> QED BY <1>1, Invariance, PTL

(* What BatchesSpaced says of one step.                                    *)
Apart == /\ proc.phase = "enqueue"
         /\ proc'.phase = "save"
         /\ card' # card
         /\ latest.run = proc.state.run
         => latest'.at >= latest.at + (IF latest.saved THEN MinGap ELSE 0)

(* Only the enqueue of a batch leads from the phase before it to the one   *)
(* after it.                                                               *)
LEMMA OnlyEnqueue ==
    ASSUME IInv, [Next]_vars, proc.phase = "enqueue", proc'.phase = "save"
    PROVE  Enqueue
<1>1. Off.phase = "off" BY OffTypes
<1>2. ~ \E mode \in Modes, restart \in BOOLEAN : Start(mode, restart) BY DEF Start
<1>3. ~ FindCards BY DEF FindCards
<1>4. ~ \E gap \in MinGap .. MaxGap : SaveCheckpoint(gap) BY DEF SaveCheckpoint
<1>5. ~ Fail BY <1>1 DEF Fail
<1>6. ~ Crash BY <1>1 DEF Crash
<1>7. proc' # proc
  OBVIOUS
<1>8. ~ (\E c \in Cards : CardChanges(c)) /\ ~ Tick /\ ~ UNCHANGED vars
  BY <1>7 DEF CardChanges, Tick, vars
<1> QED BY <1>2, <1>3, <1>4, <1>5, <1>6, <1>8 DEF Next, CommandStep

LEMMA StepApart == IInv /\ [Next]_vars => [Apart]_vars
<1> SUFFICES ASSUME IInv, [Next]_vars, proc.phase = "enqueue", proc'.phase = "save",
                    card' # card, latest.run = proc.state.run
             PROVE  latest'.at >= latest.at + (IF latest.saved THEN MinGap ELSE 0)
  BY DEF Apart
<1>t. TypeOK BY DEF IInv
<1>1. /\ Created \subseteq proc.found
      /\ card' = [c \in Cards |-> IF c \in Created THEN "active" ELSE card[c]]
      /\ latest' = IF Created = {} THEN latest
                   ELSE [run |-> file.run, at |-> proc.at, saved |-> FALSE]
  BY OnlyEnqueue, EnqueueEffect
<1>2. Created # {}
  <2> SUFFICES ASSUME Created = {} PROVE FALSE
    OBVIOUS
  <2>1. card' = [c \in Cards |-> card[c]] BY <1>1
  <2>2. card = [c \in Cards |-> card[c]] BY <1>t DEF TypeOK
  <2> QED BY <2>1, <2>2
<1>3. latest'.at = proc.at BY <1>1, <1>2
<1>4. proc.state = file /\ file.version = 4 /\ file.status = "running"
  BY DEF IInv, InStep
<1>5. file.run >= 1 /\ file.run \in Nat BY <1>t, <1>4, CheckpointTypes DEF IInv, RunsOrdered
<1>6. /\ latest.saved => latest.at + MinGap <= file.next
      /\ latest.at <= proc.at
  BY <1>4, <1>5 DEF IInv, Spacing
<1>7. file.next <= proc.at BY DEF IInv, NotEarly
<1>8. latest.at \in Nat /\ file.next \in Int /\ proc.at \in Nat
  BY <1>t, CheckpointTypes
<1> QED BY <1>3, <1>6, <1>7, <1>8, ConstantTypes

(* Batches of one run that create jobs stay the minimum interval apart     *)
(* through exceptions, crashes and resumed runs, an old checkpoint         *)
(* included; the batch after one that a crash separated from its           *)
(* checkpoint may share that one's time but not precede it.                *)
THEOREM Spaced == Spec => BatchesSpaced
<1>1. IInv /\ [Next]_vars => [Apart]_vars BY StepApart
<1>2. Spec => [][Apart]_vars BY <1>1, Invariance, PTL DEF Spec
<1> QED BY <1>2 DEF BatchesSpaced, Apart
=============================================================================
