------------------------- MODULE ScrapeQueue_proofs -------------------------
(* Theorems about ScrapeQueue, for every value of its constants: what      *)
(* holds however long loads take, and then what leases give when no load   *)
(* or record outlives its budget (LoadsPrompt), the refinement of          *)
(* WorkQueue among it.                                                     *)
EXTENDS ScrapeQueue, TLAPS

LEMMA ConstantTypes ==
    /\ Lease \in Nat /\ JobTimeout \in Nat /\ LoadBudget \in Nat
    /\ MaxAge \in Nat /\ MaxClaims \in Nat /\ MaxDeaths \in Nat
    /\ MaxAttempts \in Nat /\ MaxAttempts > 0
    /\ RetryDelays \subseteq Nat /\ ScheduleDelays \subseteq Nat
    /\ NoJob \notin JobIds /\ NoJob \notin Cards /\ NoSlot \notin Slots
    /\ ProcOf \in [Slots -> Procs] /\ LoadsMayStall \in BOOLEAN
  BY ConstantsAssumption

(* What the slot constructors build.                                       *)
LEMMA SlotTypes ==
    /\ Ready \in Slot /\ Done \in Slot
    /\ \A phase \in {"extract", "load", "record"}, j \in JobIds, left \in Nat,
          error \in {"none", "retryable", "not_found"} :
          SlotIn(phase, j, left, error) \in Slot
  BY DEF Ready, Done, SlotIn, Slot

(* What a slot holds by its phase.                                         *)
LEMMA BusySlots ==
    ASSUME NEW s \in Slots, slot[s] \in Slot
    PROVE  /\ slot[s].left \in Nat
           /\ Busy(s) => slot[s].job \in JobIds
           /\ ~Busy(s) => slot[s].job = NoJob
           /\ slot[s].error \in {"none", "retryable", "not_found"}
           /\ slot[s].phase \in {"ready", "extract", "load", "record", "done"}
  BY DEF Slot, Busy

(* Each change of a row leaves a row.                                      *)
LEMMA RowTypes ==
    ASSUME NEW row \in Job
    PROVE  /\ Claimed(row) \in Job
           /\ \A status \in Terminal \cup {"gone"} : Ended(row, status) \in Job
           /\ \A delay \in Nat : Retried(row, delay) \in Job
           /\ Aged(row) \in Job
<1>1. Claimed(row) \in Job
  BY ConstantTypes DEF Claimed, Row, Job, Active
<1>2. ASSUME NEW status \in Terminal \cup {"gone"}
      PROVE  Ended(row, status) \in Job
  BY DEF Ended, Row, Job, Active, Terminal
<1>3. ASSUME NEW delay \in Nat
      PROVE  Retried(row, delay) \in Job
  BY DEF Retried, Row, Job, Active
<1>4. Aged(row) \in Job
  BY ConstantTypes DEF Aged, Down, Row, Job
<1>5. QED
  BY <1>1, <1>2, <1>3, <1>4

LEMMA NewRowTypes ==
    ASSUME NEW c \in Cards, NEW priority \in {Interactive, Scheduled},
           NEW delay \in Nat
    PROVE  NewJob(c, priority, delay) \in Job
  BY DEF NewJob, Row, Job, Active

LEMMA InitTypes == Init => TypeOK
<1> SUFFICES ASSUME Init PROVE TypeOK
  OBVIOUS
<1>1. NoRow \in Job
  BY DEF NoRow, Row, Job, Interactive
<1>2. NoRequest \in Client
  BY DEF NoRequest, Client
<1>3. QED
  BY <1>1, <1>2, SlotTypes DEF Init, TypeOK

(* A step keeps the types; one step of the proof per action.               *)
LEMMA NextTypes == TypeOK /\ [Next]_vars => TypeOK'
<1> SUFFICES ASSUME TypeOK, [Next]_vars
             PROVE  TypeOK'
  OBVIOUS
<1>t. /\ target \in [Cards -> {"absent", "enabled", "disabled", "deleted"}]
      /\ alive \in [Procs -> BOOLEAN]
      /\ deaths \in Nat
  BY DEF TypeOK
<1>j. job \in [JobIds -> Job]
  BY DEF TypeOK
<1>s. slot \in [Slots -> Slot]
  BY DEF TypeOK
<1>c. client \in [Clients -> Client]
  BY DEF TypeOK
<1>1. ASSUME NEW s \in Slots, NEW j \in JobIds, Claim(s, j)
      PROVE  TypeOK'
  <2>1. job' \in [JobIds -> Job]
    BY <1>j, <1>1, RowTypes DEF Claim
  <2>2. slot' \in [Slots -> Slot]
    BY ConstantTypes, <1>s, <1>1, SlotTypes DEF Claim
  <2>3. QED
    BY <1>t, <1>c, <1>1, <2>1, <2>2 DEF Claim, TypeOK
<1>2. ASSUME NEW s \in Slots, ClaimNothing(s)
      PROVE  TypeOK'
  BY <1>t, <1>j, <1>s, <1>c, <1>2, SlotTypes DEF ClaimNothing, TypeOK
<1>3. ASSUME NEW s \in Slots, ExtractSucceeds(s)
      PROVE  TypeOK'
  <2>1. slot[s].job \in JobIds
    BY <1>s, <1>3, BusySlots DEF ExtractSucceeds, Busy
  <2>2. slot' \in [Slots -> Slot]
    BY ConstantTypes, <1>s, <1>3, <2>1, SlotTypes DEF ExtractSucceeds
  <2>3. QED
    BY <1>t, <1>j, <1>c, <1>3, <2>2 DEF ExtractSucceeds, TypeOK
<1>4. ASSUME NEW s \in Slots, NEW error \in {"retryable", "not_found"},
             ExtractFails(s, error)
      PROVE  TypeOK'
  <2>1. slot[s].job \in JobIds
    BY <1>s, <1>4, BusySlots DEF ExtractFails, Busy
  <2>2. slot' \in [Slots -> Slot]
    BY ConstantTypes, <1>s, <1>4, <2>1, SlotTypes DEF ExtractFails
  <2>3. QED
    BY <1>t, <1>j, <1>c, <1>4, <2>2 DEF ExtractFails, TypeOK
<1>5. ASSUME NEW s \in Slots, LoadSucceeds(s)
      PROVE  TypeOK'
  <2>1. slot[s].job \in JobIds
    BY <1>s, <1>5, BusySlots DEF LoadSucceeds, Busy
  <2>2. job' \in [JobIds -> Job]
    BY <1>j, <1>5, <2>1, RowTypes DEF LoadSucceeds, Terminal
  <2>3. slot' \in [Slots -> Slot]
    BY <1>s, <1>5, SlotTypes DEF LoadSucceeds
  <2>4. QED
    BY <1>t, <1>c, <1>5, <2>2, <2>3 DEF LoadSucceeds, TypeOK
<1>6. ASSUME NEW s \in Slots, LoadFails(s)
      PROVE  TypeOK'
  <2>1. slot[s].job \in JobIds /\ slot[s].left \in Nat
    BY <1>s, <1>6, BusySlots DEF LoadFails, Busy
  <2>2. slot' \in [Slots -> Slot]
    BY <1>s, <1>6, <2>1, SlotTypes DEF LoadFails
  <2>3. QED
    BY <1>t, <1>j, <1>c, <1>6, <2>2 DEF LoadFails, TypeOK
<1>7. ASSUME NEW s \in Slots, NEW delay \in RetryDelays,
             RecordFailure(s, delay)
      PROVE  TypeOK'
  <2>1. slot[s].job \in JobIds
    BY <1>s, <1>7, BusySlots DEF RecordFailure, Busy
  <2>2. job' \in [JobIds -> Job]
    BY ConstantTypes, <1>j, <1>7, <2>1, RowTypes DEF RecordFailure, Terminal
  <2>3. slot' \in [Slots -> Slot]
    BY <1>s, <1>7, SlotTypes DEF RecordFailure
  <2>4. target' \in [Cards -> {"absent", "enabled", "disabled", "deleted"}]
    BY <1>t, <1>7 DEF RecordFailure
  <2>5. QED
    BY <1>t, <1>c, <1>7, <2>2, <2>3, <2>4 DEF RecordFailure, TypeOK
<1>8. ASSUME NEW p \in Procs, Die(p)
      PROVE  TypeOK'
  BY <1>t, <1>j, <1>s, <1>c, <1>8, SlotTypes DEF Die, TypeOK
<1>9. ASSUME NEW s \in Slots, SlotStep(s)
      PROVE  TypeOK'
  BY ConstantTypes, <1>1, <1>2, <1>3, <1>4, <1>5, <1>6, <1>7, <1>8, <1>9
  DEF SlotStep, RecordFailureRaises
<1>10. ASSUME NEW q \in Clients, ClientStep(q)
       PROVE  TypeOK'
  <2>1. ASSUME NEW c \in Cards, NEW j \in JobIds, EnqueueNew(q, c, j)
        PROVE  TypeOK'
    BY <1>t, <1>j, <1>s, <1>c, <2>1, NewRowTypes
    DEF EnqueueNew, InsertJob, TypeOK
  <2>2. ASSUME NEW c \in Cards, NEW j \in JobIds, EnqueueConflict(q, c, j)
        PROVE  TypeOK'
    BY <1>t, <1>j, <1>s, <1>c, <2>2 DEF EnqueueConflict, Client, TypeOK
  <2>3. CASE EnqueueJoin(q)
    BY <1>t, <1>j, <1>s, <1>c, <2>3
    DEF EnqueueJoin, ActiveJobs, NoRequest, Client, TypeOK
  <2>4. QED
    BY <1>10, <2>1, <2>2, <2>3 DEF ClientStep
<1>11. ASSUME NEW c \in Cards, OperatorStep(c)
       PROVE  TypeOK'
  <2>1. ASSUME NEW j \in JobIds, NEW delay \in ScheduleDelays,
               NEW all \in BOOLEAN, ScheduleCard(c, j, delay, all)
        PROVE  TypeOK'
    BY ConstantTypes, <1>t, <1>j, <1>s, <1>c, <2>1, NewRowTypes
    DEF ScheduleCard, InsertJob, TypeOK
  <2>2. CASE ResetTarget(c)
    BY <1>t, <1>j, <1>s, <1>c, <2>2 DEF ResetTarget, TypeOK
  <2>3. CASE DeleteCard(c)
    BY <1>t, <1>j, <1>s, <1>c, <2>3, RowTypes DEF DeleteCard, TypeOK
  <2>4. QED
    BY <1>11, <2>1, <2>2, <2>3 DEF OperatorStep
<1>12. ASSUME NEW p \in Procs, ProcStep(p)
       PROVE  TypeOK'
  <2>1. CASE NextRound(p)
    BY <1>t, <1>j, <1>s, <1>c, <2>1, SlotTypes DEF NextRound, TypeOK
  <2>2. CASE Restart(p)
    BY <1>t, <1>j, <1>s, <1>c, <2>2 DEF Restart, TypeOK
  <2>3. QED
    BY <1>8, <1>12, <2>1, <2>2 DEF ProcStep, Crash
<1>13. CASE Tick
  <2>1. job' \in [JobIds -> Job]
    BY <1>j, <1>13, RowTypes DEF Tick
  <2>2. slot' \in [Slots -> Slot]
    BY <1>s, <1>13 DEF Tick, Down, Slot
  <2>3. QED
    BY <1>t, <1>c, <1>13, <2>1, <2>2 DEF Tick, TypeOK
<1>14. CASE UNCHANGED vars
  BY <1>14 DEF vars, TypeOK
<1>15. QED
  BY <1>9, <1>10, <1>11, <1>12, <1>13, <1>14 DEF Next

(* Every behaviour keeps every variable in its type.                       *)
THEOREM Typing == Spec => []TypeOK
  BY InitTypes, NextTypes, PTL DEF Spec

-----------------------------------------------------------------------------
(* A step after which every active row was already active and has its card *)
(* cannot break uniqueness.                                                *)
LEMMA UniqueKept ==
    ASSUME UniqueActiveJob,
           \A j \in JobIds : IsActive(j)' =>
               IsActive(j) /\ job'[j].card = job[j].card
    PROVE  UniqueActiveJob'
  BY DEF UniqueActiveJob, IsActive

(* The partial unique index: an insert finds no active row of its card.    *)
LEMMA UniqueInserted ==
    ASSUME TypeOK, UniqueActiveJob,
           NEW c \in Cards, NEW j \in JobIds,
           NEW priority, NEW delay, InsertJob(c, j, priority, delay)
    PROVE  UniqueActiveJob'
<1>1. \A k \in JobIds : IsActive(k) => job[k].card # c
  BY DEF InsertJob, ActiveJobs
<1>2. /\ job'[j].card = c
      /\ \A k \in JobIds \ {j} : job'[k] = job[k]
  BY DEF InsertJob, NewJob, Row, TypeOK
<1>3. QED
  BY <1>1, <1>2 DEF UniqueActiveJob, IsActive

(* Uniqueness is inductive by itself, given the types.                     *)
LEMMA NextUnique == TypeOK /\ UniqueActiveJob /\ [Next]_vars => UniqueActiveJob'
<1> SUFFICES ASSUME TypeOK, UniqueActiveJob, [Next]_vars
             PROVE  UniqueActiveJob'
  OBVIOUS
<1>j. job \in [JobIds -> Job] /\ slot \in [Slots -> Slot]
  BY DEF TypeOK
<1>1. ASSUME job' = job
      PROVE  UniqueActiveJob'
  BY <1>1, UniqueKept DEF IsActive
<1>2. ASSUME NEW s \in Slots, NEW j \in JobIds, Claim(s, j)
      PROVE  UniqueActiveJob'
  <2>1. IsActive(j)
    BY <1>2 DEF Claim, Claimable, IsActive, Active
  <2>2. job'[j].card = job[j].card /\ \A k \in JobIds \ {j} : job'[k] = job[k]
    BY <1>j, <1>2 DEF Claim, Claimed, Row
  <2>3. QED
    BY <2>1, <2>2, UniqueKept DEF IsActive
<1>3. ASSUME NEW s \in Slots, LoadSucceeds(s)
      PROVE  UniqueActiveJob'
  <2>1. slot[s].job \in JobIds
    BY <1>j, <1>3, BusySlots DEF LoadSucceeds, Busy
  <2>2. job'[slot[s].job].status = "succeeded"
    BY <1>j, <1>3, <2>1 DEF LoadSucceeds, Ended, Row
  <2>3. \A k \in JobIds \ {slot[s].job} : job'[k] = job[k]
    BY <1>j, <1>3, <2>1 DEF LoadSucceeds
  <2>4. QED
    BY <2>2, <2>3, UniqueKept DEF IsActive, Active
<1>4. ASSUME NEW s \in Slots, NEW delay \in RetryDelays,
             RecordFailure(s, delay)
      PROVE  UniqueActiveJob'
  <2> DEFINE j == slot[s].job
  <2>1. j \in JobIds
    BY <1>j, <1>4, BusySlots DEF RecordFailure, Busy
  <2>2. \A k \in JobIds \ {j} : job'[k] = job[k]
    BY <1>j, <1>4, <2>1 DEF RecordFailure
  <2>3. job'[j].card = job[j].card
    BY <1>j, <1>4, <2>1 DEF RecordFailure, Ended, Retried, Row
  <2>4. CASE EndsJob(s)
    <3>1. job'[j].status = "failed"
      BY <1>j, <1>4, <2>1, <2>4 DEF RecordFailure, Ended, Row
    <3>2. QED
      BY <2>2, <3>1, UniqueKept DEF IsActive, Active
  <2>5. CASE ~EndsJob(s)
    <3>1. ActiveJobs(job[j].card) \ {j} = {}
      BY <1>4, <2>5 DEF RecordFailure, RecordBreaks
    <3>2. \A k \in JobIds \ {j} : IsActive(k) => job[k].card # job[j].card
      BY <3>1 DEF ActiveJobs
    <3>3. QED
      BY <2>2, <2>3, <3>2 DEF UniqueActiveJob, IsActive
  <2>6. QED
    BY <2>4, <2>5
<1>5. ASSUME NEW s \in Slots, SlotStep(s)
      PROVE  UniqueActiveJob'
  <2>1. CASE ClaimNothing(s) \/ ExtractSucceeds(s) \/ LoadFails(s)
             \/ RecordFailureRaises(s)
    BY <1>1, <2>1
    DEF ClaimNothing, ExtractSucceeds, LoadFails, RecordFailureRaises, Die
  <2>2. ASSUME NEW error, ExtractFails(s, error)
        PROVE  UniqueActiveJob'
    BY <1>1, <2>2 DEF ExtractFails
  <2>3. QED
    BY <1>2, <1>3, <1>4, <1>5, <2>1, <2>2 DEF SlotStep
<1>6. ASSUME NEW q \in Clients, ClientStep(q)
      PROVE  UniqueActiveJob'
  BY <1>1, <1>6, UniqueInserted
  DEF ClientStep, EnqueueNew, EnqueueConflict, EnqueueJoin
<1>7. ASSUME NEW c \in Cards, OperatorStep(c)
      PROVE  UniqueActiveJob'
  <2>1. CASE DeleteCard(c)
    <3>1. \A k \in JobIds : \/ job'[k] = job[k]
                            \/ job'[k].status = "gone"
      BY <2>1 DEF DeleteCard, Ended, Row
    <3>2. QED
      BY <3>1, UniqueKept DEF IsActive, Active
  <2>2. CASE ResetTarget(c)
    BY <1>1, <2>2 DEF ResetTarget
  <2>3. ASSUME NEW j \in JobIds, NEW delay, NEW all, ScheduleCard(c, j, delay, all)
        PROVE  UniqueActiveJob'
    BY <2>3, UniqueInserted DEF ScheduleCard
  <2>4. QED
    BY <1>7, <2>1, <2>2, <2>3 DEF OperatorStep
<1>8. ASSUME NEW p \in Procs, ProcStep(p)
      PROVE  UniqueActiveJob'
  BY <1>1, <1>8 DEF ProcStep, NextRound, Crash, Die, Restart
<1>9. CASE Tick
  <2>1. \A k \in JobIds : /\ job'[k].status = job[k].status
                          /\ job'[k].card = job[k].card
    BY <1>9 DEF Tick, Aged, Row
  <2>2. QED
    BY <2>1, UniqueKept DEF IsActive
<1>10. CASE UNCHANGED vars
  BY <1>1, <1>10 DEF vars
<1>11. QED
  BY <1>5, <1>6, <1>7, <1>8, <1>9, <1>10 DEF Next

(* A card never has two active jobs, even when leases expire under slow    *)
(* loads and late results arrive.                                          *)
THEOREM UniqueActive == Spec => []UniqueActiveJob
<1>1. Init => UniqueActiveJob
  BY DEF Init, UniqueActiveJob, IsActive, Active, NoRow, Row
<1>2. QED
  BY <1>1, NextUnique, Typing, PTL DEF Spec

-----------------------------------------------------------------------------
(* What a request inside enqueue_for_card waits on.                        *)
Joinable(c, j) ==
    /\ target[c] = "enabled"
    /\ job[j].card = c
    /\ job[j].status \in Active \cup {"failed"}

LEMMA JoinTypes ==
    ASSUME TypeOK, NEW q \in Clients, client[q].phase = "joining"
    PROVE  client[q].card \in Cards /\ client[q].job \in JobIds
  BY DEF TypeOK, Client

(* A step that lets no request in keeps the property when what it does to  *)
(* a locked target and its jobs is harmless.                               *)
LEMMA JoinKept ==
    ASSUME TypeOK, JoinIsSafe,
           \A q \in Clients : client'[q].phase = "joining" =>
              client[q].phase = "joining" /\ client'[q] = client[q],
           \A c \in Cards, j \in JobIds :
              TargetLocked(c) /\ Joinable(c, j) => Joinable(c, j)'
    PROVE  JoinIsSafe'
<1> SUFFICES ASSUME NEW q \in Clients, client'[q].phase = "joining"
             PROVE  /\ target'[client'[q].card] = "enabled"
                    /\ job'[client'[q].job].card = client'[q].card
                    /\ job'[client'[q].job].status \in Active \cup {"failed"}
  BY DEF JoinIsSafe, Active
<1> DEFINE c == client[q].card
           j == client[q].job
<1>1. client[q].phase = "joining" /\ client'[q] = client[q]
  OBVIOUS
<1>2. c \in Cards /\ j \in JobIds
  BY <1>1, JoinTypes
<1>3. TargetLocked(c) /\ Joinable(c, j)
  BY <1>1 DEF TargetLocked, JoinIsSafe, Joinable
<1>4. /\ target'[c] = "enabled"
      /\ job'[j].card = c
      /\ job'[j].status \in Active \cup {"failed"}
  BY <1>2, <1>3 DEF Joinable, Active
<1>5. QED
  BY <1>1, <1>4

LEMMA NextJoin ==
    ASSUME TypeOK, JoinIsSafe, [Next]_vars
    PROVE  JoinIsSafe'
<1>j. job \in [JobIds -> Job] /\ slot \in [Slots -> Slot]
      /\ target \in [Cards -> {"absent", "enabled", "disabled", "deleted"}]
      /\ client \in [Clients -> Client]
  BY DEF TypeOK
<1>1. ASSUME client' = client, target' = target, job' = job
      PROVE  JoinIsSafe'
  BY <1>1 DEF JoinIsSafe
(* Requests.                                                               *)
<1>2. ASSUME NEW q \in Clients, NEW c \in Cards, NEW j \in JobIds,
             EnqueueConflict(q, c, j)
      PROVE  JoinIsSafe'
  <2>1. /\ target' = target /\ job' = job
        /\ Joinable(c, j)
    BY <1>2 DEF EnqueueConflict, ActiveJobs, IsActive, Joinable
  <2>2. client'[q] = [phase |-> "joining", card |-> c, job |-> j]
        /\ \A r \in Clients \ {q} : client'[r] = client[r]
    BY <1>j, <1>2 DEF EnqueueConflict
  <2>3. QED
    BY <2>1, <2>2 DEF JoinIsSafe, Joinable
<1>3. ASSUME NEW q \in Clients, EnqueueJoin(q)
      PROVE  JoinIsSafe'
  BY <1>j, <1>3 DEF EnqueueJoin, JoinIsSafe, NoRequest
(* A new job takes the place of no other, and its target is not locked.    *)
<1>4. ASSUME NEW c \in Cards, NEW j \in JobIds, NEW priority, NEW delay,
             InsertJob(c, j, priority, delay), client' = client,
             target' = [target EXCEPT ![c] = "enabled"]
      PROVE  JoinIsSafe'
  <2>1. job[j].status = "none" /\ \A k \in JobIds \ {j} : job'[k] = job[k]
    BY <1>j, <1>4 DEF InsertJob
  <2>2. \A d \in Cards : target[d] = "enabled" => target'[d] = "enabled"
    BY <1>j, <1>4
  <2>3. \A d \in Cards, k \in JobIds : Joinable(d, k) => Joinable(d, k)'
    BY <2>1, <2>2 DEF Joinable, Active
  <2>4. QED
    BY <1>4, <2>3, JoinKept
<1>5. ASSUME NEW q \in Clients, ClientStep(q)
      PROVE  JoinIsSafe'
  BY <1>2, <1>3, <1>4, <1>5 DEF ClientStep, EnqueueNew
(* Operators.                                                              *)
<1>6. ASSUME NEW c \in Cards, OperatorStep(c)
      PROVE  JoinIsSafe'
  <2>1. CASE DeleteCard(c)
    <3>1. \A d \in Cards \ {c} : target'[d] = target[d]
      BY <1>j, <2>1 DEF DeleteCard
    <3>2. \A k \in JobIds : job[k].card # c => job'[k] = job[k]
      BY <2>1 DEF DeleteCard
    <3>3. \A d \in Cards, k \in JobIds :
             TargetLocked(d) /\ Joinable(d, k) => Joinable(d, k)'
      BY <2>1, <3>1, <3>2 DEF DeleteCard, Joinable
    <3>4. QED
      BY <2>1, <3>3, JoinKept DEF DeleteCard
  <2>2. CASE ResetTarget(c)
    <3>1. \A d \in Cards, k \in JobIds : Joinable(d, k) => Joinable(d, k)'
      BY <1>j, <2>2 DEF ResetTarget, Joinable
    <3>2. QED
      BY <2>2, <3>1, JoinKept DEF ResetTarget
  <2>3. ASSUME NEW j \in JobIds, NEW delay, NEW all, ScheduleCard(c, j, delay, all)
        PROVE  JoinIsSafe'
    BY <1>4, <2>3 DEF ScheduleCard
  <2>4. QED
    BY <1>6, <2>1, <2>2, <2>3 DEF OperatorStep
(* Workers.                                                                *)
<1>7. ASSUME NEW s \in Slots, NEW j \in JobIds, Claim(s, j)
      PROVE  JoinIsSafe'
  <2>1. /\ job'[j].status = "running" /\ job'[j].card = job[j].card
        /\ \A k \in JobIds \ {j} : job'[k] = job[k]
    BY <1>j, <1>7 DEF Claim, Claimed, Row
  <2>2. \A d \in Cards, k \in JobIds : Joinable(d, k) => Joinable(d, k)'
    BY <1>7, <2>1 DEF Claim, Joinable, Active
  <2>3. QED
    BY <1>7, <2>2, JoinKept DEF Claim
<1>8. ASSUME NEW s \in Slots, LoadSucceeds(s)
      PROVE  JoinIsSafe'
  <2> DEFINE j == slot[s].job
  <2>1. j \in JobIds
    BY <1>j, <1>8, BusySlots DEF LoadSucceeds, Busy
  <2>2. ~TargetLocked(job[j].card)
    BY <1>8 DEF LoadSucceeds
  <2>3. \A k \in JobIds \ {j} : job'[k] = job[k]
    BY <1>j, <1>8, <2>1 DEF LoadSucceeds
  <2>4. \A d \in Cards, k \in JobIds :
           TargetLocked(d) /\ Joinable(d, k) => Joinable(d, k)'
    BY <1>8, <2>2, <2>3 DEF LoadSucceeds, Joinable
  <2>5. QED
    BY <1>8, <2>4, JoinKept DEF LoadSucceeds
<1>9. ASSUME NEW s \in Slots, NEW delay, RecordFailure(s, delay)
      PROVE  JoinIsSafe'
  <2> DEFINE j == slot[s].job
             c == job[slot[s].job].card
  <2>1. j \in JobIds
    BY <1>j, <1>9, BusySlots DEF RecordFailure, Busy
  <2>2. /\ job'[j].status \in {"failed", "retry_wait"} /\ job'[j].card = c
        /\ \A k \in JobIds \ {j} : job'[k] = job[k]
    BY <1>j, <1>9, <2>1 DEF RecordFailure, Ended, Retried, Row
  <2>3. \A d \in Cards : TargetLocked(d) => target'[d] = target[d]
    BY <1>j, <1>9 DEF RecordFailure
  <2>4. \A d \in Cards, k \in JobIds :
           TargetLocked(d) /\ Joinable(d, k) => Joinable(d, k)'
    BY <2>2, <2>3 DEF Joinable, Active
  <2>5. QED
    BY <1>9, <2>4, JoinKept DEF RecordFailure
<1>10. ASSUME NEW s \in Slots, SlotStep(s)
       PROVE  JoinIsSafe'
  BY <1>1, <1>7, <1>8, <1>9, <1>10
  DEF SlotStep, ClaimNothing, ExtractSucceeds, ExtractFails, LoadFails,
      RecordFailureRaises, Die
<1>11. ASSUME NEW p \in Procs, ProcStep(p)
       PROVE  JoinIsSafe'
  BY <1>1, <1>11 DEF ProcStep, NextRound, Crash, Die, Restart
<1>12. CASE Tick
  <2>1. \A k \in JobIds : /\ job'[k].status = job[k].status
                          /\ job'[k].card = job[k].card
    BY <1>12 DEF Tick, Aged, Row
  <2>2. \A d \in Cards, k \in JobIds : Joinable(d, k) => Joinable(d, k)'
    BY <1>12, <2>1 DEF Tick, Joinable
  <2>3. QED
    BY <1>12, <2>2, JoinKept DEF Tick
<1>13. CASE UNCHANGED vars
  BY <1>1, <1>13 DEF vars
<1>14. QED
  BY <1>5, <1>6, <1>10, <1>11, <1>12, <1>13 DEF Next

(* While a search waits on the active job it collided with, its target     *)
(* stays enabled and that job neither succeeds nor goes, however long      *)
(* loads take: the row lock of its first statement sees to it.             *)
THEOREM SafeJoin == Spec => []JoinIsSafe
<1>1. Init => JoinIsSafe
  BY DEF Init, JoinIsSafe, NoRequest
<1>2. TypeOK /\ JoinIsSafe /\ [Next]_vars => JoinIsSafe'
  BY NextJoin
<1>3. QED
  BY <1>1, <1>2, Typing, PTL DEF Spec

-----------------------------------------------------------------------------
(* With prompt loads: they end within the budget, and a job that times out *)
(* and then takes all of it is over before its lease is.                   *)

LoadsPrompt == ~LoadsMayStall /\ JobTimeout + LoadBudget < Lease

(* The parts of the inductive invariant that are not proved elsewhere.     *)
LeaseInv ==
    /\ ExclusiveHolder
    /\ HolderIsCurrent
    /\ DisabledIsQuiet

-----------------------------------------------------------------------------
(* A row some slot works on is never claimable.                            *)
LEMMA HeldNotClaimable ==
    ASSUME TypeOK, LeaseInv, NEW s \in Slots, Busy(s)
    PROVE  /\ slot[s].job \in JobIds
           /\ ~Claimable(slot[s].job)
<1>1. slot[s].job \in JobIds /\ slot[s].left \in Nat
  BY BusySlots DEF TypeOK
<1>2. TimeLeft(s) \in Nat
  BY <1>1, ConstantTypes DEF TimeLeft
<1>3. job[slot[s].job].lease \in Nat
  BY <1>1 DEF TypeOK, Job
<1>4. CASE job[slot[s].job].status = "gone"
  BY <1>1, <1>4 DEF Claimable
<1>5. CASE job[slot[s].job].status # "gone"
  <2>1. /\ job[slot[s].job].status = "running"
        /\ job[slot[s].job].lease > TimeLeft(s)
    BY <1>5 DEF LeaseInv, HolderIsCurrent
  <2>2. job[slot[s].job].lease # 0
    BY <1>2, <1>3, <2>1
  <2>3. QED
    BY <1>1, <2>1, <2>2 DEF Claimable
<1>6. QED
  BY <1>4, <1>5

(* A slot that finishes, or keeps its job, disturbs no other slot as long  *)
(* as rows change only where nobody else works.                            *)
LEMMA SlotsKept ==
    ASSUME LeaseInv, TypeOK, TypeOK',
           \A t \in Slots : Busy(t)' =>
              /\ Busy(t)
              /\ slot'[t].job = slot[t].job
              /\ TimeLeft(t)' <= TimeLeft(t)
              /\ \/ job'[slot[t].job] = job[slot[t].job]
                 \/ job'[slot[t].job].status = "gone"
    PROVE  ExclusiveHolder' /\ HolderIsCurrent'
<1>1. ExclusiveHolder'
  BY DEF LeaseInv, ExclusiveHolder
<1>2. ASSUME NEW t \in Slots, Busy(t)', job'[slot'[t].job].status # "gone"
      PROVE  /\ job'[slot'[t].job].status = "running"
             /\ job'[slot'[t].job].lease > TimeLeft(t)'
  <2>1. /\ Busy(t)
        /\ slot'[t].job = slot[t].job
        /\ TimeLeft(t)' <= TimeLeft(t)
        /\ job'[slot[t].job] = job[slot[t].job]
    BY <1>2
  <2>2. /\ job[slot[t].job].status = "running"
        /\ job[slot[t].job].lease > TimeLeft(t)
    BY <1>2, <2>1 DEF LeaseInv, HolderIsCurrent
  <2>3. slot[t].job \in JobIds /\ slot[t].left \in Nat /\ slot'[t].left \in Nat
    BY <2>1, BusySlots DEF TypeOK, Slot
  <2>4. TimeLeft(t) \in Int /\ TimeLeft(t)' \in Int
    BY <2>3, ConstantTypes DEF TimeLeft
  <2>5. job[slot[t].job].lease \in Int
    BY <2>3 DEF TypeOK, Job
  <2>6. QED
    BY <2>1, <2>2, <2>4, <2>5
<1>3. HolderIsCurrent'
  BY <1>2 DEF HolderIsCurrent
<1>4. QED
  BY <1>1, <1>3

(* Targets and activity unchanged or reduced: disabled targets stay quiet. *)
LEMMA QuietKept ==
    ASSUME DisabledIsQuiet,
           \A c \in Cards : target'[c] = "disabled" => target[c] = "disabled",
           \A j \in JobIds : IsActive(j)' =>
               IsActive(j) /\ job'[j].card = job[j].card
    PROVE  DisabledIsQuiet'
  BY DEF DisabledIsQuiet, ActiveJobs, IsActive

(* A slot leaves its job when it is done, and no other slot has that job.  *)
LEMMA NobodyElse ==
    ASSUME ExclusiveHolder, NEW s \in Slots, Busy(s), NEW t \in Slots,
           Busy(t), t # s
    PROVE  slot[t].job # slot[s].job
  BY DEF ExclusiveHolder

(* After s is done every other slot is as it was.                          *)
LEMMA DoneSlots ==
    ASSUME slot \in [Slots -> Slot], NEW s \in Slots,
           slot' = [slot EXCEPT ![s] = Done]
    PROVE  /\ ~Busy(s)'
           /\ \A t \in Slots \ {s} :
                 slot'[t] = slot[t] /\ Busy(t)' = Busy(t)
                 /\ TimeLeft(t)' = TimeLeft(t)
  BY DEF Busy, Done, SlotIn, TimeLeft

(* A slot that is done leaves the others theirs.                           *)
LEMMA DoneKeeps ==
    ASSUME LeaseInv, TypeOK, TypeOK', NEW s \in Slots,
           slot' = [slot EXCEPT ![s] = Done],
           \A t \in Slots \ {s} : Busy(t) => job'[slot[t].job] = job[slot[t].job]
    PROVE  ExclusiveHolder' /\ HolderIsCurrent'
<1>1. slot \in [Slots -> Slot]
  BY DEF TypeOK
<1>2. \A t \in Slots : TimeLeft(t) \in Nat
  BY <1>1, ConstantTypes, BusySlots DEF TimeLeft
<1>3. /\ ~Busy(s)'
      /\ \A t \in Slots \ {s} :
            slot'[t] = slot[t] /\ Busy(t)' = Busy(t)
            /\ TimeLeft(t)' = TimeLeft(t)
  BY <1>1, DoneSlots
<1>4. ASSUME NEW t \in Slots, Busy(t)'
      PROVE  /\ Busy(t)
             /\ slot'[t].job = slot[t].job
             /\ TimeLeft(t)' <= TimeLeft(t)
             /\ job'[slot[t].job] = job[slot[t].job]
  <2>1. t # s
    BY <1>3, <1>4
  <2>2. slot'[t] = slot[t] /\ Busy(t) /\ TimeLeft(t)' = TimeLeft(t)
    BY <1>3, <1>4, <2>1
  <2>3. TimeLeft(t)' <= TimeLeft(t)
    BY <1>2, <2>2
  <2>4. QED
    BY <2>1, <2>2, <2>3
<1>5. QED
  BY <1>4, SlotsKept

-----------------------------------------------------------------------------
(* The lease invariant is inductive, given the types and uniqueness.       *)
LEMMA NextLease ==
    ASSUME LoadsPrompt, TypeOK, TypeOK', UniqueActiveJob, LeaseInv,
           [Next]_vars
    PROVE  LeaseInv'
<1>j. job \in [JobIds -> Job] /\ slot \in [Slots -> Slot]
  BY DEF TypeOK
<1>i. ExclusiveHolder /\ HolderIsCurrent /\ DisabledIsQuiet
  BY DEF LeaseInv
<1>n. \A t \in Slots : TimeLeft(t) \in Nat
  BY <1>j, ConstantTypes, BusySlots DEF TimeLeft
(* Steps that leave slots and rows alone, or targets and rows alone.       *)
<1>1. ASSUME slot' = slot, job' = job
      PROVE  ExclusiveHolder' /\ HolderIsCurrent'
  BY <1>1, <1>i DEF ExclusiveHolder, HolderIsCurrent, Busy, TimeLeft
<1>2. ASSUME target' = target, job' = job
      PROVE  DisabledIsQuiet'
  BY <1>2, <1>i, QuietKept DEF IsActive
<1>3. ASSUME NEW s \in Slots, NEW j \in JobIds, Claim(s, j)
      PROVE  LeaseInv'
  <2>1. /\ slot'[s].job = j /\ slot'[s].phase = "extract"
        /\ slot'[s].left = JobTimeout
        /\ \A t \in Slots \ {s} : slot'[t] = slot[t]
    BY <1>j, <1>3 DEF Claim, SlotIn
  <2>2. /\ job'[j].status = "running" /\ job'[j].lease = Lease
        /\ job'[j].card = job[j].card
        /\ \A k \in JobIds \ {j} : job'[k] = job[k]
    BY <1>j, <1>3 DEF Claim, Claimed, Row
  <2>3. \A t \in Slots \ {s} : Busy(t) => slot[t].job \in JobIds \ {j}
    BY <1>3, HeldNotClaimable DEF Claim
  <2>4. \A t \in Slots \ {s} : /\ Busy(t)' = Busy(t)
                               /\ TimeLeft(t)' = TimeLeft(t)
    BY <2>1 DEF Busy, TimeLeft
  <2>5. ExclusiveHolder'
    BY <1>i, <2>1, <2>3, <2>4 DEF ExclusiveHolder
  <2>6. TimeLeft(s)' < Lease
    BY <2>1, ConstantTypes DEF TimeLeft, LoadsPrompt
  <2>7. HolderIsCurrent'
    BY <1>i, <2>1, <2>2, <2>3, <2>4, <2>6 DEF HolderIsCurrent
  <2>8. IsActive(j)
    BY <1>3 DEF Claim, Claimable, IsActive, Active
  <2>9. DisabledIsQuiet'
    BY <1>i, <1>3, <2>2, <2>8, QuietKept DEF Claim, IsActive
  <2>10. QED
    BY <2>5, <2>7, <2>9 DEF LeaseInv
<1>4. ASSUME NEW s \in Slots, Busy(s), job' = job, target' = target,
             slot'[s].job = slot[s].job, TimeLeft(s)' <= TimeLeft(s),
             \A t \in Slots \ {s} : slot'[t] = slot[t]
      PROVE  LeaseInv'
  <2>1. \A t \in Slots \ {s} : /\ Busy(t)' = Busy(t)
                               /\ TimeLeft(t)' = TimeLeft(t)
    BY <1>4 DEF Busy, TimeLeft
  <2>2. ExclusiveHolder' /\ HolderIsCurrent'
    BY <1>4, <1>n, <2>1, SlotsKept
  <2>3. QED
    BY <1>2, <1>4, <2>2 DEF LeaseInv
<1>5. ASSUME NEW s \in Slots, ExtractSucceeds(s)
      PROVE  LeaseInv'
  <2>1. slot'[s] = SlotIn("load", slot[s].job, LoadBudget, "none")
        /\ slot[s].phase = "extract" /\ slot[s].left \in Nat
    BY <1>j, <1>5, BusySlots DEF ExtractSucceeds
  <2>2. slot'[s].job = slot[s].job /\ TimeLeft(s)' <= TimeLeft(s) /\ Busy(s)
    BY <2>1, ConstantTypes DEF SlotIn, TimeLeft, Busy
  <2>3. QED
    BY <1>4, <1>5, <2>2 DEF ExtractSucceeds
<1>6. ASSUME NEW s \in Slots, NEW error, ExtractFails(s, error)
      PROVE  LeaseInv'
  <2>1. slot'[s] = SlotIn("record", slot[s].job, LoadBudget, error)
        /\ slot[s].phase = "extract" /\ slot[s].left \in Nat
    BY <1>j, <1>6, BusySlots DEF ExtractFails
  <2>2. slot'[s].job = slot[s].job /\ TimeLeft(s)' <= TimeLeft(s) /\ Busy(s)
    BY <2>1, ConstantTypes DEF SlotIn, TimeLeft, Busy
  <2>3. QED
    BY <1>4, <1>6, <2>2 DEF ExtractFails
<1>7. ASSUME NEW s \in Slots, LoadFails(s)
      PROVE  LeaseInv'
  <2>1. slot'[s] = SlotIn("record", slot[s].job, slot[s].left, "retryable")
        /\ slot[s].phase = "load" /\ slot[s].left \in Nat
    BY <1>j, <1>7, BusySlots DEF LoadFails
  <2>2. slot'[s].job = slot[s].job /\ TimeLeft(s)' <= TimeLeft(s) /\ Busy(s)
    BY <2>1, ConstantTypes DEF SlotIn, TimeLeft, Busy
  <2>3. QED
    BY <1>4, <1>7, <2>2 DEF LoadFails
<1>8. ASSUME NEW s \in Slots, LoadSucceeds(s)
      PROVE  LeaseInv'
  <2> DEFINE j == slot[s].job
  <2>1. Busy(s) /\ j \in JobIds
    BY <1>j, <1>8, BusySlots DEF LoadSucceeds, Busy
  <2>2. job'[j].status = "succeeded" /\ \A k \in JobIds \ {j} : job'[k] = job[k]
    BY <1>j, <1>8, <2>1 DEF LoadSucceeds, Ended, Row
  <2>3. \A t \in Slots \ {s} : Busy(t) => slot[t].job \in JobIds \ {j}
    BY <1>i, <1>j, <2>1, NobodyElse, BusySlots
  <2>4. slot' = [slot EXCEPT ![s] = Done]
    BY <1>8 DEF LoadSucceeds
  <2>5. ExclusiveHolder' /\ HolderIsCurrent'
    BY <2>2, <2>3, <2>4, DoneKeeps
  <2>6. DisabledIsQuiet'
    BY <1>i, <1>8, <2>2, QuietKept DEF LoadSucceeds, IsActive, Active
  <2>7. QED
    BY <2>5, <2>6 DEF LeaseInv
<1>9. ASSUME NEW s \in Slots, NEW delay \in RetryDelays,
             RecordFailure(s, delay)
      PROVE  LeaseInv'
  <2> DEFINE j == slot[s].job
             c == job[slot[s].job].card
  <2>1. Busy(s) /\ j \in JobIds
    BY <1>j, <1>9, BusySlots DEF RecordFailure, Busy
  <2>2. job[j].status = "running"
    BY <1>i, <1>9, <2>1 DEF RecordFailure, RecordBreaks, HolderIsCurrent
  <2>3. /\ \A k \in JobIds \ {j} : job'[k] = job[k]
        /\ job'[j].card = job[j].card
        /\ EndsJob(s) => job'[j].status = "failed"
    BY <1>j, <1>9, <2>1 DEF RecordFailure, Ended, Retried, Row
  <2>4. \A t \in Slots \ {s} : Busy(t) => slot[t].job \in JobIds \ {j}
    BY <1>i, <1>j, <2>1, NobodyElse, BusySlots
  <2>5. slot' = [slot EXCEPT ![s] = Done]
    BY <1>9 DEF RecordFailure
  <2>6. ExclusiveHolder' /\ HolderIsCurrent'
    BY <2>3, <2>4, <2>5, DoneKeeps
  <2>7. DisabledIsQuiet'
    <3>1. IsActive(j)
      BY <2>2 DEF IsActive, Active
    <3>2. CASE slot[s].error = "not_found"
      <4>1. job'[j].status = "failed"
        BY <2>3, <3>2 DEF EndsJob
      <4>2. \A k \in JobIds \ {j} : IsActive(k) => job[k].card # c
        BY <2>1, <3>1 DEF UniqueActiveJob
      <4>3. \A d \in Cards : target'[d] = "disabled" =>
               target[d] = "disabled" \/ d = c
        BY <1>9 DEF RecordFailure, TypeOK
      <4>4. \A k \in JobIds : IsActive(k)' =>
               IsActive(k) /\ job'[k].card = job[k].card /\ job[k].card # c
        BY <2>3, <4>1, <4>2 DEF IsActive, Active
      <4>5. QED
        BY <1>i, <4>3, <4>4 DEF DisabledIsQuiet, ActiveJobs
    <3>3. CASE slot[s].error # "not_found"
      <4>1. target' = target
        BY <1>9, <3>3 DEF RecordFailure
      <4>2. QED
        BY <1>i, <2>3, <3>1, <4>1, QuietKept DEF IsActive
    <3>4. QED
      BY <3>2, <3>3
  <2>8. QED
    BY <2>6, <2>7 DEF LeaseInv
<1>10. ASSUME NEW p \in Procs, slot' = [s \in Slots |->
                 IF ProcOf[s] = p THEN Ready ELSE slot[s]],
              job' = job, target' = target
       PROVE  LeaseInv'
  <2>1. \A t \in Slots : Busy(t)' => slot'[t] = slot[t]
    BY <1>10 DEF Busy, Ready, SlotIn
  <2>2. \A t \in Slots : Busy(t)' => Busy(t) /\ TimeLeft(t)' = TimeLeft(t)
    BY <2>1 DEF Busy, TimeLeft
  <2>3. ExclusiveHolder' /\ HolderIsCurrent'
    BY <1>n, <1>10, <2>1, <2>2, SlotsKept
  <2>4. QED
    BY <1>2, <1>10, <2>3 DEF LeaseInv
<1>11. ASSUME NEW s \in Slots, ClaimNothing(s)
       PROVE  LeaseInv'
  <2>1. ExclusiveHolder' /\ HolderIsCurrent'
    BY <1>11, DoneKeeps DEF ClaimNothing
  <2>2. QED
    BY <1>2, <1>11, <2>1 DEF ClaimNothing, LeaseInv
<1>12. ASSUME NEW s \in Slots, SlotStep(s)
       PROVE  LeaseInv'
  <2>1. CASE RecordFailureRaises(s)
    <3>1. ProcOf[s] \in Procs
      BY ConstantTypes
    <3>2. QED
      BY <1>10, <2>1, <3>1 DEF RecordFailureRaises, Die
  <2>2. QED
    BY <1>3, <1>5, <1>6, <1>7, <1>8, <1>9, <1>11, <1>12, <2>1 DEF SlotStep
(* A new row is nobody's, and its target is enabled.                       *)
<1>13. ASSUME NEW c \in Cards, NEW j \in JobIds, NEW priority, NEW delay,
              InsertJob(c, j, priority, delay), slot' = slot,
              target' = [target EXCEPT ![c] = "enabled"]
       PROVE  LeaseInv'
  <2>1. /\ job[j].status = "none" /\ job'[j].card = c
        /\ \A k \in JobIds \ {j} : job'[k] = job[k]
    BY <1>j, <1>13 DEF InsertJob, NewJob, Row
  <2>2. \A t \in Slots : Busy(t) => slot[t].job \in JobIds \ {j}
    BY <1>i, <1>j, <2>1, BusySlots DEF HolderIsCurrent
  <2>3. \A t \in Slots : Busy(t)' = Busy(t) /\ TimeLeft(t)' = TimeLeft(t)
    BY <1>13 DEF Busy, TimeLeft
  <2>4. ExclusiveHolder' /\ HolderIsCurrent'
    BY <1>n, <1>13, <2>1, <2>2, <2>3, SlotsKept
  <2>5. DisabledIsQuiet'
    BY <1>i, <1>13, <2>1 DEF DisabledIsQuiet, ActiveJobs, IsActive, TypeOK
  <2>6. QED
    BY <2>4, <2>5 DEF LeaseInv
<1>14. ASSUME NEW q \in Clients, ClientStep(q)
       PROVE  LeaseInv'
  BY <1>1, <1>2, <1>13, <1>14
  DEF ClientStep, EnqueueNew, EnqueueConflict, EnqueueJoin, LeaseInv
<1>15. ASSUME NEW c \in Cards, OperatorStep(c)
       PROVE  LeaseInv'
  <2>1. CASE DeleteCard(c)
    <3>1. \A k \in JobIds : \/ job'[k] = job[k]
                            \/ job'[k].status = "gone"
      BY <2>1 DEF DeleteCard, Ended, Row
    <3>2. \A t \in Slots : Busy(t)' = Busy(t) /\ TimeLeft(t)' = TimeLeft(t)
      BY <2>1 DEF DeleteCard, Busy, TimeLeft
    <3>3. \A t \in Slots : Busy(t) => slot[t].job \in JobIds
      BY <1>j, BusySlots
    <3>4. ExclusiveHolder' /\ HolderIsCurrent'
      BY <1>n, <2>1, <3>1, <3>2, <3>3, SlotsKept DEF DeleteCard
    <3>5. DisabledIsQuiet'
      BY <1>i, <2>1, <3>1, QuietKept DEF DeleteCard, IsActive, Active, TypeOK
    <3>6. QED
      BY <3>4, <3>5 DEF LeaseInv
  <2>2. CASE ResetTarget(c)
    <3>1. DisabledIsQuiet'
      BY <1>i, <2>2, QuietKept DEF ResetTarget, IsActive, TypeOK
    <3>2. QED
      BY <1>1, <2>2, <3>1 DEF ResetTarget, LeaseInv
  <2>3. ASSUME NEW j \in JobIds, NEW delay, NEW all,
               ScheduleCard(c, j, delay, all)
        PROVE  LeaseInv'
    BY <1>13, <2>3 DEF ScheduleCard
  <2>4. QED
    BY <1>15, <2>1, <2>2, <2>3 DEF OperatorStep
<1>16. ASSUME NEW p \in Procs, ProcStep(p)
       PROVE  LeaseInv'
  <2>1. CASE Restart(p)
    BY <1>1, <1>2, <2>1 DEF Restart, LeaseInv
  <2>2. CASE NextRound(p) \/ Crash(p)
    BY <1>10, <2>2 DEF NextRound, Crash, Die
  <2>3. QED
    BY <1>16, <2>1, <2>2 DEF ProcStep
(* Time eats the lease and what the slot has left of it alike.             *)
<1>17. CASE Tick
  <2>1. \A t \in Slots : /\ slot'[t].phase = slot[t].phase
                         /\ slot'[t].job = slot[t].job
                         /\ slot'[t].left = Down(slot[t].left, 0)
    BY <1>j, <1>17 DEF Tick, Slot
  <2>2. \A k \in JobIds : /\ job'[k].status = job[k].status
                          /\ job'[k].card = job[k].card
                          /\ IsActive(k) => job'[k].lease = Down(job[k].lease, 0)
    BY <1>17 DEF Tick, Aged, Row
  <2>3. ExclusiveHolder'
    BY <1>i, <2>1 DEF ExclusiveHolder, Busy
  <2>4. ASSUME NEW t \in Slots, Busy(t)', job'[slot'[t].job].status # "gone"
        PROVE  /\ job'[slot'[t].job].status = "running"
               /\ job'[slot'[t].job].lease > TimeLeft(t)'
    <3>1. Busy(t) /\ slot[t].job \in JobIds /\ slot[t].left \in Nat
      BY <1>j, <2>1, <2>4, BusySlots DEF Busy
    <3>2. slot[t].left > 0
      BY <1>17, <3>1 DEF Tick, OnTime, LoadsPrompt
    <3>3. /\ job[slot[t].job].status = "running"
          /\ job[slot[t].job].lease > TimeLeft(t)
      BY <1>i, <2>1, <2>2, <2>4, <3>1 DEF HolderIsCurrent
    <3>4. job[slot[t].job].lease \in Nat
      BY <1>j, <3>1 DEF Job
    <3>5. TimeLeft(t)' = TimeLeft(t) - 1
      BY <2>1, <3>1, <3>2, ConstantTypes DEF TimeLeft, Down
    <3>6. job'[slot'[t].job].lease = job[slot[t].job].lease - 1
      BY <1>n, <2>1, <2>2, <3>1, <3>3, <3>4 DEF IsActive, Active, Down
    <3>7. QED
      BY <1>n, <2>1, <2>2, <3>1, <3>3, <3>4, <3>5, <3>6
  <2>5. HolderIsCurrent'
    BY <2>4 DEF HolderIsCurrent
  <2>6. DisabledIsQuiet'
    BY <1>i, <1>17, <2>2, QuietKept DEF Tick, IsActive
  <2>7. QED
    BY <2>3, <2>5, <2>6 DEF LeaseInv
<1>18. CASE UNCHANGED vars
  BY <1>1, <1>2, <1>18 DEF vars, LeaseInv
<1>19. QED
  BY <1>12, <1>14, <1>15, <1>16, <1>17, <1>18 DEF Next

LEMMA LeaseInvariance == ASSUME LoadsPrompt PROVE Spec => []LeaseInv
<1>1. Init => LeaseInv
  BY DEF Init, LeaseInv, ExclusiveHolder, HolderIsCurrent, DisabledIsQuiet,
         Busy, Ready, SlotIn
<1>2. TypeOK /\ TypeOK' /\ UniqueActiveJob /\ LeaseInv /\ [Next]_vars
        => LeaseInv'
  BY NextLease
<1>3. QED
  BY <1>1, <1>2, Typing, UniqueActive, PTL DEF Spec

(* With prompt loads no two process_once calls ever work on the same job.  *)
THEOREM Exclusive == ASSUME LoadsPrompt PROVE Spec => []ExclusiveHolder
<1>1. LeaseInv => ExclusiveHolder
  BY DEF LeaseInv
<1>2. QED
  BY <1>1, LeaseInvariance, PTL

(* With prompt loads a target disabled by a 404 has no active job.         *)
THEOREM NotFoundIsQuiet == ASSUME LoadsPrompt PROVE Spec => []DisabledIsQuiet
<1>1. LeaseInv => DisabledIsQuiet
  BY DEF LeaseInv
<1>2. QED
  BY <1>1, LeaseInvariance, PTL

(* With prompt loads nothing reopens a job that succeeded or failed.       *)
THEOREM Final == ASSUME LoadsPrompt PROVE Spec => TerminalIsFinal
<1> DEFINE Kept == \A j \in JobIds : job[j].status \in Terminal =>
                      job'[j].status \in {job[j].status, "gone"}
<1>1. ASSUME TypeOK, LeaseInv, [Next]_vars
      PROVE  [Kept]_vars
  <2>j. job \in [JobIds -> Job] /\ slot \in [Slots -> Slot]
    BY <1>1 DEF TypeOK
  <2>1. ASSUME NEW s \in Slots, NEW j \in JobIds, Claim(s, j)
        PROVE  Kept
    BY <2>j, <2>1 DEF Claim, Claimable, Terminal
  <2>2. ASSUME NEW s \in Slots, Busy(s), job[slot[s].job].status # "gone",
               \A k \in JobIds \ {slot[s].job} : job'[k] = job[k]
        PROVE  Kept
    <3>1. job[slot[s].job].status = "running"
      BY <1>1, <2>2 DEF LeaseInv, HolderIsCurrent
    <3>2. QED
      BY <2>2, <3>1 DEF Terminal
  <2>3. ASSUME NEW s \in Slots, LoadSucceeds(s)
        PROVE  Kept
    <3>1. \A k \in JobIds \ {slot[s].job} : job'[k] = job[k]
      BY <2>j, <2>3 DEF LoadSucceeds
    <3>2. QED
      BY <2>2, <2>3, <3>1 DEF LoadSucceeds, Busy
  <2>4. ASSUME NEW s \in Slots, NEW delay, RecordFailure(s, delay)
        PROVE  Kept
    <3>1. \A k \in JobIds \ {slot[s].job} : job'[k] = job[k]
      BY <2>j, <2>4 DEF RecordFailure
    <3>2. QED
      BY <2>2, <2>4, <3>1 DEF RecordFailure, RecordBreaks, Busy
  <2>5. ASSUME job' = job
        PROVE  Kept
    BY <2>5
  <2>6. ASSUME NEW c, NEW j, NEW priority, NEW delay,
               InsertJob(c, j, priority, delay)
        PROVE  Kept
    BY <2>j, <2>6 DEF InsertJob, Terminal
  <2>7. ASSUME NEW c \in Cards, DeleteCard(c)
        PROVE  Kept
    BY <2>j, <2>7 DEF DeleteCard, Ended, Row
  <2>8. CASE Tick
    BY <2>j, <2>8 DEF Tick, Aged, Row
  <2>9. ASSUME NEW s \in Slots, SlotStep(s)
        PROVE  Kept
    BY <2>1, <2>3, <2>4, <2>5, <2>9
    DEF SlotStep, ClaimNothing, ExtractSucceeds, ExtractFails, LoadFails,
        RecordFailureRaises, Die
  <2>10. ASSUME NEW q \in Clients, ClientStep(q)
         PROVE  Kept
    BY <2>5, <2>6, <2>10
    DEF ClientStep, EnqueueNew, EnqueueConflict, EnqueueJoin
  <2>11. ASSUME NEW c \in Cards, OperatorStep(c)
         PROVE  Kept
    BY <2>5, <2>6, <2>7, <2>11 DEF OperatorStep, ScheduleCard, ResetTarget
  <2>12. ASSUME NEW p \in Procs, ProcStep(p)
         PROVE  Kept
    BY <2>5, <2>12 DEF ProcStep, NextRound, Crash, Die, Restart
  <2>13. QED
    BY <1>1, <2>8, <2>9, <2>10, <2>11, <2>12 DEF Next
<1>2. TypeOK /\ LeaseInv /\ [Next]_vars => [Kept]_vars
  BY <1>1
<1>3. Spec => [][Kept]_vars
  BY <1>2, Typing, LeaseInvariance, PTL DEF Spec
<1>4. QED
  BY <1>3 DEF TerminalIsFinal

-----------------------------------------------------------------------------
(* Attempts: with prompt loads nobody claims a job that is still worked on, *)
(* so a claim follows a retry with attempts left, or a death.              *)
AttemptsInv == AttemptsLeft /\ AttemptsBounded

LEMMA AttemptTypes ==
    ASSUME TypeOK
    PROVE  /\ deaths \in Nat /\ MaxAttempts \in Nat
           /\ \A j \in JobIds : job[j].attempts \in Nat
  BY ConstantTypes DEF TypeOK, Job

(* Jobs that keep their attempts and whoever works on them, or that are    *)
(* over, disturb nothing.                                                  *)
LEMMA AttemptsKept ==
    ASSUME TypeOK, AttemptsInv, deaths' = deaths,
           \A j \in JobIds :
              /\ job'[j].attempts = job[j].attempts
              /\ \/ /\ job'[j].status = job[j].status
                    /\ Holders(j)' = {} => Holders(j) = {}
                 \/ job'[j].status \in Terminal \cup {"gone"}
    PROVE  AttemptsInv'
<1>1. AttemptsBounded'
  BY DEF AttemptsInv, AttemptsBounded
<1>2. AttemptsLeft'
  BY DEF AttemptsInv, AttemptsLeft, Terminal
<1>3. QED
  BY <1>1, <1>2 DEF AttemptsInv

(* A slot that finishes leaves the other jobs their holders.               *)
LEMMA OthersHeld ==
    ASSUME slot \in [Slots -> Slot], NEW s \in Slots,
           NEW new, slot' = [slot EXCEPT ![s] = new]
    PROVE  \A j \in JobIds : ~(Busy(s) /\ slot[s].job = j) =>
              Holders(j) \subseteq Holders(j)'
  BY DEF Holders, Busy

LEMMA NextAttempts ==
    ASSUME LoadsPrompt, TypeOK, TypeOK', LeaseInv, AttemptsInv, [Next]_vars
    PROVE  AttemptsInv'
<1>j. job \in [JobIds -> Job] /\ slot \in [Slots -> Slot]
  BY DEF TypeOK
<1>t. /\ deaths \in Nat /\ MaxAttempts \in Nat
      /\ \A j \in JobIds : job[j].attempts \in Nat
  BY AttemptTypes
<1>1. ASSUME job' = job, slot' = slot, deaths' = deaths
      PROVE  AttemptsInv'
  <2>1. \A j \in JobIds : Holders(j)' = Holders(j)
    BY <1>1 DEF Holders, Busy
  <2>2. QED
    BY <1>1, <2>1, AttemptsKept
(* A claim: the job waited, or it ran and nobody worked on it any more.    *)
<1>2. ASSUME NEW s \in Slots, NEW j \in JobIds, Claim(s, j)
      PROVE  AttemptsInv'
  <2>1. /\ job'[j].status = "running"
        /\ job'[j].attempts = job[j].attempts + 1
        /\ \A k \in JobIds \ {j} : job'[k] = job[k]
        /\ deaths' = deaths
    BY <1>j, <1>2 DEF Claim, Claimed, Row
  <2>2. /\ s \in Holders(j)'
        /\ ~Busy(s)
    BY <1>j, <1>2 DEF Claim, SlotIn, Holders, Busy
  <2>3. Holders(j) = {}
    BY <1>2, HeldNotClaimable DEF Claim, Holders
  <2>4. job[j].attempts < MaxAttempts + deaths
    BY <1>2, <1>t, <2>3 DEF Claim, Claimable, AttemptsInv, AttemptsLeft
  <2>5. AttemptsBounded'
    BY <1>t, <2>1, <2>4 DEF AttemptsInv, AttemptsBounded
  <2>6. \A k \in JobIds : Holders(k) \subseteq Holders(k)'
    BY <1>j, <1>2, <2>2, OthersHeld DEF Claim
  <2>7. AttemptsLeft'
    BY <2>1, <2>2, <2>6 DEF AttemptsInv, AttemptsLeft
  <2>8. QED
    BY <2>5, <2>7 DEF AttemptsInv
(* A slot that goes on with its job.                                       *)
<1>3. ASSUME NEW s \in Slots, job' = job, deaths' = deaths,
             Busy(s)', slot'[s].job = slot[s].job,
             \A t \in Slots \ {s} : slot'[t] = slot[t]
      PROVE  AttemptsInv'
  <2>1. \A j \in JobIds : Holders(j) \subseteq Holders(j)'
    BY <1>3 DEF Holders, Busy
  <2>2. QED
    BY <1>3, <2>1, AttemptsKept
<1>4. ASSUME NEW s \in Slots,
             ClaimNothing(s) \/ ExtractSucceeds(s) \/ LoadFails(s)
      PROVE  AttemptsInv'
  <2>1. CASE ClaimNothing(s)
    <3>1. ~Busy(s)
      BY <2>1 DEF ClaimNothing, Busy
    <3>2. \A j \in JobIds : Holders(j) \subseteq Holders(j)'
      BY <1>j, <2>1, <3>1, OthersHeld DEF ClaimNothing
    <3>3. QED
      BY <2>1, <3>2, AttemptsKept DEF ClaimNothing
  <2>2. CASE ExtractSucceeds(s)
    <3>1. /\ slot'[s].phase = "load" /\ slot'[s].job = slot[s].job
          /\ \A t \in Slots \ {s} : slot'[t] = slot[t]
      BY <1>j, <2>2 DEF ExtractSucceeds, SlotIn
    <3>2. Busy(s)'
      BY <3>1 DEF Busy
    <3>3. QED
      BY <1>3, <2>2, <3>1, <3>2 DEF ExtractSucceeds
  <2>3. CASE LoadFails(s)
    <3>1. /\ slot'[s].phase = "record" /\ slot'[s].job = slot[s].job
          /\ \A t \in Slots \ {s} : slot'[t] = slot[t]
      BY <1>j, <2>3 DEF LoadFails, SlotIn
    <3>2. Busy(s)'
      BY <3>1 DEF Busy
    <3>3. QED
      BY <1>3, <2>3, <3>1, <3>2 DEF LoadFails
  <2>4. QED
    BY <1>4, <2>1, <2>2, <2>3
<1>5. ASSUME NEW s \in Slots, NEW error, ExtractFails(s, error)
      PROVE  AttemptsInv'
  <2>1. /\ slot'[s].phase = "record" /\ slot'[s].job = slot[s].job
        /\ \A t \in Slots \ {s} : slot'[t] = slot[t]
    BY <1>j, <1>5 DEF ExtractFails, SlotIn
  <2>2. Busy(s)'
    BY <2>1 DEF Busy
  <2>3. QED
    BY <1>3, <1>5, <2>1, <2>2 DEF ExtractFails
<1>6. ASSUME NEW s \in Slots, LoadSucceeds(s)
      PROVE  AttemptsInv'
  <2> DEFINE j == slot[s].job
  <2>1. j \in JobIds
    BY <1>j, <1>6, BusySlots DEF LoadSucceeds, Busy
  <2>2. /\ job'[j].status = "succeeded" /\ job'[j].attempts = job[j].attempts
        /\ \A k \in JobIds \ {j} : job'[k] = job[k]
    BY <1>j, <1>6, <2>1 DEF LoadSucceeds, Ended, Row
  <2>3. \A k \in JobIds \ {j} : Holders(k) \subseteq Holders(k)'
    BY <1>j, <1>6, OthersHeld DEF LoadSucceeds
  <2>4. QED
    BY <1>6, <2>2, <2>3, AttemptsKept DEF LoadSucceeds, Terminal
(* A failure that is retried had attempts left.                            *)
<1>7. ASSUME NEW s \in Slots, NEW delay, RecordFailure(s, delay)
      PROVE  AttemptsInv'
  <2> DEFINE j == slot[s].job
  <2>1. j \in JobIds
    BY <1>j, <1>7, BusySlots DEF RecordFailure, Busy
  <2>2. /\ job'[j].attempts = job[j].attempts
        /\ \A k \in JobIds \ {j} : job'[k] = job[k]
        /\ deaths' = deaths
    BY <1>j, <1>7, <2>1 DEF RecordFailure, Ended, Retried, Row
  <2>3. \A k \in JobIds \ {j} : Holders(k) \subseteq Holders(k)'
    BY <1>j, <1>7, OthersHeld DEF RecordFailure
  <2>4. CASE EndsJob(s)
    <3>1. job'[j].status = "failed"
      BY <1>j, <1>7, <2>1, <2>4 DEF RecordFailure, Ended, Row
    <3>2. QED
      BY <2>2, <2>3, <3>1, AttemptsKept DEF Terminal
  <2>5. CASE ~EndsJob(s)
    <3>1. job'[j].status = "retry_wait"
      BY <1>j, <1>7, <2>1, <2>5 DEF RecordFailure, Retried, Row
    <3>2. job[j].attempts < MaxAttempts
      BY <1>t, <2>1, <2>5 DEF EndsJob
    <3>3. AttemptsBounded'
      BY <2>2 DEF AttemptsInv, AttemptsBounded
    <3>4. AttemptsLeft'
      BY <2>2, <2>3, <3>1, <3>2 DEF AttemptsInv, AttemptsLeft
    <3>5. QED
      BY <3>3, <3>4 DEF AttemptsInv
  <2>6. QED
    BY <2>4, <2>5
(* A death leaves one more claim for every job it drops.                   *)
<1>8. ASSUME NEW p \in Procs, Die(p)
      PROVE  AttemptsInv'
  <2>1. job' = job /\ deaths' = deaths + 1
    BY <1>8 DEF Die
  <2>2. AttemptsBounded'
    BY <1>t, <2>1 DEF AttemptsInv, AttemptsBounded
  <2>3. AttemptsLeft'
    BY <1>t, <2>1 DEF AttemptsInv, AttemptsBounded, AttemptsLeft
  <2>4. QED
    BY <2>2, <2>3 DEF AttemptsInv
<1>9. ASSUME NEW s \in Slots, SlotStep(s)
      PROVE  AttemptsInv'
  <2>1. CASE RecordFailureRaises(s)
    <3>1. ProcOf[s] \in Procs
      BY ConstantTypes
    <3>2. QED
      BY <1>8, <2>1, <3>1 DEF RecordFailureRaises
  <2>2. QED
    BY <1>2, <1>4, <1>5, <1>6, <1>7, <1>9, <2>1 DEF SlotStep
<1>10. ASSUME NEW c \in Cards, NEW j \in JobIds, NEW priority, NEW delay,
              InsertJob(c, j, priority, delay), slot' = slot, deaths' = deaths
       PROVE  AttemptsInv'
  <2>1. /\ job'[j].status = "pending" /\ job'[j].attempts = 0
        /\ \A k \in JobIds \ {j} : job'[k] = job[k]
    BY <1>j, <1>10 DEF InsertJob, NewJob, Row
  <2>2. \A k \in JobIds : Holders(k)' = Holders(k)
    BY <1>10 DEF Holders, Busy
  <2>3. AttemptsBounded'
    BY <1>t, <1>10, <2>1 DEF AttemptsInv, AttemptsBounded
  <2>4. AttemptsLeft'
    BY <1>10, <2>1, <2>2, ConstantTypes DEF AttemptsInv, AttemptsLeft
  <2>5. QED
    BY <2>3, <2>4 DEF AttemptsInv
<1>11. ASSUME NEW q \in Clients, ClientStep(q)
       PROVE  AttemptsInv'
  BY <1>1, <1>10, <1>11
  DEF ClientStep, EnqueueNew, EnqueueConflict, EnqueueJoin
<1>12. ASSUME NEW c \in Cards, OperatorStep(c)
       PROVE  AttemptsInv'
  <2>1. CASE DeleteCard(c)
    <3>1. \A k \in JobIds : /\ job'[k].attempts = job[k].attempts
                            /\ \/ job'[k] = job[k]
                               \/ job'[k].status = "gone"
      BY <2>1 DEF DeleteCard, Ended, Row
    <3>2. \A k \in JobIds : Holders(k)' = Holders(k)
      BY <2>1 DEF DeleteCard, Holders, Busy
    <3>3. QED
      BY <2>1, <3>1, <3>2, AttemptsKept DEF DeleteCard
  <2>2. CASE ResetTarget(c)
    BY <1>1, <2>2 DEF ResetTarget
  <2>3. ASSUME NEW j \in JobIds, NEW delay, NEW all,
               ScheduleCard(c, j, delay, all)
        PROVE  AttemptsInv'
    BY <1>10, <2>3 DEF ScheduleCard
  <2>4. QED
    BY <1>12, <2>1, <2>2, <2>3 DEF OperatorStep
<1>13. ASSUME NEW p \in Procs, ProcStep(p)
       PROVE  AttemptsInv'
  <2>1. CASE NextRound(p)
    <3>1. \A s \in Slots : Busy(s) => slot'[s] = slot[s]
      BY <2>1 DEF NextRound, Busy
    <3>2. \A j \in JobIds : Holders(j) \subseteq Holders(j)'
      BY <3>1 DEF Holders, Busy
    <3>3. QED
      BY <2>1, <3>2, AttemptsKept DEF NextRound
  <2>2. CASE Crash(p)
    BY <1>8, <2>2 DEF Crash
  <2>3. CASE Restart(p)
    BY <1>1, <2>3 DEF Restart
  <2>4. QED
    BY <1>13, <2>1, <2>2, <2>3 DEF ProcStep
<1>14. CASE Tick
  <2>1. \A k \in JobIds : /\ job'[k].status = job[k].status
                          /\ job'[k].attempts = job[k].attempts
    BY <1>14 DEF Tick, Aged, Row
  <2>2. \A s \in Slots : /\ slot'[s].phase = slot[s].phase
                         /\ slot'[s].job = slot[s].job
    BY <1>j, <1>14 DEF Tick, Slot
  <2>3. \A k \in JobIds : Holders(k)' = Holders(k)
    BY <2>2 DEF Holders, Busy
  <2>4. QED
    BY <1>14, <2>1, <2>3, AttemptsKept DEF Tick
<1>15. CASE UNCHANGED vars
  BY <1>1, <1>15 DEF vars
<1>16. QED
  BY <1>9, <1>11, <1>12, <1>13, <1>14, <1>15 DEF Next

(* claim_next_job never looks at max_attempts; with prompt loads a job is  *)
(* still claimed at most max_attempts times, and once more for each        *)
(* process that died.                                                      *)
THEOREM BoundedAttempts == ASSUME LoadsPrompt PROVE Spec => []AttemptsBounded
<1>1. Init => AttemptsInv
  BY ConstantTypes DEF Init, AttemptsInv, AttemptsLeft, AttemptsBounded,
     NoRow, Row
<1>2. TypeOK /\ TypeOK' /\ LeaseInv /\ AttemptsInv /\ [Next]_vars => AttemptsInv'
  BY NextAttempts
<1>3. AttemptsInv => AttemptsBounded
  BY DEF AttemptsInv
<1>4. QED
  BY <1>1, <1>2, <1>3, Typing, LeaseInvariance, PTL DEF Spec

-----------------------------------------------------------------------------
(* The queue implements WorkQueue: every step, seen through QueueState and *)
(* QueueHolder, is a step of WorkQueue or none.                            *)

(* A row that is not in use yet belongs to no card.                        *)
BlankRows == \A j \in JobIds : job[j].status = "none" => job[j].card = NoJob

LEMMA BlankKept ==
    ASSUME BlankRows,
           \A j \in JobIds : job'[j].status = "none" => job'[j] = job[j]
    PROVE  BlankRows'
  BY DEF BlankRows

LEMMA NextBlank == TypeOK /\ BlankRows /\ [Next]_vars => BlankRows'
<1> SUFFICES ASSUME TypeOK, BlankRows, [Next]_vars PROVE BlankRows'
  OBVIOUS
<1>j. job \in [JobIds -> Job]
  BY DEF TypeOK
<1>1. CASE UNCHANGED job
  BY <1>1 DEF BlankRows
<1>2. ASSUME NEW j \in JobIds, NEW row, row.status # "none",
             job' = [job EXCEPT ![j] = row]
      PROVE  BlankRows'
  <2>1. \A k \in JobIds : job'[k] = IF k = j THEN row ELSE job[k]
    BY <1>j, <1>2
  <2>2. QED
    BY <1>2, <2>1, BlankKept
<1>3. ASSUME NEW s \in Slots, SlotStep(s) PROVE BlankRows'
  <2>1. ASSUME NEW j \in JobIds, Claim(s, j) PROVE BlankRows'
    <3>1. Claimed(job[j]).status # "none" BY DEF Claimed, Row
    <3>2. job' = [job EXCEPT ![j] = Claimed(job[j])] BY <2>1 DEF Claim
    <3>3. QED BY <1>2, <3>1, <3>2
  <2>2. CASE LoadSucceeds(s)
    <3>1. Ended(job[slot[s].job], "succeeded").status # "none" BY DEF Ended, Row
    <3>2. job' = [job EXCEPT ![slot[s].job] = Ended(job[slot[s].job], "succeeded")]
      BY <2>2 DEF LoadSucceeds
    <3>3. slot[s].job \in JobIds
      BY <2>2, BusySlots DEF TypeOK, LoadSucceeds, Busy
    <3>4. QED BY <1>2, <3>1, <3>2, <3>3
  <2>3. ASSUME NEW delay \in RetryDelays, RecordFailure(s, delay) PROVE BlankRows'
    <3> DEFINE j == slot[s].job
               row == IF EndsJob(s) THEN Ended(job[j], "failed")
                      ELSE Retried(job[j], delay)
    <3>1. row.status # "none" BY DEF Ended, Retried, Row
    <3>2. job' = [job EXCEPT ![j] = row] BY <2>3 DEF RecordFailure
    <3>3. j \in JobIds
      BY <2>3, BusySlots DEF TypeOK, RecordFailure, Busy
    <3>4. QED BY <1>2, <3>1, <3>2, <3>3
  <2>4. QED
    BY <1>1, <1>3, <2>1, <2>2, <2>3
    DEF SlotStep, ClaimNothing, ExtractSucceeds, ExtractFails, LoadFails,
        RecordFailureRaises, Die
<1>4. ASSUME NEW c, NEW j \in JobIds, NEW priority, NEW delay,
             InsertJob(c, j, priority, delay)
      PROVE  BlankRows'
  <2>1. NewJob(c, priority, delay).status # "none" BY DEF NewJob, Row
  <2>2. QED BY <1>2, <1>4, <2>1 DEF InsertJob
<1>5. ASSUME NEW q \in Clients, ClientStep(q) PROVE BlankRows'
  BY <1>1, <1>4, <1>5 DEF ClientStep, EnqueueNew, EnqueueConflict, EnqueueJoin
<1>6. ASSUME NEW c \in Cards, OperatorStep(c) PROVE BlankRows'
  <2>1. CASE DeleteCard(c)
    <3>1. \A j \in JobIds : \/ job'[j] = job[j]
                            \/ job'[j].status = "gone"
      BY <2>1 DEF DeleteCard, Ended, Row
    <3>2. QED BY <3>1, BlankKept
  <2>2. QED
    BY <1>1, <1>4, <1>6, <2>1 DEF OperatorStep, ResetTarget, ScheduleCard
<1>7. ASSUME NEW p \in Procs, ProcStep(p) PROVE BlankRows'
  BY <1>1, <1>7 DEF ProcStep, NextRound, Crash, Restart, Die
<1>8. CASE Tick
  <2>1. \A j \in JobIds : job'[j] = IF IsActive(j) THEN Aged(job[j]) ELSE job[j]
    BY <1>8 DEF Tick
  <2>2. \A j \in JobIds : IsActive(j) => Aged(job[j]).status # "none"
    BY DEF IsActive, Active, Aged, Row
  <2>3. QED BY <2>1, <2>2, BlankKept
<1>9. QED
  BY <1>1, <1>3, <1>5, <1>6, <1>7, <1>8 DEF Next, vars

(* What WorkQueue sees of one job, by its status and who works on it.      *)
Seen(status, holders) ==
    CASE status = "none" -> "unborn"
      [] status = "gone" -> "removed"
      [] status \in Terminal -> "ended"
      [] OTHER -> IF holders = {} THEN "waiting" ELSE "held"

HeldBy(status, holders) ==
    IF Seen(status, holders) = "held" THEN CHOOSE s \in Slots : s \in holders
    ELSE NoSlot

LEMMA SeenCases ==
    ASSUME NEW holders
    PROVE  /\ Seen("none", holders) = "unborn"
           /\ Seen("gone", holders) = "removed"
           /\ \A status \in Terminal : Seen(status, holders) = "ended"
           /\ \A status \in Active :
                 Seen(status, holders) = IF holders = {} THEN "waiting" ELSE "held"
  BY DEF Seen, Terminal, Active

LEMMA SeenJobs ==
    /\ QueueState = [j \in JobIds |-> Seen(job[j].status, Holders(j))]
    /\ QueueState' = [j \in JobIds |-> Seen(job'[j].status, Holders(j)')]
    /\ QueueHolder = [j \in JobIds |-> HeldBy(job[j].status, Holders(j))]
    /\ QueueHolder' = [j \in JobIds |-> HeldBy(job'[j].status, Holders(j)')]
<1>1. QueueState = [j \in JobIds |-> Seen(job[j].status, Holders(j))]
  BY DEF QueueState, Seen
<1>2. QueueState' = [j \in JobIds |-> Seen(job'[j].status, Holders(j)')]
  BY DEF QueueState, Seen
<1>3. QueueHolder = [j \in JobIds |-> HeldBy(job[j].status, Holders(j))]
  BY <1>1 DEF QueueHolder, HeldBy
<1>4. QueueHolder' = [j \in JobIds |-> HeldBy(job'[j].status, Holders(j)')]
  BY <1>2 DEF QueueHolder, HeldBy
<1>5. QED
  BY <1>1, <1>2, <1>3, <1>4

(* Nothing WorkQueue sees has changed.                                     *)
LEMMA NothingSeen ==
    ASSUME \A j \in JobIds : /\ job'[j].status = job[j].status
                             /\ Holders(j)' = Holders(j)
    PROVE  UNCHANGED Queue!vars
<1>1. \A j \in JobIds :
        /\ Seen(job'[j].status, Holders(j)') = Seen(job[j].status, Holders(j))
        /\ HeldBy(job'[j].status, Holders(j)') = HeldBy(job[j].status, Holders(j))
  OBVIOUS
<1>2. QueueState' = QueueState /\ QueueHolder' = QueueHolder
  BY <1>1, SeenJobs
<1>3. QED
  BY <1>2 DEF Queue!vars

(* One job has changed.                                                    *)
LEMMA OneSeen ==
    ASSUME NEW j \in JobIds,
           \A k \in JobIds \ {j} : /\ job'[k].status = job[k].status
                                   /\ Holders(k)' = Holders(k)
    PROVE  /\ QueueState' =
                [QueueState EXCEPT ![j] = Seen(job'[j].status, Holders(j)')]
           /\ QueueHolder' =
                [QueueHolder EXCEPT ![j] = HeldBy(job'[j].status, Holders(j)')]
<1>1. \A k \in JobIds \ {j} :
        /\ Seen(job'[k].status, Holders(k)') = Seen(job[k].status, Holders(k))
        /\ HeldBy(job'[k].status, Holders(k)') = HeldBy(job[k].status, Holders(k))
  OBVIOUS
<1>2. QED
  BY <1>1, SeenJobs

(* Only a running row, or one that is gone with its card, is worked on.    *)
LEMMA HeldRows ==
    ASSUME TypeOK, LeaseInv, NEW j \in JobIds
    PROVE  /\ Holders(j) # {} => job[j].status \in {"running", "gone"}
           /\ \A s \in Holders(j) : Holders(j) = {s}
           /\ Claimable(j) => Holders(j) = {}
<1>1. Holders(j) # {} => job[j].status \in {"running", "gone"}
  BY DEF LeaseInv, HolderIsCurrent, Holders
<1>2. \A s \in Holders(j) : Holders(j) = {s}
  BY DEF LeaseInv, ExclusiveHolder, Holders
<1>3. Claimable(j) => Holders(j) = {}
  BY HeldNotClaimable DEF Holders
<1>4. QED
  BY <1>1, <1>2, <1>3

(* A job comes into being.                                                 *)
LEMMA Adds ==
    ASSUME TypeOK, LeaseInv, UNCHANGED slot,
           NEW c, NEW j \in JobIds, NEW priority, NEW delay,
           InsertJob(c, j, priority, delay)
    PROVE  Queue!Next
<1>1. /\ job[j].status = "none" /\ job'[j].status = "pending"
      /\ \A k \in JobIds \ {j} : job'[k] = job[k]
  BY DEF TypeOK, InsertJob, NewJob, Row
<1>2. \A k \in JobIds : Holders(k)' = Holders(k)
  BY DEF Holders, Busy
<1>3. Holders(j) = {} BY <1>1, HeldRows
<1>4. /\ Seen(job[j].status, Holders(j)) = "unborn"
      /\ Seen(job'[j].status, Holders(j)') = "waiting"
  BY <1>1, <1>2, <1>3, SeenCases DEF Active
<1>5. /\ HeldBy(job[j].status, Holders(j)) = NoSlot
      /\ HeldBy(job'[j].status, Holders(j)') = NoSlot
  BY <1>4 DEF HeldBy
<1>6. /\ QueueState' = [QueueState EXCEPT ![j] = "waiting"]
      /\ QueueHolder' = [QueueHolder EXCEPT ![j] = NoSlot]
  BY <1>1, <1>2, <1>4, <1>5, OneSeen
<1>7. QueueState[j] = "unborn" /\ QueueHolder[j] = NoSlot
  BY <1>4, <1>5, SeenJobs
<1>8. QueueHolder' = QueueHolder BY <1>6, <1>7, SeenJobs
<1>9. Queue!Add(j) BY <1>6, <1>7, <1>8 DEF Queue!Add
<1>10. QED
  BY <1>9 DEF Queue!Next

(* A slot claims a job.                                                    *)
LEMMA Takes ==
    ASSUME TypeOK, LeaseInv, NEW s \in Slots, NEW j \in JobIds, Claim(s, j)
    PROVE  Queue!Next
<1>1. job \in [JobIds -> Job] /\ slot \in [Slots -> Slot]
  BY DEF TypeOK
<1>2. /\ Claimable(j) /\ job[j].status \in Active /\ ~Busy(s)
      /\ job'[j].status = "running"
      /\ \A k \in JobIds \ {j} : job'[k] = job[k]
  BY <1>1 DEF Claim, Claimable, Active, Busy, Claimed, Row
<1>3. slot' = [slot EXCEPT ![s] = SlotIn("extract", j, JobTimeout, "none")]
  BY DEF Claim
<1>4. /\ Busy(s)' /\ slot'[s].job = j
      /\ \A t \in Slots \ {s} : slot'[t] = slot[t] /\ Busy(t)' = Busy(t)
  BY <1>1, <1>3 DEF Busy, SlotIn
<1>5. Holders(j) = {} BY <1>2, HeldRows
<1>6. Holders(j)' = {s} BY <1>4, <1>5 DEF Holders
<1>7. \A k \in JobIds \ {j} : Holders(k)' = Holders(k)
  BY <1>2, <1>4 DEF Holders
<1>8. /\ Seen(job[j].status, Holders(j)) = "waiting"
      /\ Seen(job'[j].status, Holders(j)') = "held"
  <2>1. "running" \in Active BY DEF Active
  <2>2. QED BY <1>2, <1>5, <1>6, <2>1, SeenCases
<1>9. HeldBy(job'[j].status, Holders(j)') = s
  BY <1>6, <1>8 DEF HeldBy
<1>10. /\ QueueState' = [QueueState EXCEPT ![j] = "held"]
       /\ QueueHolder' = [QueueHolder EXCEPT ![j] = s]
  BY <1>2, <1>7, <1>8, <1>9, OneSeen
<1>11. QueueState[j] = "waiting" BY <1>8, SeenJobs
<1>12. Queue!Take(j, s) BY <1>10, <1>11 DEF Queue!Take
<1>13. QED
  BY <1>12 DEF Queue!Next

(* A slot is done with its job: the job has ended, or it waits again.      *)
LEMMA Leaves ==
    ASSUME TypeOK, LeaseInv, NEW s \in Slots, Busy(s),
           NEW j \in JobIds, slot[s].job = j, job[j].status # "gone",
           slot' = [slot EXCEPT ![s] = Done],
           NEW row, row.status \in Terminal \cup {"retry_wait"},
           job' = [job EXCEPT ![j] = row]
    PROVE  Queue!Next
<1>1. job \in [JobIds -> Job] /\ slot \in [Slots -> Slot]
  BY DEF TypeOK
<1>3. /\ job'[j].status = row.status
      /\ \A k \in JobIds \ {j} : job'[k] = job[k]
  BY <1>1
<1>4. s \in Holders(j) BY DEF Holders
<1>5. Holders(j) = {s} /\ job[j].status = "running"
  BY <1>4, HeldRows
<1>6. /\ ~Busy(s)'
      /\ \A t \in Slots \ {s} : slot'[t] = slot[t] /\ Busy(t)' = Busy(t)
  BY <1>1, DoneSlots
<1>7. \A k \in JobIds \ {j} : Holders(k)' = Holders(k)
  BY <1>6 DEF Holders
<1>8. Holders(j)' = {} BY <1>5, <1>6 DEF Holders
<1>9. Seen(job[j].status, Holders(j)) = "held"
  BY <1>5, SeenCases DEF Active
<1>10. QueueState[j] = "held" BY <1>9, SeenJobs
<1>11. CASE row.status \in Terminal
  <2>1. Seen(job'[j].status, Holders(j)') = "ended"
    BY <1>3, <1>11, SeenCases
  <2>2. HeldBy(job'[j].status, Holders(j)') = NoSlot BY <2>1 DEF HeldBy
  <2>3. /\ QueueState' = [QueueState EXCEPT ![j] = "ended"]
        /\ QueueHolder' = [QueueHolder EXCEPT ![j] = NoSlot]
    BY <1>3, <1>7, <2>1, <2>2, OneSeen
  <2>4. Queue!End(j) BY <1>10, <2>3 DEF Queue!End
  <2>5. QED BY <2>4 DEF Queue!Next
<1>12. CASE row.status = "retry_wait"
  <2>1. Seen(job'[j].status, Holders(j)') = "waiting"
    BY <1>3, <1>8, <1>12, SeenCases DEF Active
  <2>2. HeldBy(job'[j].status, Holders(j)') = NoSlot BY <2>1 DEF HeldBy
  <2>3. /\ QueueState' = [QueueState EXCEPT ![j] = "waiting"]
        /\ QueueHolder' = [QueueHolder EXCEPT ![j] = NoSlot]
    BY <1>3, <1>7, <2>1, <2>2, OneSeen
  <2>4. /\ QueueState' = [k \in JobIds |-> IF k \in {j} THEN "waiting" ELSE QueueState[k]]
        /\ QueueHolder' = [k \in JobIds |-> IF k \in {j} THEN NoSlot ELSE QueueHolder[k]]
    BY <2>3, SeenJobs
  <2>5. Queue!GiveBack({j}) BY <1>10, <2>4 DEF Queue!GiveBack
  <2>6. {j} \in SUBSET JobIds
    OBVIOUS
  <2>7. QED BY <2>5, <2>6 DEF Queue!Next
<1>13. QED
  BY <1>11, <1>12

(* A process dies, and its jobs wait again.                                *)
LEMMA Dies ==
    ASSUME TypeOK, LeaseInv, NEW p \in Procs, Die(p)
    PROVE  Queue!Next
<1> DEFINE lost == {j \in JobIds : /\ job[j].status = "running"
                                   /\ \E s \in Holders(j) : ProcOf[s] = p}
<1>1. slot \in [Slots -> Slot] /\ UNCHANGED job
  BY DEF TypeOK, Die
<1>2. \A s \in Slots : /\ ProcOf[s] = p => ~Busy(s)'
                       /\ ProcOf[s] # p => slot'[s] = slot[s] /\ Busy(s)' = Busy(s)
  BY DEF Die, Busy, Ready, SlotIn
<1>3. \A j \in JobIds : Holders(j)' = {s \in Holders(j) : ProcOf[s] # p}
  BY <1>2 DEF Holders
<1>4. ASSUME NEW j \in lost
      PROVE  /\ Seen(job[j].status, Holders(j)) = "held"
             /\ Seen(job'[j].status, Holders(j)') = "waiting"
  <2>1. PICK s \in Holders(j) : ProcOf[s] = p
    OBVIOUS
  <2>2. Holders(j) = {s} BY HeldRows
  <2>3. Holders(j)' = {} BY <1>3, <2>1, <2>2
  <2>4. job[j].status \in Active BY DEF Active
  <2>5. QED BY <1>1, <2>2, <2>3, <2>4, SeenCases
<1>5. ASSUME NEW j \in JobIds \ lost
      PROVE  /\ Seen(job'[j].status, Holders(j)') = Seen(job[j].status, Holders(j))
             /\ HeldBy(job'[j].status, Holders(j)') = HeldBy(job[j].status, Holders(j))
  <2>1. CASE job[j].status = "gone"
    <3>1. /\ Seen(job[j].status, Holders(j)) = "removed"
          /\ Seen(job'[j].status, Holders(j)') = "removed"
      BY <1>1, <2>1, SeenCases
    <3>2. QED BY <3>1 DEF HeldBy
  <2>2. CASE job[j].status # "gone"
    <3>1. \A s \in Holders(j) : ProcOf[s] # p BY <2>2, HeldRows
    <3>2. Holders(j)' = Holders(j) BY <1>3, <3>1
    <3>3. QED BY <1>1, <3>2
  <2>3. QED BY <2>1, <2>2
<1>6. \A j \in lost : HeldBy(job'[j].status, Holders(j)') = NoSlot
  BY <1>4 DEF HeldBy
<1>7. lost \in SUBSET JobIds
  OBVIOUS
<1> HIDE DEF lost
<1>8. \A j \in lost : QueueState[j] = "held" BY <1>4, <1>7, SeenJobs
<1>9. QueueState' = [j \in JobIds |-> IF j \in lost THEN "waiting" ELSE QueueState[j]]
  BY <1>4, <1>5, <1>7, SeenJobs
<1>10. QueueHolder' = [j \in JobIds |-> IF j \in lost THEN NoSlot ELSE QueueHolder[j]]
  BY <1>5, <1>6, <1>7, SeenJobs
<1>11. Queue!GiveBack(lost) BY <1>8, <1>9, <1>10 DEF Queue!GiveBack
<1>12. QED
  BY <1>7, <1>11 DEF Queue!Next

(* A card is deleted, its jobs with it.                                    *)
LEMMA Removes ==
    ASSUME TypeOK, BlankRows, NEW c \in Cards, DeleteCard(c)
    PROVE  Queue!Next
<1> DEFINE removed == {j \in JobIds : job[j].card = c}
<1>1. \A j \in JobIds : Holders(j)' = Holders(j)
  BY DEF DeleteCard, Holders, Busy
<1>2. \A j \in JobIds : j \notin removed => job'[j] = job[j]
  BY DEF DeleteCard
<1>3. \A j \in removed : job'[j].status = "gone" /\ job[j].status # "none"
  BY ConstantTypes DEF DeleteCard, Ended, Row, BlankRows
<1>4. \A j \in removed : Seen(job'[j].status, Holders(j)') = "removed"
  BY <1>3, SeenCases
<1>5. \A j \in removed : HeldBy(job'[j].status, Holders(j)') = NoSlot
  BY <1>4 DEF HeldBy
<1>6. \A j \in removed : Seen(job[j].status, Holders(j)) # "unborn"
  BY <1>3 DEF Seen
<1>7. removed \in SUBSET JobIds
  OBVIOUS
<1> HIDE DEF removed
<1>8. \A j \in removed : QueueState[j] # "unborn" BY <1>6, <1>7, SeenJobs
<1>9. QueueState' = [j \in JobIds |-> IF j \in removed THEN "removed" ELSE QueueState[j]]
  BY <1>1, <1>2, <1>4, <1>7, SeenJobs
<1>10. QueueHolder' = [j \in JobIds |-> IF j \in removed THEN NoSlot ELSE QueueHolder[j]]
  BY <1>1, <1>2, <1>5, <1>7, SeenJobs
<1>11. Queue!Remove(removed) BY <1>8, <1>9, <1>10 DEF Queue!Remove
<1>12. QED
  BY <1>7, <1>11 DEF Queue!Next

(* The steps of the queue, one by one.                                     *)
LEMMA NextWork ==
    ASSUME TypeOK, LeaseInv, BlankRows, [Next]_vars
    PROVE  [Queue!Next]_Queue!vars
<1>1. job \in [JobIds -> Job] /\ slot \in [Slots -> Slot]
  BY DEF TypeOK
<1>2. ASSUME UNCHANGED job,
             \A s \in Slots : /\ Busy(s)' = Busy(s)
                              /\ Busy(s) => slot'[s].job = slot[s].job
      PROVE  UNCHANGED Queue!vars
  <2>1. \A j \in JobIds : Holders(j)' = Holders(j) BY <1>2 DEF Holders
  <2>2. QED BY <1>2, <2>1, NothingSeen
<1>3. ASSUME NEW s \in Slots, SlotStep(s) PROVE [Queue!Next]_Queue!vars
  <2>1. CASE \E j \in JobIds : Claim(s, j) BY <2>1, Takes
  <2>2. CASE ClaimNothing(s)
    <3>1. \A t \in Slots : /\ Busy(t)' = Busy(t)
                           /\ Busy(t) => slot'[t].job = slot[t].job
      BY <1>1, <2>2 DEF ClaimNothing, Busy, Done, SlotIn
    <3>2. QED BY <1>2, <2>2, <3>1 DEF ClaimNothing
  <2>3. CASE \/ ExtractSucceeds(s) \/ LoadFails(s)
             \/ \E error \in {"retryable", "not_found"} : ExtractFails(s, error)
    <3>1. UNCHANGED job /\ Busy(s)
      BY <2>3 DEF ExtractSucceeds, ExtractFails, LoadFails, Busy
    <3>2. PICK phase, left, error :
            /\ phase \in {"load", "record"}
            /\ slot' = [slot EXCEPT ![s] = SlotIn(phase, slot[s].job, left, error)]
      BY <2>3 DEF ExtractSucceeds, ExtractFails, LoadFails
    <3>3. \A t \in Slots : /\ Busy(t)' = Busy(t)
                           /\ Busy(t) => slot'[t].job = slot[t].job
      BY <1>1, <3>1, <3>2 DEF Busy, SlotIn
    <3>4. QED BY <1>2, <3>1, <3>3
  <2>4. CASE LoadSucceeds(s)
    <3>1. Busy(s) BY <2>4 DEF LoadSucceeds, Busy
    <3>2. PICK j \in JobIds : slot[s].job = j BY <1>1, <3>1, BusySlots
    <3>3. PICK row : row = Ended(job[j], "succeeded")
      OBVIOUS
    <3>4. row.status \in Terminal BY <3>3 DEF Ended, Row, Terminal
    <3>5. /\ job[j].status # "gone" /\ job' = [job EXCEPT ![j] = row]
          /\ slot' = [slot EXCEPT ![s] = Done]
      BY <2>4, <3>2, <3>3 DEF LoadSucceeds
    <3>6. QED BY <3>1, <3>2, <3>4, <3>5, Leaves
  <2>5. ASSUME NEW delay \in RetryDelays, RecordFailure(s, delay)
        PROVE  [Queue!Next]_Queue!vars
    <3>1. Busy(s) BY <2>5 DEF RecordFailure, Busy
    <3>2. PICK j \in JobIds : slot[s].job = j BY <1>1, <3>1, BusySlots
    <3>3. PICK row : row = IF EndsJob(s) THEN Ended(job[j], "failed")
                           ELSE Retried(job[j], delay)
      OBVIOUS
    <3>4. row.status \in Terminal \cup {"retry_wait"}
      BY <3>3 DEF Ended, Retried, Row, Terminal
    <3>5. /\ job[j].status # "gone" /\ job' = [job EXCEPT ![j] = row]
          /\ slot' = [slot EXCEPT ![s] = Done]
      BY <2>5, <3>2, <3>3 DEF RecordFailure, RecordBreaks
    <3>6. QED BY <3>1, <3>2, <3>4, <3>5, Leaves
  <2>6. CASE RecordFailureRaises(s)
    <3>1. ProcOf[s] \in Procs BY ConstantTypes
    <3>2. QED BY <2>6, <3>1, Dies DEF RecordFailureRaises
  <2>7. QED
    BY <1>3, <2>1, <2>2, <2>3, <2>4, <2>5, <2>6 DEF SlotStep
<1>4. ASSUME NEW q \in Clients, ClientStep(q) PROVE [Queue!Next]_Queue!vars
  <2>1. UNCHANGED slot
    BY <1>4 DEF ClientStep, EnqueueNew, EnqueueConflict, EnqueueJoin
  <2>2. CASE UNCHANGED job BY <1>2, <2>1, <2>2 DEF Busy
  <2>3. ASSUME NEW c \in Cards, NEW j \in JobIds, EnqueueNew(q, c, j)
        PROVE  [Queue!Next]_Queue!vars
    BY <2>1, <2>3, Adds DEF EnqueueNew
  <2>4. QED
    BY <1>4, <2>2, <2>3 DEF ClientStep, EnqueueConflict, EnqueueJoin
<1>5. ASSUME NEW c \in Cards, OperatorStep(c) PROVE [Queue!Next]_Queue!vars
  <2>1. UNCHANGED slot
    BY <1>5 DEF OperatorStep, ScheduleCard, ResetTarget, DeleteCard
  <2>2. CASE ResetTarget(c) BY <1>2, <2>1, <2>2 DEF ResetTarget, Busy
  <2>3. ASSUME NEW j \in JobIds, NEW delay, NEW all, ScheduleCard(c, j, delay, all)
        PROVE  [Queue!Next]_Queue!vars
    BY <2>1, <2>3, Adds DEF ScheduleCard
  <2>4. CASE DeleteCard(c) BY <2>4, Removes
  <2>5. QED
    BY <1>5, <2>2, <2>3, <2>4 DEF OperatorStep
<1>6. ASSUME NEW p \in Procs, ProcStep(p) PROVE [Queue!Next]_Queue!vars
  <2>1. CASE NextRound(p)
    <3>1. \A t \in Slots : /\ Busy(t)' = Busy(t)
                           /\ Busy(t) => slot'[t].job = slot[t].job
      BY <2>1 DEF NextRound, Busy, Ready, SlotIn
    <3>2. QED BY <1>2, <2>1, <3>1 DEF NextRound
  <2>2. CASE Crash(p) BY <2>2, Dies DEF Crash
  <2>3. CASE Restart(p) BY <1>2, <2>3 DEF Restart, Busy
  <2>4. QED
    BY <1>6, <2>1, <2>2, <2>3 DEF ProcStep
<1>7. CASE Tick
  <2>1. \A j \in JobIds : job'[j].status = job[j].status
    BY <1>7 DEF Tick, Aged, Row
  <2>2. \A s \in Slots : slot'[s].phase = slot[s].phase /\ slot'[s].job = slot[s].job
    BY <1>1, <1>7 DEF Tick, Slot
  <2>3. \A j \in JobIds : Holders(j)' = Holders(j) BY <2>2 DEF Holders, Busy
  <2>4. QED BY <2>1, <2>3, NothingSeen
<1>8. CASE UNCHANGED vars BY <1>2, <1>8 DEF vars, Busy
<1>9. QED
  BY <1>3, <1>4, <1>5, <1>6, <1>7, <1>8 DEF Next

LEMMA InitWork == Init => Queue!Init /\ BlankRows
<1> SUFFICES ASSUME Init PROVE Queue!Init /\ BlankRows
  OBVIOUS
<1>1. \A j \in JobIds : job[j].status = "none" /\ job[j].card = NoJob
  BY DEF Init, NoRow, Row
<1>2. \A j \in JobIds : Seen(job[j].status, Holders(j)) = "unborn"
  BY <1>1, SeenCases
<1>3. \A j \in JobIds : HeldBy(job[j].status, Holders(j)) = NoSlot
  BY <1>2 DEF HeldBy
<1>4. /\ QueueState = [j \in JobIds |-> "unborn"]
      /\ QueueHolder = [j \in JobIds |-> NoSlot]
  BY <1>2, <1>3, SeenJobs
<1>5. QED
  BY <1>1, <1>4 DEF Queue!Init, BlankRows

(* With prompt loads the rows, the leases and the slots keep the promise   *)
(* of WorkQueue: a job is held by one slot at a time, ends once and for    *)
(* all when that slot says so, and waits again when its process dies.      *)
THEOREM Implements == ASSUME LoadsPrompt PROVE Spec => IsWorkQueue
<1>1. Init => Queue!Init /\ BlankRows
  BY InitWork
<1>2. TypeOK /\ BlankRows /\ [Next]_vars => BlankRows'
  BY NextBlank
<1>3. TypeOK /\ LeaseInv /\ BlankRows /\ [Next]_vars => [Queue!Next]_Queue!vars
  BY NextWork
<1>4. QED
  BY <1>1, <1>2, <1>3, Typing, LeaseInvariance, PTL
  DEF Spec, IsWorkQueue, Queue!Spec
=============================================================================
