-------------------------- MODULE SearchClient_proofs --------------------------
(***************************************************************************)
(* Proofs about SearchClient, for any callers (an infinite set of them     *)
(* too), any number of permits and retries and any timeout.                *)
(***************************************************************************)
EXTENDS SearchClient, FiniteSetTheorems, SequenceTheorems, TLAPS

(* Who is in the queue waits, and is there once.                           *)
QueueOK ==
    /\ \A i \in DOMAIN queue : call[queue[i]].phase = "queued"
    /\ \A i, j \in DOMAIN queue : queue[i] = queue[j] => i = j

(* Who may send later holds its permit already.                            *)
HoldersOK == IsFiniteSet(Holders) /\ Cardinality(Holders) <= MaxConcurrency

(* What the attempts of a call and the server's doings amount to, and what *)
(* is left of a wait.                                                      *)
CallOK(r) ==
    /\ r.phase # "idle" => r.outcome = "none"
    /\ r.phase \in {"queued", "pause"} => r.attempt = 0 /\ ~r.done
    /\ r.phase = "queued" => r.applied = 0
    /\ r.phase = "sending" =>
         /\ r.attempt < Attempts(r.kind)
         /\ r.applied <= r.attempt + (IF r.done THEN 1 ELSE 0)
    /\ r.phase = "backoff" =>
         /\ r.attempt + 1 < Attempts(r.kind)
         /\ r.applied <= r.attempt + 1
    /\ r.applied <= Attempts(r.kind)
    /\ r.kind = "wait" /\ r.phase # "idle" => r.left >= 0
    /\ r.phase = "pause" => r.kind = "wait" /\ r.nap <= r.left

IInv == TypeOK /\ QueueOK /\ HoldersOK /\ \A c \in Callers : CallOK(call[c])

-----------------------------------------------------------------------------
(* The operators of the model.                                             *)

LEMMA RemoveAtProperties ==
    ASSUME NEW S, NEW q \in Seq(S), NEW i \in 1 .. Len(q)
    PROVE  /\ RemoveAt(q, i) \in Seq(S)
           /\ Len(RemoveAt(q, i)) = Len(q) - 1
           /\ \A j \in 1 .. Len(q) - 1 :
                RemoveAt(q, i)[j] = IF j < i THEN q[j] ELSE q[j + 1]
<1> DEFINE before == SubSeq(q, 1, i - 1)
           after == SubSeq(q, i + 1, Len(q))
<1>1. Len(q) \in Nat /\ \A j \in 1 .. Len(q) : q[j] \in S
  OBVIOUS
<1>2. /\ before \in Seq(S)
      /\ Len(before) = i - 1
      /\ \A j \in 1 .. i - 1 : before[j] = q[j]
  <2>1. 1 \in Int /\ i - 1 \in Int /\ \A j \in 1 .. i - 1 : q[j] \in S BY <1>1
  <2>2. /\ before \in Seq(S)
        /\ Len(before) = IF 1 <= i - 1 THEN i - 1 - 1 + 1 ELSE 0
        /\ \A j \in 1 .. i - 1 - 1 + 1 : before[j] = q[1 + j - 1]
    BY <1>1, <2>1, SubSeqProperties
  <2>3. \A j \in 1 .. i - 1 : j \in 1 .. i - 1 - 1 + 1 /\ 1 + j - 1 = j
    BY <1>1
  <2> HIDE DEF before
  <2> QED BY <2>2, <2>3, <1>1
<1>3. /\ after \in Seq(S)
      /\ Len(after) = Len(q) - i
      /\ \A j \in 1 .. Len(q) - i : after[j] = q[i + j]
  <2>1. \A j \in i + 1 .. Len(q) : q[j] \in S BY <1>1
  <2>2. i + 1 \in Int /\ Len(q) \in Int BY <1>1
  <2>3. /\ after \in Seq(S)
        /\ Len(after) = IF i + 1 <= Len(q) THEN Len(q) - (i + 1) + 1 ELSE 0
        /\ \A j \in 1 .. Len(q) - (i + 1) + 1 : after[j] = q[i + 1 + j - 1]
    BY <2>1, <2>2, SubSeqProperties
  <2>4. \A j \in 1 .. Len(q) - i :
           j \in 1 .. Len(q) - (i + 1) + 1 /\ i + 1 + j - 1 = i + j
    BY <1>1
  <2> HIDE DEF after
  <2> QED BY <2>3, <2>4, <1>1
<1>4. RemoveAt(q, i) = before \o after BY DEF RemoveAt
<1> HIDE DEF before, after
<1>5. /\ before \o after \in Seq(S)
      /\ Len(before \o after) = Len(before) + Len(after)
      /\ \A j \in 1 .. Len(before) + Len(after) : (before \o after)[j] =
           IF j <= Len(before) THEN before[j] ELSE after[j - Len(before)]
  BY <1>2, <1>3, ConcatProperties
<1>6. ASSUME NEW j \in 1 .. Len(q) - 1
      PROVE  (before \o after)[j] = IF j < i THEN q[j] ELSE q[j + 1]
  <2>1. j \in 1 .. Len(before) + Len(after) BY <1>1, <1>2, <1>3
  <2>2. CASE j < i
    <3>1. j <= Len(before) /\ j \in 1 .. i - 1 BY <2>2, <1>1, <1>2
    <3> QED BY <2>1, <2>2, <3>1, <1>2, <1>5
  <2>3. CASE ~(j < i)
    <3>1. /\ ~(j <= Len(before))
          /\ j - Len(before) = j - i + 1
          /\ j - i + 1 \in 1 .. Len(q) - i
          /\ i + (j - i + 1) = j + 1
      BY <2>3, <1>1, <1>2
    <3> QED BY <2>1, <2>3, <3>1, <1>3, <1>5
  <2> QED BY <2>2, <2>3
<1> QED BY <1>1, <1>2, <1>3, <1>4, <1>5, <1>6

LEMMA ConstantTypes ==
    MaxConcurrency \in Nat \ {0} /\ MaxRetries \in Nat /\ TaskTimeout \in Nat /\ Poll \in Nat
<1>1. TaskTimeout \in {TaskTimeout, Poll} /\ Poll \in {TaskTimeout, Poll}
  OBVIOUS
<1> QED BY <1>1, ClientAssumption

LEMMA AttemptsTypes ==
    \A kind : /\ Attempts(kind) \in 1 .. MaxRetries + 1
              /\ kind = "write" => Attempts(kind) = 1
  BY ClientAssumption DEF Attempts

LEMMA EndedTypes ==
    ASSUME NEW r \in Calls, CallOK(r), NEW outcome \in Outcomes
    PROVE  /\ Ended(r, outcome) \in Calls
           /\ CallOK(Ended(r, outcome))
           /\ Ended(r, outcome).phase = "idle"
           /\ Ended(r, outcome).outcome = outcome
<1> DEFINE e == Ended(r, outcome)
<1>0. 0 \in 0 .. MaxRetries /\ 0 \in 0 .. Poll /\ 0 \in Int BY ConstantTypes
<1>1. e \in Calls BY <1>0 DEF Calls, Ended
<1>2. e.phase = "idle" /\ e.outcome = outcome /\ e.kind = r.kind /\ e.applied = r.applied
  BY DEF Calls, Ended
<1> HIDE DEF e
<1>3. CallOK(e) BY <1>2 DEF CallOK
<1> QED BY <1>1, <1>2, <1>3 DEF e

(* A request is sent, or fails because httpx is closed.                    *)
LEMMA SentTypes ==
    ASSUME NEW r \in Calls, CallOK(r), r.outcome = "none",
           NEW attempt \in 0 .. MaxRetries,
           attempt < Attempts(r.kind), r.applied <= attempt,
           r.kind = "wait" => r.left >= 0
    PROVE  /\ Sent(r, attempt) \in Calls
           /\ CallOK(Sent(r, attempt))
           /\ Sent(r, attempt).phase \in {"idle", "sending"}
           /\ ~closed => Sent(r, attempt).outcome = "none"
<1>1. "runtime" \in Outcomes BY DEF Outcomes
<1>2. CASE closed /\ Owns BY <1>1, <1>2, EndedTypes DEF Sent
<1>3. CASE ~(closed /\ Owns)
  <2> DEFINE sent == [r EXCEPT !.phase = "sending", !.attempt = attempt, !.done = FALSE]
  <2>1. Sent(r, attempt) = sent BY <1>3 DEF Sent
  <2>2. sent \in Calls BY DEF Calls
  <2>3. CallOK(sent) BY AttemptsTypes DEF Calls, CallOK
  <2> QED BY <2>1, <2>2, <2>3 DEF Calls
<1> QED BY <1>2, <1>3

(***************************************************************************)
(* What a step leaves of the invariant.                                    *)
(***************************************************************************)
LEMMA InitHolds == Init => IInv
<1> SUFFICES ASSUME Init PROVE IInv
  OBVIOUS
<1>0. /\ 0 \in 0 .. MaxRetries /\ 0 \in 0 .. MaxRetries + 1
      /\ 0 \in 0 .. Poll /\ 0 \in Int
  BY ConstantTypes
<1>1. "none" \in Outcomes BY DEF Outcomes
<1>2. NoCall \in Calls BY <1>0, <1>1 DEF NoCall, Calls
<1>3. TypeOK
  <2>1. queue \in Seq(Callers) BY EmptySeq DEF Init
  <2>2. call \in [Callers -> Calls] BY <1>2 DEF Init
  <2> QED BY <2>1, <2>2 DEF Init, TypeOK
<1>4. NoCall.phase = "idle" /\ \A c \in Callers : call[c] = NoCall
  BY DEF Init, NoCall
<1>h. Holders = {} BY <1>4 DEF Holders
<1>5. HoldersOK BY <1>h, FS_EmptySet, ConstantTypes DEF HoldersOK
<1>6. CallOK(NoCall)
  <2>1. Attempts(NoCall.kind) \in Nat BY AttemptsTypes, ConstantTypes
  <2> QED BY <2>1 DEF NoCall, CallOK
<1>7. QueueOK BY DEF Init, QueueOK
<1> QED BY <1>3, <1>4, <1>5, <1>6, <1>7 DEF IInv

(* A permit is taken only while one is free.                               *)
LEMMA HoldersKept ==
    ASSUME TypeOK, HoldersOK, NEW c \in Callers, NEW r,
           call' = [call EXCEPT ![c] = r],
           \/ r.phase \notin {"sending", "backoff"}
           \/ c \in Holders
           \/ Cardinality(Holders) < MaxConcurrency
    PROVE  HoldersOK'
<1>1. IsFiniteSet(Holders) /\ Cardinality(Holders) \in Nat
      /\ Cardinality(Holders) <= MaxConcurrency
  BY FS_CardinalityType DEF HoldersOK
<1>2. \A d \in Callers : call'[d] = IF d = c THEN r ELSE call[d]
  BY DEF TypeOK
<1>3. CASE r.phase \notin {"sending", "backoff"} \/ c \in Holders
  <2>1. Holders' \in SUBSET Holders BY <1>2, <1>3 DEF Holders
  <2>2. /\ IsFiniteSet(Holders')
        /\ Cardinality(Holders') <= Cardinality(Holders)
        /\ Cardinality(Holders') \in Nat
    BY <2>1, <1>1, FS_Subset, FS_CardinalityType
  <2> QED BY <2>2, <1>1, ClientAssumption DEF HoldersOK
<1>4. CASE Cardinality(Holders) < MaxConcurrency
  <2>1. Holders' \in SUBSET (Holders \cup {c}) BY <1>2 DEF Holders
  <2>2. /\ IsFiniteSet(Holders \cup {c})
        /\ Cardinality(Holders \cup {c}) <= Cardinality(Holders) + 1
        /\ Cardinality(Holders \cup {c}) \in Nat
    <3>1. /\ IsFiniteSet(Holders \cup {c})
          /\ Cardinality(Holders \cup {c}) =
               IF c \in Holders THEN Cardinality(Holders) ELSE Cardinality(Holders) + 1
      BY <1>1, FS_AddElement
    <3>2. Cardinality(Holders \cup {c}) \in Nat BY <3>1, FS_CardinalityType
    <3> QED BY <1>1, <3>1, <3>2
  <2>3. /\ IsFiniteSet(Holders')
        /\ Cardinality(Holders') <= Cardinality(Holders \cup {c})
        /\ Cardinality(Holders') \in Nat
    BY <2>1, <2>2, FS_Subset, FS_CardinalityType
  <2>4. Cardinality(Holders') <= MaxConcurrency
    BY <2>2, <2>3, <1>1, <1>4, ClientAssumption
  <2> QED BY <2>3, <2>4 DEF HoldersOK
<1> QED BY <1>3, <1>4

(* One caller's call changes, and it neither joins nor leaves the queue.   *)
LEMMA OneCall ==
    ASSUME IInv, NEW c \in Callers, NEW r \in Calls, CallOK(r),
           call' = [call EXCEPT ![c] = r], UNCHANGED <<closed, queue>>,
           call[c].phase # "queued",
           \/ r.phase \notin {"sending", "backoff"}
           \/ c \in Holders
           \/ Cardinality(Holders) < MaxConcurrency
    PROVE  IInv'
<1>1. TypeOK' BY DEF IInv, TypeOK
<1>2. HoldersOK' BY HoldersKept DEF IInv
<1>3. \A i \in DOMAIN queue : queue[i] \in Callers /\ queue[i] # c
  BY DEF IInv, TypeOK, QueueOK
<1>4. QueueOK' BY <1>3 DEF IInv, TypeOK, QueueOK
<1>5. \A d \in Callers : CallOK(call'[d]) BY DEF IInv, TypeOK
<1> QED BY <1>1, <1>2, <1>4, <1>5 DEF IInv

(* The check of _closed and the semaphore.                                 *)
LEMMA AskingHolds ==
    ASSUME IInv, NEW c \in Callers, NEW r \in Calls, CallOK(r),
           call[c].phase \notin {"queued", "sending", "backoff"},
           r.attempt = 0, ~r.done, r.applied = 0, r.outcome = "none",
           r.kind = "wait" => r.left >= 0,
           Asking(c, r), UNCHANGED closed
    PROVE  /\ IInv'
           /\ call'[c].outcome # "runtime"
           /\ \A d \in Callers \ {c} : call'[d] = call[d]
<1>t. TypeOK BY DEF IInv
<1>1. CASE closed
  <2>1. call' = [call EXCEPT ![c] = Ended(r, "communication")] /\ UNCHANGED queue
    BY <1>1 DEF Asking
  <2>2. "communication" \in Outcomes BY DEF Outcomes
  <2>3. /\ Ended(r, "communication") \in Calls
        /\ CallOK(Ended(r, "communication"))
        /\ Ended(r, "communication").phase = "idle"
        /\ Ended(r, "communication").outcome = "communication"
    BY <2>2, EndedTypes
  <2>4. IInv' BY <2>1, <2>3, OneCall
  <2> QED BY <2>1, <2>3, <2>4, <1>t DEF TypeOK
<1>2. CASE ~closed /\ queue = << >> /\ Cardinality(Holders) < MaxConcurrency
  <2>1. call' = [call EXCEPT ![c] = Sent(r, 0)] /\ UNCHANGED queue
    BY <1>2, <1>t, FS_CardinalityType, ClientAssumption DEF Asking, IInv, HoldersOK
  <2>2. /\ 0 \in 0 .. MaxRetries /\ 0 < Attempts(r.kind) /\ r.applied <= 0
    BY AttemptsTypes, ClientAssumption
  <2>3. /\ Sent(r, 0) \in Calls /\ CallOK(Sent(r, 0))
        /\ Sent(r, 0).outcome = "none"
    BY <2>2, <1>2, SentTypes
  <2>4. IInv' BY <2>1, <2>3, <1>2, OneCall
  <2> QED BY <2>1, <2>3, <2>4, <1>t DEF TypeOK
<1>3. CASE ~closed /\ ~(queue = << >> /\ Cardinality(Holders) < MaxConcurrency)
  <2> DEFINE w == [r EXCEPT !.phase = "queued"]
  <2>1. call' = [call EXCEPT ![c] = w] /\ queue' = Append(queue, c)
    BY <1>3 DEF Asking
  <2>2. w \in Calls /\ w.phase = "queued" /\ w.outcome = "none"
    BY DEF Calls
  <2>3. CallOK(w) BY AttemptsTypes DEF CallOK, Calls
  <2> HIDE DEF w
  <2>4. /\ queue \in Seq(Callers) /\ Len(queue) \in Nat
        /\ DOMAIN queue = 1 .. Len(queue)
        /\ \A i \in 1 .. Len(queue) : queue[i] \in Callers /\ queue[i] # c
    BY <1>t DEF IInv, TypeOK, QueueOK
  <2>5. /\ queue' \in Seq(Callers) /\ DOMAIN queue' = 1 .. Len(queue) + 1
        /\ \A i \in 1 .. Len(queue) : queue'[i] = queue[i]
        /\ queue'[Len(queue) + 1] = c
    BY <2>1, <2>4, AppendProperties
  <2>6. TypeOK' BY <2>1, <2>2, <2>5, <1>t DEF TypeOK
  <2>7. \A d \in Callers : call'[d] = IF d = c THEN w ELSE call[d]
    BY <2>1, <1>t DEF TypeOK
  <2>8. \A i \in 1 .. Len(queue) + 1 : i \in 1 .. Len(queue) \/ i = Len(queue) + 1
    BY <2>4
  <2>9. QueueOK' BY <2>2, <2>4, <2>5, <2>7, <2>8 DEF IInv, QueueOK
  <2>10. HoldersOK' BY <2>1, <2>2, HoldersKept, <1>t DEF IInv
  <2> QED BY <2>2, <2>3, <2>6, <2>7, <2>9, <2>10 DEF IInv
<1> QED BY <1>1, <1>2, <1>3

(* A caller leaves the queue from any place of it, and everyone behind it  *)
(* moves up.                                                               *)
LEMMA LeavingHolds ==
    ASSUME IInv, NEW i \in 1 .. Len(queue), NEW r \in Calls, CallOK(r),
           r.phase # "queued",
           call' = [call EXCEPT ![queue[i]] = r], UNCHANGED closed,
           \/ r.phase \notin {"sending", "backoff"}
           \/ Cardinality(Holders) < MaxConcurrency,
           queue' \in Seq(Callers), Len(queue') = Len(queue) - 1,
           \A j \in 1 .. Len(queue) - 1 :
              queue'[j] = IF j < i THEN queue[j] ELSE queue[j + 1]
    PROVE  IInv'
<1> DEFINE c == queue[i]
<1>1. /\ queue \in Seq(Callers) /\ Len(queue) \in Nat
      /\ DOMAIN queue = 1 .. Len(queue)
      /\ \A j \in 1 .. Len(queue) : queue[j] \in Callers
      /\ DOMAIN queue' = 1 .. Len(queue) - 1
  BY DEF IInv, TypeOK
<1>2. c \in Callers BY <1>1
<1>3. TypeOK' BY <1>2 DEF IInv, TypeOK
<1>4. HoldersOK' BY <1>2, HoldersKept DEF IInv
<1>5. \A d \in Callers : call'[d] = IF d = c THEN r ELSE call[d]
  BY <1>2 DEF IInv, TypeOK
<1>6. \A d \in Callers : CallOK(call'[d]) BY <1>5 DEF IInv
<1> DEFINE old(j) == IF j < i THEN j ELSE j + 1
<1>7. \A j \in 1 .. Len(queue) - 1 :
         old(j) \in 1 .. Len(queue) /\ old(j) # i /\ queue'[j] = queue[old(j)]
  BY <1>1
<1>8. \A j, k \in 1 .. Len(queue) - 1 : old(j) = old(k) => j = k
  BY <1>1
<1> HIDE DEF old, c
<1>9. \A j, k \in 1 .. Len(queue) : queue[j] = queue[k] => j = k
  BY <1>1 DEF IInv, QueueOK
<1>10. \A j \in 1 .. Len(queue) - 1 : queue'[j] # c /\ queue'[j] \in Callers
  BY <1>1, <1>7, <1>9 DEF c
<1>11. \A j \in 1 .. Len(queue) - 1 : call'[queue'[j]].phase = "queued"
  BY <1>1, <1>5, <1>7, <1>10 DEF IInv, QueueOK
<1>12. \A j, k \in 1 .. Len(queue) - 1 : queue'[j] = queue'[k] => j = k
  <2> SUFFICES ASSUME NEW j \in 1 .. Len(queue) - 1, NEW k \in 1 .. Len(queue) - 1,
                      queue'[j] = queue'[k]
               PROVE  j = k
    OBVIOUS
  <2>1. old(j) \in 1 .. Len(queue) /\ old(k) \in 1 .. Len(queue) BY <1>7
  <2>2. queue[old(j)] = queue[old(k)] BY <1>7
  <2>3. old(j) = old(k) BY <1>9, <2>1, <2>2
  <2> QED BY <1>8, <2>3
<1>13. QueueOK' BY <1>1, <1>11, <1>12 DEF QueueOK
<1> QED BY <1>3, <1>4, <1>6, <1>13 DEF IInv

-----------------------------------------------------------------------------
LEMMA BeginHolds ==
    ASSUME IInv, NEW c \in Callers, Begin(c)
    PROVE  /\ IInv'
           /\ call'[c].outcome # "runtime"
           /\ \A d \in Callers \ {c} : call'[d] = call[d]
<1>1. PICK kind \in {"read", "write", "wait"} :
         Asking(c, [NoCall EXCEPT !.kind = kind,
                                  !.left = IF kind = "wait" THEN TaskTimeout ELSE 0])
  BY DEF Begin
<1> DEFINE r == [NoCall EXCEPT !.kind = kind,
                               !.left = IF kind = "wait" THEN TaskTimeout ELSE 0]
<1>2. /\ 0 \in 0 .. MaxRetries /\ 0 \in 0 .. MaxRetries + 1
      /\ 0 \in 0 .. Poll /\ 0 \in Int /\ TaskTimeout \in Int /\ TaskTimeout >= 0
  BY ConstantTypes
<1>3. "none" \in Outcomes BY DEF Outcomes
<1>4. r \in Calls BY <1>2, <1>3 DEF NoCall, Calls
<1>5. /\ r.phase = "idle" /\ r.attempt = 0 /\ r.done = FALSE /\ r.applied = 0
      /\ r.outcome = "none"
      /\ r.kind = "wait" => r.left >= 0
  BY <1>2 DEF NoCall
<1> HIDE DEF r
<1>6. Attempts(r.kind) \in Nat BY AttemptsTypes, ConstantTypes
<1>7. CallOK(r) BY <1>5, <1>6 DEF CallOK
<1>8. Asking(c, r) BY <1>1 DEF r
<1> QED BY <1>4, <1>5, <1>7, <1>8, AskingHolds DEF Begin

LEMMA ApplyHolds ==
    ASSUME IInv, NEW c \in Callers, Apply(c)
    PROVE  IInv' /\ call'[c].outcome = "none" /\ \A d \in Callers \ {c} : call'[d] = call[d]
<1> DEFINE r == [call[c] EXCEPT !.done = TRUE, !.applied = @ + 1]
<1>1. call \in [Callers -> Calls] /\ call[c] \in Calls /\ CallOK(call[c])
  BY DEF IInv, TypeOK
<1>2. call[c].phase = "sending" /\ ~call[c].done BY DEF Apply
<1>3. /\ Attempts(call[c].kind) \in 1 .. MaxRetries + 1
      /\ call[c].attempt < Attempts(call[c].kind)
      /\ call[c].applied <= call[c].attempt
      /\ call[c].outcome = "none"
  BY <1>1, <1>2, AttemptsTypes DEF CallOK, Calls
<1>4. call[c].applied + 1 \in 0 .. MaxRetries + 1
  BY <1>1, <1>3, ConstantTypes DEF Calls
<1>5. r \in Calls BY <1>1, <1>4 DEF Calls
<1>6. /\ r.phase = "sending" /\ r.kind = call[c].kind /\ r.attempt = call[c].attempt
      /\ r.done = TRUE /\ r.applied = call[c].applied + 1 /\ r.left = call[c].left
      /\ r.outcome = "none"
  BY <1>1, <1>2, <1>3 DEF Calls
<1>7. call' = [call EXCEPT ![c] = r] BY <1>1 DEF Apply
<1> HIDE DEF r
<1>8. CallOK(r)
  BY <1>1, <1>2, <1>3, <1>6 DEF CallOK, Calls
<1>9. IInv' BY <1>2, <1>5, <1>6, <1>7, <1>8, OneCall DEF Apply, Holders
<1> QED BY <1>1, <1>6, <1>7, <1>9

(* A call under way ends.                                                  *)
LEMMA EndingHolds ==
    ASSUME IInv, NEW c \in Callers, call[c].phase # "queued",
           NEW outcome \in Outcomes, outcome # "runtime",
           call' = [call EXCEPT ![c] = Ended(call[c], outcome)],
           UNCHANGED <<closed, queue>>
    PROVE  IInv' /\ call'[c].outcome # "runtime" /\ \A d \in Callers \ {c} : call'[d] = call[d]
<1>1. call \in [Callers -> Calls] /\ call[c] \in Calls /\ CallOK(call[c])
  BY DEF IInv, TypeOK
<1>2. /\ Ended(call[c], outcome) \in Calls
      /\ CallOK(Ended(call[c], outcome))
      /\ Ended(call[c], outcome).phase = "idle"
      /\ Ended(call[c], outcome).outcome = outcome
  BY <1>1, EndedTypes
<1>3. IInv' BY <1>2, OneCall
<1> QED BY <1>1, <1>2, <1>3

LEMMA FailureHolds ==
    ASSUME IInv, NEW c \in Callers, AttemptFails(c)
    PROVE  IInv' /\ call'[c].outcome # "runtime" /\ \A d \in Callers \ {c} : call'[d] = call[d]
<1>1. call \in [Callers -> Calls] /\ call[c] \in Calls /\ CallOK(call[c])
  BY DEF IInv, TypeOK
<1>2. call[c].phase = "sending" /\ UNCHANGED <<closed, queue>> BY DEF AttemptFails
<1>3. PICK failure \in {"timeout", "communication", "api"} :
         call' = [call EXCEPT ![c] = IF MayRetry(c)
                                     THEN [call[c] EXCEPT !.phase = "backoff"]
                                     ELSE Ended(call[c], failure)]
  BY <1>1 DEF AttemptFails
<1>4. CASE MayRetry(c)
  <2> DEFINE r == [call[c] EXCEPT !.phase = "backoff"]
  <2>1. call' = [call EXCEPT ![c] = r] BY <1>3, <1>4
  <2>2. r \in Calls BY <1>1 DEF Calls
  <2>3. /\ r.phase = "backoff" /\ r.kind = call[c].kind /\ r.attempt = call[c].attempt
        /\ r.applied = call[c].applied /\ r.left = call[c].left
        /\ r.outcome = call[c].outcome
    BY <1>1 DEF Calls
  <2> HIDE DEF r
  <2>4. r.attempt + 1 < Attempts(r.kind) BY <1>4, <2>3 DEF MayRetry
  <2>5. r.applied <= r.attempt + 1
    BY <1>1, <1>2, <2>3 DEF CallOK, Calls
  <2>6. CallOK(r) BY <1>1, <1>2, <2>3, <2>4, <2>5 DEF CallOK
  <2>7. IInv' BY <1>2, <2>1, <2>2, <2>3, <2>6, OneCall DEF Holders
  <2>8. r.outcome # "runtime" BY <1>1, <1>2, <2>3 DEF CallOK
  <2> QED BY <1>1, <2>1, <2>7, <2>8
<1>5. CASE ~MayRetry(c)
  <2>1. call' = [call EXCEPT ![c] = Ended(call[c], failure)] BY <1>3, <1>5
  <2>2. failure \in Outcomes /\ failure # "runtime" BY DEF Outcomes
  <2> QED BY <1>2, <2>1, <2>2, EndingHolds
<1> QED BY <1>4, <1>5

LEMMA ResendHolds ==
    ASSUME IInv, NEW c \in Callers, Resend(c)
    PROVE  IInv' /\ \A d \in Callers \ {c} : call'[d] = call[d]
<1>1. call \in [Callers -> Calls] /\ call[c] \in Calls /\ CallOK(call[c])
  BY DEF IInv, TypeOK
<1>2. call[c].phase = "backoff" /\ UNCHANGED <<closed, queue>>
      /\ call' = [call EXCEPT ![c] = Sent(call[c], call[c].attempt + 1)]
  BY DEF Resend
<1>3. /\ call[c].attempt + 1 < Attempts(call[c].kind)
      /\ call[c].applied <= call[c].attempt + 1
      /\ call[c].outcome = "none"
      /\ call[c].kind = "wait" => call[c].left >= 0
      /\ Attempts(call[c].kind) \in 1 .. MaxRetries + 1
  BY <1>1, <1>2, AttemptsTypes DEF CallOK
<1>4. call[c].attempt + 1 \in 0 .. MaxRetries
  BY <1>1, <1>3, ConstantTypes DEF Calls
<1> DEFINE r == Sent(call[c], call[c].attempt + 1)
<1>5. r \in Calls /\ CallOK(r) BY <1>1, <1>3, <1>4, SentTypes
<1> HIDE DEF r
<1>6. IInv' BY <1>2, <1>5, OneCall DEF Holders, r
<1> QED BY <1>1, <1>2, <1>6

LEMMA AdmitHolds ==
    ASSUME IInv, Admit
    PROVE  /\ IInv'
           /\ \A d \in Callers : call[d].phase # "queued" => call'[d] = call[d]
<1> DEFINE c == queue[1]
<1>1. /\ queue \in Seq(Callers) /\ queue # << >> /\ Len(queue) \in Nat \ {0}
      /\ Head(queue) = c
      /\ UNCHANGED closed /\ queue' = Tail(queue)
      /\ Cardinality(Holders) < MaxConcurrency
  BY EmptySeq DEF Admit, IInv, TypeOK
<1>2. 1 \in 1 .. Len(queue) /\ c \in Callers /\ call[c].phase = "queued"
  BY <1>1 DEF IInv, TypeOK, QueueOK
<1>3. call \in [Callers -> Calls] /\ call[c] \in Calls /\ CallOK(call[c])
  BY <1>2 DEF IInv, TypeOK
<1>4. /\ call[c].applied <= 0 /\ call[c].outcome = "none"
      /\ call[c].kind = "wait" => call[c].left >= 0
      /\ 0 < Attempts(call[c].kind) /\ 0 \in 0 .. MaxRetries
  BY <1>2, <1>3, AttemptsTypes, ConstantTypes DEF CallOK
<1> DEFINE r == Sent(call[c], 0)
<1>5. call' = [call EXCEPT ![c] = r] BY <1>1 DEF Admit
<1>6. r \in Calls /\ CallOK(r) /\ r.phase \in {"idle", "sending"}
  BY <1>3, <1>4, SentTypes
<1>7. /\ queue' \in Seq(Callers) /\ Len(queue') = Len(queue) - 1
      /\ \A j \in 1 .. Len(queue) - 1 : queue'[j] = queue[j + 1]
  BY <1>1, HeadTailProperties
<1>8. \A j \in 1 .. Len(queue) - 1 :
         queue'[j] = IF j < 1 THEN queue[j] ELSE queue[j + 1]
  BY <1>7
<1> HIDE DEF r
<1>9. IInv' BY <1>1, <1>2, <1>5, <1>6, <1>7, <1>8, LeavingHolds
<1> QED BY <1>2, <1>3, <1>5, <1>9

LEMMA TaskReadHolds ==
    ASSUME IInv, NEW c \in Callers, TaskRead(c)
    PROVE  IInv' /\ call'[c].outcome # "runtime" /\ \A d \in Callers \ {c} : call'[d] = call[d]
<1>1. call \in [Callers -> Calls] /\ call[c] \in Calls /\ CallOK(call[c])
  BY DEF IInv, TypeOK
<1>2. call[c].phase = "sending" /\ call[c].kind = "wait" /\ UNCHANGED <<closed, queue>>
  BY DEF TaskRead
<1>3. CASE \E outcome \in {"ok", "task", "wait_timeout"} :
             call' = [call EXCEPT ![c] = Ended(call[c], outcome)]
  <2>1. {"ok", "task", "wait_timeout"} \subseteq Outcomes BY DEF Outcomes
  <2> QED BY <1>2, <1>3, <2>1, EndingHolds
<1>4. CASE /\ call[c].left > 0
           /\ call' = [call EXCEPT ![c].phase = "pause", ![c].attempt = 0,
                                   ![c].done = FALSE,
                                   ![c].nap = Least(Poll, call[c].left)]
  <2> DEFINE r == [call[c] EXCEPT !.phase = "pause", !.attempt = 0, !.done = FALSE,
                                  !.nap = Least(Poll, call[c].left)]
  <2>1. /\ Least(Poll, call[c].left) \in 0 .. Poll
        /\ Least(Poll, call[c].left) <= call[c].left
    BY <1>1, <1>4, ConstantTypes DEF Least, Calls
  <2>2. call' = [call EXCEPT ![c] = r] BY <1>1, <1>4
  <2>3. 0 \in 0 .. MaxRetries BY ConstantTypes
  <2>4. r \in Calls BY <1>1, <2>1, <2>3 DEF Calls
  <2>5. /\ r.phase = "pause" /\ r.kind = "wait" /\ r.attempt = 0 /\ r.done = FALSE
        /\ r.nap = Least(Poll, call[c].left) /\ r.left = call[c].left
        /\ r.applied = call[c].applied /\ r.outcome = call[c].outcome
        /\ r.left >= 0
    BY <1>1, <1>2, <1>4 DEF Calls
  <2> HIDE DEF r
  <2>6. CallOK(r) BY <1>1, <1>2, <2>1, <2>5 DEF CallOK
  <2>7. IInv' BY <1>2, <2>2, <2>4, <2>5, <2>6, OneCall
  <2>8. r.outcome # "runtime" BY <1>1, <1>2, <2>5 DEF CallOK
  <2> QED BY <1>1, <2>2, <2>7, <2>8
<1> QED BY <1>3, <1>4 DEF TaskRead

LEMMA WakeHolds ==
    ASSUME IInv, NEW c \in Callers, Wake(c)
    PROVE  IInv' /\ call'[c].outcome # "runtime" /\ \A d \in Callers \ {c} : call'[d] = call[d]
<1>1. call \in [Callers -> Calls] /\ call[c] \in Calls /\ CallOK(call[c])
  BY DEF IInv, TypeOK
<1>2. call[c].phase = "pause" /\ UNCHANGED closed BY DEF Wake
<1>3. CASE call[c].left = 0
  <2>1. "wait_timeout" \in Outcomes BY DEF Outcomes
  <2> QED BY <1>2, <1>3, <2>1, EndingHolds DEF Wake
<1>4. CASE call[c].left # 0
  <2> DEFINE r == [call[c] EXCEPT !.applied = 0]
  <2>1. 0 \in 0 .. MaxRetries + 1 BY ConstantTypes
  <2>2. r \in Calls BY <1>1, <2>1 DEF Calls
  <2>3. /\ r.phase = "pause" /\ r.kind = "wait" /\ r.attempt = 0 /\ ~r.done
        /\ r.applied = 0 /\ r.outcome = "none" /\ r.left >= 0
        /\ r.nap = call[c].nap /\ r.left = call[c].left
    BY <1>1, <1>2 DEF Calls, CallOK
  <2>4. Asking(c, r) BY <1>4 DEF Wake
  <2> HIDE DEF r
  <2>5. Attempts(r.kind) >= 0 BY AttemptsTypes, ConstantTypes
  <2>6. CallOK(r) BY <1>1, <1>2, <2>3, <2>5 DEF CallOK
  <2> QED BY <1>2, <2>2, <2>3, <2>4, <2>6, AskingHolds
<1> QED BY <1>3, <1>4

LEMMA TimeoutHolds ==
    ASSUME IInv, NEW c \in Callers, TimesOut(c)
    PROVE  IInv' /\ call'[c].outcome # "runtime" /\ \A d \in Callers \ {c} : call'[d] = call[d]
<1>1. call \in [Callers -> Calls] /\ call[c] \in Calls /\ CallOK(call[c])
  BY DEF IInv, TypeOK
<1>2. "wait_timeout" \in Outcomes BY DEF Outcomes
<1>3. call' = [call EXCEPT ![c] = Ended(call[c], "wait_timeout")] /\ UNCHANGED closed
  BY DEF TimesOut
<1>4. CASE call[c].phase # "queued"
  BY <1>2, <1>3, <1>4, EndingHolds DEF TimesOut
<1>5. CASE call[c].phase = "queued"
  <2>1. PICK i \in DOMAIN queue : queue[i] = c /\ queue' = RemoveAt(queue, i)
    BY <1>5 DEF TimesOut
  <2>2. queue \in Seq(Callers) /\ i \in 1 .. Len(queue) BY <2>1 DEF IInv, TypeOK
  <2>3. /\ queue' \in Seq(Callers)
        /\ Len(queue') = Len(queue) - 1
        /\ \A j \in 1 .. Len(queue) - 1 :
             queue'[j] = IF j < i THEN queue[j] ELSE queue[j + 1]
    BY <2>1, <2>2, RemoveAtProperties
  <2> DEFINE r == Ended(call[c], "wait_timeout")
  <2>4. r \in Calls /\ CallOK(r) /\ r.phase = "idle" /\ r.outcome = "wait_timeout"
    BY <1>1, <1>2, EndedTypes
  <2> HIDE DEF r
  <2>5. call' = [call EXCEPT ![queue[i]] = r] BY <1>3, <2>1 DEF r
  <2>6. IInv' BY <1>3, <2>2, <2>3, <2>4, <2>5, LeavingHolds
  <2> QED BY <1>1, <2>1, <2>4, <2>5, <2>6
<1> QED BY <1>4, <1>5

(* No wait reaches its deadline, or the end of its pause, unnoticed.       *)
LEMMA TickHolds ==
    ASSUME IInv, Tick
    PROVE  /\ IInv'
           /\ \A c \in Callers : call'[c] # call[c] => call'[c].outcome # "runtime"
<1>1. call \in [Callers -> Calls] /\ UNCHANGED <<closed, queue>>
  BY DEF IInv, TypeOK, Tick
<1> DEFINE r(c) == [call[c] EXCEPT !.left = @ - 1,
                      !.nap = IF call[c].phase = "pause" THEN @ - 1 ELSE @]
<1>2. \A c \in Callers : call'[c] = IF Waits(c) THEN r(c) ELSE call[c]
  BY DEF Tick
<1>3. ASSUME NEW c \in Callers, Waits(c)
      PROVE  /\ r(c) \in Calls /\ CallOK(r(c))
             /\ r(c).phase = call[c].phase /\ r(c).outcome = "none"
  <2>1. call[c] \in Calls /\ CallOK(call[c]) BY <1>1 DEF IInv
  <2>2. /\ ~Interrupts(c) /\ ~(call[c].phase = "pause" /\ call[c].nap = 0)
        /\ call[c].kind = "wait" /\ call[c].phase # "idle"
    BY <1>3 DEF Tick, Waits
  <2>3. /\ call[c].left > 0
        /\ call[c].phase = "pause" => call[c].nap - 1 \in 0 .. Poll
    BY <2>1, <2>2, ConstantTypes DEF Interrupts, CallOK, Calls
  <2>4. r(c) \in Calls
    <3>1. (IF call[c].phase = "pause" THEN call[c].nap - 1 ELSE call[c].nap) \in 0 .. Poll
      BY <2>1, <2>3 DEF Calls
    <3>2. call[c].left - 1 \in Int BY <2>1 DEF Calls
    <3> QED BY <2>1, <3>1, <3>2 DEF Calls
  <2>5. /\ r(c).phase = call[c].phase /\ r(c).kind = call[c].kind
        /\ r(c).attempt = call[c].attempt /\ r(c).done = call[c].done
        /\ r(c).applied = call[c].applied /\ r(c).outcome = call[c].outcome
        /\ r(c).left = call[c].left - 1
        /\ r(c).nap = IF call[c].phase = "pause" THEN call[c].nap - 1 ELSE call[c].nap
    BY <2>1 DEF Calls
  <2> HIDE DEF r
  <2>6. r(c).left >= 0 /\ (r(c).phase = "pause" => r(c).nap <= r(c).left)
    BY <2>1, <2>3, <2>5 DEF CallOK, Calls
  <2>7. CallOK(r(c)) BY <2>1, <2>2, <2>5, <2>6 DEF CallOK
  <2> QED BY <2>1, <2>2, <2>4, <2>5, <2>7 DEF CallOK
<1> HIDE DEF r
<1>4. \A c \in Callers : /\ call'[c] \in Calls /\ CallOK(call'[c])
                          /\ call'[c].phase = call[c].phase
  BY <1>1, <1>2, <1>3 DEF IInv
<1>5. TypeOK'
  <2>1. call' \in [Callers -> Calls]
    <3>1. call' = [c \in Callers |-> IF ~Waits(c) THEN call[c] ELSE r(c)]
      BY DEF Tick, r
    <3>2. \A c \in Callers : (IF ~Waits(c) THEN call[c] ELSE r(c)) \in Calls
      BY <1>1, <1>3
    <3> QED BY <3>1, <3>2
  <2> QED BY <1>1, <2>1 DEF IInv, TypeOK
<1>6. QueueOK'
  <2>1. \A i \in DOMAIN queue : queue[i] \in Callers BY DEF IInv, TypeOK
  <2> QED BY <1>1, <1>4, <2>1 DEF IInv, QueueOK
<1>7. Holders' = Holders BY <1>4 DEF Holders
<1>8. HoldersOK' BY <1>7 DEF IInv, HoldersOK
<1>9. IInv' BY <1>4, <1>5, <1>6, <1>8 DEF IInv
<1> QED BY <1>2, <1>3, <1>9

-----------------------------------------------------------------------------
(* What ClosedIsSaid asks of a step.                                       *)
Said ==
    \A c \in Callers :
        call[c].phase \notin {"queued", "backoff"} /\ call'[c] # call[c]
        => call'[c].outcome # "runtime"

LEMMA StepHolds == IInv /\ [Next]_vars => IInv' /\ Said
<1> SUFFICES ASSUME IInv, [Next]_vars PROVE IInv' /\ Said
  OBVIOUS
<1>1. ASSUME NEW c \in Callers, Begin(c) PROVE IInv' /\ Said
  BY <1>1, BeginHolds DEF Said
<1>2. ASSUME NEW c \in Callers, Apply(c) PROVE IInv' /\ Said
  BY <1>2, ApplyHolds DEF Said
<1>3. ASSUME NEW c \in Callers, AttemptFails(c) PROVE IInv' /\ Said
  BY <1>3, FailureHolds DEF Said
<1>4. ASSUME NEW c \in Callers, Rejected(c) PROVE IInv' /\ Said
  <2>1. call[c].phase = "sending" /\ UNCHANGED <<closed, queue>> BY <1>4 DEF Rejected
  <2>2. PICK failure \in {"api", "invalid"} :
           call' = [call EXCEPT ![c] = Ended(call[c], failure)]
    BY <1>4 DEF Rejected
  <2>3. failure \in Outcomes /\ failure # "runtime" BY DEF Outcomes
  <2> QED BY <2>1, <2>2, <2>3, EndingHolds DEF Said
<1>5. ASSUME NEW c \in Callers, Resend(c) PROVE IInv' /\ Said
  <2>1. call[c].phase = "backoff" BY <1>5 DEF Resend
  <2> QED BY <1>5, <2>1, ResendHolds DEF Said
<1>6. ASSUME NEW c \in Callers, Answered(c) PROVE IInv' /\ Said
  <2>1. call[c].phase = "sending" /\ UNCHANGED <<closed, queue>> BY <1>6 DEF Answered
  <2>2. "ok" \in Outcomes BY DEF Outcomes
  <2> QED BY <1>6, <2>1, <2>2, EndingHolds DEF Said, Answered
<1>7. ASSUME NEW c \in Callers, TaskRead(c) PROVE IInv' /\ Said
  BY <1>7, TaskReadHolds DEF Said
<1>8. ASSUME NEW c \in Callers, Wake(c) PROVE IInv' /\ Said
  BY <1>8, WakeHolds DEF Said
<1>9. ASSUME NEW c \in Callers, TimesOut(c) PROVE IInv' /\ Said
  BY <1>9, TimeoutHolds DEF Said
<1>10. CASE Admit
  BY <1>10, AdmitHolds DEF Said
<1>11. CASE Tick
  BY <1>11, TickHolds DEF Said
<1>12. CASE UNCHANGED <<queue, call>> /\ closed' \in BOOLEAN
  BY <1>12 DEF IInv, TypeOK, QueueOK, HoldersOK, Holders, Said
<1>13. CASE Close
  <2>1. UNCHANGED <<queue, call>> /\ closed' \in BOOLEAN BY <1>13 DEF Close
  <2> QED BY <1>12, <2>1
<1>14. CASE UNCHANGED vars
  <2>1. UNCHANGED <<queue, call>> /\ closed' \in BOOLEAN
    BY <1>14 DEF vars, IInv, TypeOK
  <2> QED BY <1>12, <2>1
<1>15. ASSUME NEW c \in Callers, CallerStep(c) PROVE IInv' /\ Said
  BY <1>3, <1>4, <1>5, <1>6, <1>7, <1>8, <1>9, <1>15 DEF CallerStep
<1> QED BY <1>1, <1>2, <1>10, <1>11, <1>13, <1>14, <1>15 DEF Next

LEMMA Invariance == Spec => []IInv
<1>1. IInv /\ [Next]_vars => IInv' BY StepHolds
<1> QED BY <1>1, InitHolds, PTL DEF Spec

(* Every variable keeps its type.                                          *)
THEOREM Typing == Spec => []TypeOK
<1>1. IInv => TypeOK BY DEF IInv
<1> QED BY <1>1, Invariance, PTL

(* max_concurrency bounds the requests under way, of any number of callers:*)
(* the semaphore counts those that are sent or wait to be sent again.      *)
THEOREM Bounded == Spec => []ConcurrencyBounded
<1>1. IInv => ConcurrencyBounded
  <2> SUFFICES ASSUME IInv PROVE ConcurrencyBounded
    OBVIOUS
  <2> DEFINE sending == {c \in Callers : call[c].phase = "sending"}
  <2>1. sending \in SUBSET Holders BY DEF Holders
  <2>2. IsFiniteSet(Holders) /\ Cardinality(Holders) <= MaxConcurrency
    BY DEF IInv, HoldersOK
  <2>3. IsFiniteSet(sending) /\ Cardinality(sending) <= Cardinality(Holders)
    BY <2>1, <2>2, FS_Subset
  <2>4. Cardinality(sending) \in Nat /\ Cardinality(Holders) \in Nat
    BY <2>2, <2>3, FS_CardinalityType
  <2>5. Cardinality(sending) <= MaxConcurrency
    BY <2>2, <2>3, <2>4, ConstantTypes
  <2> QED BY <2>5 DEF ConcurrencyBounded
<1> QED BY <1>1, Invariance, PTL

(* No write is applied twice by one call, with any number of retries.      *)
THEOREM Once == Spec => []WritesOnce
<1>1. IInv => WritesOnce
  BY AttemptsTypes DEF IInv, CallOK, WritesOnce
<1> QED BY <1>1, Invariance, PTL

(* No wait outlives its deadline, in the queue or out of it.               *)
THEOREM Deadline == Spec => []WaitKeepsDeadline
<1>1. IInv => WaitKeepsDeadline
  BY DEF IInv, CallOK, WaitKeepsDeadline, Waits
<1> QED BY <1>1, Invariance, PTL

(* Who is told of a closed client by httpx's own error had passed the check*)
(* of _closed before.                                                      *)
THEOREM Told == Spec => ClosedIsSaid
<1>1. IInv /\ [Next]_vars => [Said]_vars BY StepHolds
<1>2. [Said]_vars =>
        [\A c \in Callers :
            /\ call[c].phase \notin {"queued", "backoff"}
            /\ call'[c] # call[c]
            => call'[c].outcome # "runtime"]_vars
  BY DEF Said
<1> QED BY <1>1, <1>2, Invariance, PTL DEF Spec, ClosedIsSaid
=============================================================================
