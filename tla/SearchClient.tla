------------------------------ MODULE SearchClient ------------------------------
(***************************************************************************)
(* The MeiliSearch client: concurrent calls under one semaphore, retries   *)
(* of the calls that are safe to repeat, waiting for a task, and closing.  *)
(*                                                                         *)
(*   meilisearch/client.py   _request, wait_for_task, aclose               *)
(*                                                                         *)
(* The semaphore is asyncio's: first come, first served, and what is       *)
(* released goes to the one that waits longest. httpx ends every attempt   *)
(* (an answer, a timeout or an error); once closed it raises a             *)
(* RuntimeError, which is not one of its request errors. The server may    *)
(* have done what it was asked whatever the client gets to see.            *)
(***************************************************************************)
EXTENDS Integers, Sequences, FiniteSets, SequencesExt

CONSTANTS
    Callers,
    MaxConcurrency,    \* max_concurrency
    MaxRetries,        \* max_retries
    TaskTimeout,       \* timeout_seconds of wait_for_task
    Poll,              \* poll_interval_seconds
    Owns               \* whether the client made its own httpx client

ASSUME ClientAssumption ==
    /\ MaxConcurrency \in Nat \ {0}
    /\ MaxRetries \in Nat
    /\ {TaskTimeout, Poll} \subseteq Nat \ {0}
    /\ Owns \in BOOLEAN

VARIABLES
    closed,
    queue,         \* who waits for the semaphore
    call           \* each caller's call

vars == <<closed, queue, call>>

(* left: to the deadline of a wait; nap: to the end of its pause; done,    *)
(* applied: the server did this attempt, and how many of the call's.       *)
NoCall == [kind |-> "read", phase |-> "idle", attempt |-> 0, left |-> 0, nap |-> 0,
           done |-> FALSE, applied |-> 0, outcome |-> "none"]

Init ==
    /\ closed = FALSE
    /\ queue = << >>
    /\ call = [c \in Callers |-> NoCall]

Ended(record, outcome) ==
    [record EXCEPT !.phase = "idle", !.attempt = 0, !.left = 0, !.nap = 0,
                    !.done = FALSE, !.outcome = outcome]

(* The tasks of a semaphore's holder end, or are put to sleep, inside it.  *)
(* Mutant: the semaphore is not held while waiting to retry.               *)
HoldersSending == {c \in Callers : call[c].phase = "sending"}

Holders == {c \in Callers : call[c].phase \in {"sending", "backoff"}}

(* Mutant: whatever fails is tried again.                                  *)
AttemptsAll(kind) == MaxRetries + 1

(* retry_safe: reads, searches and task reads.                             *)
Attempts(kind) == IF kind = "write" THEN 1 ELSE MaxRetries + 1

MayRetry(c) == call[c].attempt + 1 < Attempts(call[c].kind)

(***************************************************************************)
(* _request                                                                *)
(***************************************************************************)
Sent(record, attempt) ==
    IF closed /\ Owns THEN Ended(record, "runtime")
    ELSE [record EXCEPT !.phase = "sending", !.attempt = attempt, !.done = FALSE]

(* Mutant: _closed is not looked at.                                       *)
AskingUnchecked(c, record) ==
    \/ /\ queue = << >> /\ Cardinality(Holders) < MaxConcurrency
       /\ call' = [call EXCEPT ![c] = Sent(record, 0)]
       /\ UNCHANGED queue
    \/ /\ queue # << >> \/ Cardinality(Holders) >= MaxConcurrency
       /\ call' = [call EXCEPT ![c] = [record EXCEPT !.phase = "queued"]]
       /\ queue' = Append(queue, c)

(* The check of _closed, then the semaphore: passed at once, or waited for.*)
Asking(c, record) ==
    \/ /\ closed
       /\ call' = [call EXCEPT ![c] = Ended(record, "communication")]
       /\ UNCHANGED queue
    \/ /\ ~closed
       /\ queue = << >> /\ Cardinality(Holders) < MaxConcurrency
       /\ call' = [call EXCEPT ![c] = Sent(record, 0)]
       /\ UNCHANGED queue
    \/ /\ ~closed
       /\ queue # << >> \/ Cardinality(Holders) >= MaxConcurrency
       /\ call' = [call EXCEPT ![c] = [record EXCEPT !.phase = "queued"]]
       /\ queue' = Append(queue, c)

(* A call of the client; wait_for_task sets its deadline first.            *)
Begin(c) ==
    /\ call[c].phase = "idle"
    /\ \E kind \in {"read", "write", "wait"} :
          Asking(c, [NoCall EXCEPT !.kind = kind,
                                   !.left = IF kind = "wait" THEN TaskTimeout ELSE 0])
    /\ UNCHANGED closed

Admit ==
    /\ queue # << >>
    /\ Cardinality(Holders) < MaxConcurrency
    /\ call' = [call EXCEPT ![Head(queue)] = Sent(call[Head(queue)], 0)]
    /\ queue' = Tail(queue)
    /\ UNCHANGED closed

(* The server does what it was asked.                                      *)
Apply(c) ==
    /\ call[c].phase = "sending"
    /\ ~call[c].done
    /\ call' = [call EXCEPT ![c].done = TRUE, ![c].applied = @ + 1]
    /\ UNCHANGED <<closed, queue>>

(* A timeout, a network error or a status worth retrying; and one that is  *)
(* not, or an answer that is not what it should be.                        *)
AttemptFails(c) ==
    /\ call[c].phase = "sending"
    /\ \E failure \in {"timeout", "communication", "api"} :
          call' = [call EXCEPT ![c] = IF MayRetry(c)
                                      THEN [@ EXCEPT !.phase = "backoff"]
                                      ELSE Ended(call[c], failure)]
    /\ UNCHANGED <<closed, queue>>

Rejected(c) ==
    /\ call[c].phase = "sending"
    /\ \E failure \in {"api", "invalid"} :
          call' = [call EXCEPT ![c] = Ended(call[c], failure)]
    /\ UNCHANGED <<closed, queue>>

(* Mutant: the attempt is not counted.                                     *)
ResendUncounted(c) ==
    /\ call[c].phase = "backoff"
    /\ call' = [call EXCEPT ![c] = Sent(call[c], call[c].attempt)]
    /\ UNCHANGED <<closed, queue>>

(* _sleep_before_retry is over.                                            *)
Resend(c) ==
    /\ call[c].phase = "backoff"
    /\ call' = [call EXCEPT ![c] = Sent(call[c], call[c].attempt + 1)]
    /\ UNCHANGED <<closed, queue>>

Answered(c) ==
    /\ call[c].phase = "sending"
    /\ call[c].kind # "wait"
    /\ call[c].done
    /\ call' = [call EXCEPT ![c] = Ended(call[c], "ok")]
    /\ UNCHANGED <<closed, queue>>

(***************************************************************************)
(* wait_for_task                                                           *)
(***************************************************************************)
Least(a, b) == IF a < b THEN a ELSE b

(* The task as the server has it: ended, or to be asked for again.         *)
TaskRead(c) ==
    /\ call[c].phase = "sending"
    /\ call[c].kind = "wait"
    /\ call[c].done
    /\ \/ \E outcome \in {"ok", "task"} :
             call' = [call EXCEPT ![c] = Ended(call[c], outcome)]
       \/ /\ call[c].left = 0
          /\ call' = [call EXCEPT ![c] = Ended(call[c], "wait_timeout")]
       \/ /\ call[c].left > 0
          /\ call' = [call EXCEPT ![c].phase = "pause", ![c].attempt = 0,
                                  ![c].done = FALSE,
                                  ![c].nap = Least(Poll, call[c].left)]
    /\ UNCHANGED <<closed, queue>>

Wake(c) ==
    /\ call[c].phase = "pause"
    /\ call[c].nap = 0
    /\ IF call[c].left = 0
       THEN /\ call' = [call EXCEPT ![c] = Ended(call[c], "wait_timeout")]
            /\ UNCHANGED queue
       ELSE Asking(c, [call[c] EXCEPT !.applied = 0])
    /\ UNCHANGED closed

(* asyncio.timeout over get_task: its place in the queue, its request and  *)
(* its retries.                                                            *)
(* Mutant: the deadline is looked at between reads only.                   *)
InterruptsPauses(c) == FALSE

Interrupts(c) ==
    /\ call[c].kind = "wait"
    /\ call[c].phase \in {"queued", "sending", "backoff"}
    /\ call[c].left = 0

TimesOut(c) ==
    /\ Interrupts(c)
    /\ call' = [call EXCEPT ![c] = Ended(call[c], "wait_timeout")]
    /\ IF call[c].phase = "queued"
       THEN \E i \in DOMAIN queue : queue[i] = c /\ queue' = RemoveAt(queue, i)
       ELSE UNCHANGED queue
    /\ UNCHANGED closed

Waits(c) == call[c].kind = "wait" /\ call[c].phase # "idle"

(* Timers fire on time: none that is due is left behind.                   *)
Tick ==
    /\ \E c \in Callers : Waits(c)
    /\ \A c \in Callers :
          ~Interrupts(c) /\ ~(call[c].phase = "pause" /\ call[c].nap = 0)
    /\ call' = [c \in Callers |->
                  IF ~Waits(c) THEN call[c]
                  ELSE [call[c] EXCEPT !.left = @ - 1,
                          !.nap = IF call[c].phase = "pause" THEN @ - 1 ELSE @]]
    /\ UNCHANGED <<closed, queue>>

(* aclose. Requests that are under way fail, or have been answered.        *)
Close ==
    /\ ~closed
    /\ closed' = TRUE
    /\ UNCHANGED <<queue, call>>

CallerStep(c) ==
    \/ AttemptFails(c) \/ Rejected(c) \/ Resend(c) \/ Answered(c)
    \/ TaskRead(c) \/ Wake(c) \/ TimesOut(c)

Next ==
    \/ \E c \in Callers : Begin(c) \/ Apply(c) \/ CallerStep(c)
    \/ Admit \/ Tick \/ Close

Spec == Init /\ [][Next]_vars

(* An attempt ends, a sleep is over, the semaphore is handed on and time   *)
(* passes: httpx and the event loop see to it.                             *)
Fairness ==
    /\ \A c \in Callers : WF_vars(CallerStep(c))
    /\ WF_vars(Admit)
    /\ WF_vars(Tick)

FairSpec == Spec /\ Fairness

(***************************************************************************)
(* Properties                                                              *)
(***************************************************************************)
Outcomes == {"none", "ok", "timeout", "communication", "api", "invalid", "task",
             "wait_timeout", "runtime"}

Calls == [kind : {"read", "write", "wait"},
          phase : {"idle", "queued", "sending", "backoff", "pause"},
          attempt : 0 .. MaxRetries, left : Int, nap : 0 .. Poll,
          done : BOOLEAN, applied : 0 .. MaxRetries + 1,
          outcome : Outcomes]

(* Every variable has its type.                                            *)
TypeOK ==
    /\ closed \in BOOLEAN
    /\ queue \in Seq(Callers)
    /\ call \in [Callers -> Calls]

(* However calls fail, are retried, time out in the queue or are cut       *)
(* short, at most max_concurrency requests are under way.                  *)
ConcurrencyBounded ==
    Cardinality({c \in Callers : call[c].phase = "sending"}) <= MaxConcurrency

(* A write reaches the server once at most, whatever the answer: a task    *)
(* is never submitted twice by one call.                                   *)
WritesOnce ==
    \A c \in Callers : call[c].kind = "write" => call[c].applied <= 1

(* wait_for_task keeps its deadline also while it waits for other calls to *)
(* leave the semaphore, and through its own retries.                       *)
WaitKeepsDeadline ==
    \A c \in Callers : Waits(c) => call[c].left >= 0

(* Closing is said in the client's own words to every call that begins     *)
(* after it and to every wait at its next read: httpx's RuntimeError, which*)
(* no caller expects, is left for calls that had passed the check and then *)
(* waited for the semaphore or to retry.                                   *)
ClosedIsSaid ==
    [][\A c \in Callers :
          /\ call[c].phase \notin {"queued", "backoff"}
          /\ call'[c] # call[c]
          => call'[c].outcome # "runtime"]_vars

(* Every call ends.                                                        *)
CallsEnd ==
    \A c \in Callers : call[c].phase # "idle" ~> call[c].phase = "idle"
=============================================================================
