----------------------------- MODULE HostPacing -----------------------------
(***************************************************************************)
(* The spacing of the requests that one process makes to the store: the    *)
(* concurrent jobs share a lock and the time of the latest request, and a  *)
(* job sleeps for what is left of the interval with the lock in its hands. *)
(*                                                                         *)
(*   scraper/worker.py    _wait_for_host                                   *)
(*   scraper/scraper.py   HostRateLimiter, the same for scrape_cards       *)
(*                                                                         *)
(* The lock is asyncio's: first come, first served. The timeout of a job   *)
(* may cancel it in the line, asleep with the lock, or at its request.     *)
(***************************************************************************)
EXTENDS Integers, FiniteSets, Sequences, SequencesExt

CONSTANTS
    Slots,       \* concurrent jobs of the process
    Interval     \* min_host_interval_seconds

VARIABLES
    since,    \* time since the latest request, the interval at most
    line,     \* who waits for the lock
    call      \* each job's request

pacingVars == <<since, line, call>>

(* nap: what is left of its sleep; waited: how long it has been held up.   *)
NoRequest == [phase |-> "off", nap |-> 0, waited |-> 0]

Init ==
    /\ since = Interval
    /\ line = << >>
    /\ call = [s \in Slots |-> NoRequest]

(* Mutant: the lock is given back before the sleep.                        *)
FreeAsleep == TRUE

(* Mutant: the lock is kept through the request.                           *)
FreeAnswered == \A s \in Slots : call[s].phase \notin {"nap", "send"}

Free == \A s \in Slots : call[s].phase # "nap"

(* What a request may have waited, in all: a turn of everybody.            *)
Turns == Cardinality(Slots) * Interval

Ask(s) ==
    /\ call[s].phase = "off"
    /\ call' = [call EXCEPT ![s].phase = "line"]
    /\ line' = Append(line, s)
    /\ UNCHANGED since

Sending(s) ==
    /\ call' = [call EXCEPT ![s] = [NoRequest EXCEPT !.phase = "send"]]
    /\ since' = 0

MayEnter(s) == line # << >> /\ Head(line) = s /\ Free

(* The lock is taken; the rest of the interval, if any, is slept.          *)
Enter(s) ==
    /\ MayEnter(s)
    /\ line' = Tail(line)
    /\ IF since < Interval
       THEN /\ call' = [call EXCEPT ![s].phase = "nap", ![s].nap = Interval - since]
            /\ UNCHANGED since
       ELSE Sending(s)

Due(s) == call[s].phase = "nap" /\ call[s].nap = 0

Wake(s) ==
    /\ Due(s)
    /\ Sending(s)
    /\ UNCHANGED line

(* The request is answered, or given up.                                   *)
Answered(s) ==
    /\ call[s].phase = "send"
    /\ call' = [call EXCEPT ![s] = NoRequest]
    /\ UNCHANGED <<since, line>>

(* A cancelled job leaves the line, or drops the lock; the time of the     *)
(* latest request is as it was.                                            *)
Leave(s) ==
    /\ call' = [call EXCEPT ![s] = NoRequest]
    /\ IF call[s].phase = "line"
       THEN \E i \in DOMAIN line : line[i] = s /\ line' = RemoveAt(line, i)
       ELSE UNCHANGED line
    /\ UNCHANGED since

Least(a, b) == IF a < b THEN a ELSE b

(* Timers fire on time: none that is due is left behind, nor is a lock     *)
(* that could be handed on.                                                *)
Tick ==
    /\ \A s \in Slots : ~Due(s) /\ ~MayEnter(s)
    /\ since' = Least(since + 1, Interval)
    /\ call' = [s \in Slots |->
                  CASE call[s].phase = "nap" ->
                         [call[s] EXCEPT !.nap = @ - 1, !.waited = @ + 1]
                    [] call[s].phase = "line" ->
                         [call[s] EXCEPT !.waited = Least(@ + 1, Turns + 1)]
                    [] OTHER -> call[s]]
    /\ UNCHANGED line

Next ==
    \/ \E s \in Slots : Ask(s) \/ Enter(s) \/ Wake(s) \/ Answered(s) \/ Leave(s)
    \/ Tick

Spec == Init /\ [][Next]_pacingVars

(***************************************************************************)
(* Properties                                                              *)
(***************************************************************************)
(* Every variable has its type.                                            *)
TypeOK ==
    /\ since \in 0 .. Interval
    /\ line \in Seq(Slots)
    /\ call \in [Slots -> [phase : {"off", "line", "nap", "send"},
                           nap : 0 .. Interval, waited : 0 .. Turns + 1]]

(* However jobs are cancelled in the line or asleep, two requests of the   *)
(* process start at least the interval apart.                              *)
Spaced ==
    [][\A s \in Slots :
          call[s].phase # "send" /\ call'[s].phase = "send" =>
              since >= Interval]_pacingVars

(* No request is held up for more than one turn of every job: neither a    *)
(* cancelled turn nor a slow answer is added to the wait of the others.    *)
WaitBounded == \A s \in Slots : call[s].waited <= Turns
=============================================================================
