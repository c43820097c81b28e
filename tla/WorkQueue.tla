----------------------------- MODULE WorkQueue -----------------------------
(***************************************************************************)
(* What the scrape-job queue promises its users: a job waits, is held by   *)
(* one worker at a time, ends once and for all when its holder says so, or *)
(* is removed with its card. A holder may lose its job (it failed and will *)
(* be retried, or its process died): the job then waits again.             *)
(***************************************************************************)
CONSTANTS Jobs, Workers, Nobody

VARIABLES
    state,   \* of each job
    holder   \* the worker that has it, or Nobody

vars == <<state, holder>>

Init ==
    /\ state = [j \in Jobs |-> "unborn"]
    /\ holder = [j \in Jobs |-> Nobody]

Add(j) ==
    /\ state[j] = "unborn"
    /\ state' = [state EXCEPT ![j] = "waiting"]
    /\ UNCHANGED holder

Take(j, w) ==
    /\ state[j] = "waiting"
    /\ state' = [state EXCEPT ![j] = "held"]
    /\ holder' = [holder EXCEPT ![j] = w]

(* The jobs of a process that dies are given back together.                *)
GiveBack(lost) ==
    /\ \A j \in lost : state[j] = "held"
    /\ state' = [j \in Jobs |-> IF j \in lost THEN "waiting" ELSE state[j]]
    /\ holder' = [j \in Jobs |-> IF j \in lost THEN Nobody ELSE holder[j]]

End(j) ==
    /\ state[j] = "held"
    /\ state' = [state EXCEPT ![j] = "ended"]
    /\ holder' = [holder EXCEPT ![j] = Nobody]

(* Any set of existing jobs may go with its card, ended or not.            *)
Remove(removed) ==
    /\ \A j \in removed : state[j] # "unborn"
    /\ state' = [j \in Jobs |-> IF j \in removed THEN "removed" ELSE state[j]]
    /\ holder' = [j \in Jobs |-> IF j \in removed THEN Nobody ELSE holder[j]]

Next ==
    \/ \E j \in Jobs : Add(j)
    \/ \E j \in Jobs, w \in Workers : Take(j, w)
    \/ \E lost \in SUBSET Jobs : GiveBack(lost)
    \/ \E j \in Jobs : End(j)
    \/ \E removed \in SUBSET Jobs : Remove(removed)

Spec == Init /\ [][Next]_vars
=============================================================================
