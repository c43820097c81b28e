----------------------------- MODULE Supervisor -----------------------------
(***************************************************************************)
(* The container's first process: it starts the services, watches them,    *)
(* and stops them all when one ends or when it is told to stop.            *)
(*                                                                         *)
(*   src/src/service_supervisor.py   ServiceSupervisor.run, stop           *)
(*                                                                         *)
(* A child that ended stays a zombie until poll or wait collects it; only  *)
(* then may the system give its pid to somebody else. A service may take   *)
(* any time over SIGTERM, or ignore it.                                    *)
(***************************************************************************)
EXTENDS Integers

CONSTANTS
    Services,    \* how many services build_services lists
    Grace,       \* shutdown_timeout_seconds, in polls
    Codes        \* exit statuses a service may end with

ASSUME SupervisorAssumption ==
    /\ Services \in Nat \ {0}
    /\ Grace \in Nat
    /\ Codes \subseteq 0 .. 255
    /\ 0 \in Codes

VARIABLES
    child,       \* each service's process
    phase,       \* where run and stop are
    pos,         \* the service the loop has come to
    running,     \* stop's list of the same name
    left,        \* polls before the deadline
    status,      \* what run is going to return
    shutdown     \* shutdown_requested

vars == <<child, phase, pos, running, left, status, shutdown>>

Slots == 1 .. Services

(* Not yet known; no exit status is 256.                                   *)
NoStatus == 256

(* told: SIGTERM was sent; doomed: SIGKILL was.                            *)
Live == {"alive", "told", "doomed"}
Children == [state : Live \cup {"none", "zombie", "reaped"}, code : Codes]

Phases == {"start", "head", "poll", "survey", "terminate", "wait", "kill",
           "reap", "exited"}

Init ==
    /\ child \in [Slots -> {[state |-> "none", code |-> 0]}]
    /\ phase = "start"
    /\ pos = 1
    /\ running = {}
    /\ left = 0
    /\ status = NoStatus
    /\ shutdown = FALSE

Become(s, state) == [state |-> state, code |-> child[s].code]

(***************************************************************************)
(* run                                                                     *)
(***************************************************************************)
(* Popen of the next service; when it raises, run returns 1.               *)
StartService ==
    /\ phase = "start"
    /\ pos <= Services
    /\ UNCHANGED <<running, left, shutdown>>
    /\ \/ /\ child' = [child EXCEPT ![pos] = Become(pos, "alive")]
          /\ pos' = pos + 1
          /\ UNCHANGED <<phase, status>>
       \/ /\ phase' = "survey"
          /\ status' = 1
          /\ UNCHANGED <<child, pos>>

StartDone ==
    /\ phase = "start"
    /\ pos > Services
    /\ phase' = "head"
    /\ UNCHANGED <<child, pos, running, left, status, shutdown>>

(* while not self.shutdown_requested                                       *)
Head ==
    /\ phase = "head"
    /\ IF shutdown
       THEN phase' = "survey" /\ status' = 0 /\ UNCHANGED pos
       ELSE phase' = "poll" /\ pos' = 1 /\ UNCHANGED status
    /\ UNCHANGED <<child, running, left, shutdown>>

(* Mutant: the service's own status is returned, 0 included.               *)
UnexpectedRaw(code) == code

Unexpected(code) == IF code # 0 THEN code ELSE 1

Poll ==
    /\ phase = "poll"
    /\ IF pos > Services
       THEN phase' = "head" /\ UNCHANGED <<child, pos, status>>
       ELSE IF child[pos].state = "zombie"
            THEN /\ child' = [child EXCEPT ![pos] = Become(pos, "reaped")]
                 /\ status' = Unexpected(child[pos].code)
                 /\ phase' = "survey"
                 /\ UNCHANGED pos
            ELSE pos' = pos + 1 /\ UNCHANGED <<child, phase, status>>
    /\ UNCHANGED <<running, left, shutdown>>

(***************************************************************************)
(* stop                                                                    *)
(***************************************************************************)
Collected == [s \in Slots |-> IF child[s].state = "zombie"
                              THEN Become(s, "reaped") ELSE child[s]]

(* Mutant: stop takes every process it ever started.                       *)
SurveyAll ==
    /\ phase = "survey"
    /\ child' = Collected
    /\ running' = {s \in Slots : child[s].state # "none"}
    /\ phase' = "terminate"
    /\ UNCHANGED <<pos, left, status, shutdown>>

Survey ==
    /\ phase = "survey"
    /\ child' = Collected
    /\ running' = {s \in Slots : child[s].state \in Live}
    /\ phase' = "terminate"
    /\ UNCHANGED <<pos, left, status, shutdown>>

(* SIGTERM to the group of each; one that has ended since is a zombie.     *)
Terminate ==
    /\ phase = "terminate"
    /\ child' = [s \in Slots |-> IF s \in running /\ child[s].state = "alive"
                                 THEN Become(s, "told") ELSE child[s]]
    /\ left' = Grace
    /\ phase' = "wait"
    /\ UNCHANGED <<pos, running, status, shutdown>>

(* One round of the deadline loop, sleep included.                         *)
Wait ==
    /\ phase = "wait"
    /\ running # {}
    /\ left > 0
    /\ child' = [s \in Slots |-> IF s \in running THEN Collected[s]
                                 ELSE child[s]]
    /\ running' = {s \in running : child[s].state \in Live}
    /\ left' = left - 1
    /\ UNCHANGED <<phase, pos, status, shutdown>>

WaitEnds ==
    /\ phase = "wait"
    /\ running = {} \/ left = 0
    /\ phase' = "kill"
    /\ UNCHANGED <<child, pos, running, left, status, shutdown>>

(* Mutant: nothing is forced.                                              *)
KillNobody ==
    /\ phase = "kill"
    /\ phase' = "reap"
    /\ pos' = 1
    /\ UNCHANGED <<child, running, left, status, shutdown>>

Kill ==
    /\ phase = "kill"
    /\ child' = [s \in Slots |-> IF s \in running /\ child[s].state \in Live
                                 THEN Become(s, "doomed") ELSE child[s]]
    /\ phase' = "reap"
    /\ pos' = 1
    /\ UNCHANGED <<running, left, status, shutdown>>

(* Mutant: run returns without waiting.                                    *)
ReapNothing ==
    /\ phase = "reap"
    /\ phase' = "exited"
    /\ UNCHANGED <<child, pos, running, left, status, shutdown>>

(* process.wait() of each process started, in order.                       *)
Reap ==
    /\ phase = "reap"
    /\ UNCHANGED <<running, left, status, shutdown>>
    /\ \/ /\ pos > Services
          /\ phase' = "exited"
          /\ UNCHANGED <<child, pos>>
       \/ /\ pos <= Services
          /\ child[pos].state \notin Live
          /\ child' = [child EXCEPT ![pos] = Collected[pos]]
          /\ pos' = pos + 1
          /\ UNCHANGED phase

(***************************************************************************)
(* Around it                                                               *)
(***************************************************************************)
(* SIGTERM or SIGINT reaches the supervisor, once or again.                *)
RequestShutdown ==
    /\ phase # "exited"
    /\ shutdown' = TRUE
    /\ UNCHANGED <<child, phase, pos, running, left, status>>

(* A service ends: a crash, its answer to SIGTERM, or SIGKILL.             *)
ChildEnds(s) ==
    /\ child[s].state \in Live
    /\ \E code \in Codes :
          child' = [child EXCEPT ![s] = [state |-> "zombie", code |-> code]]
    /\ UNCHANGED <<phase, pos, running, left, status, shutdown>>

SupervisorStep ==
    \/ StartService \/ StartDone \/ Head \/ Poll
    \/ Survey \/ Terminate \/ Wait \/ WaitEnds \/ Kill \/ Reap

Next ==
    \/ SupervisorStep
    \/ RequestShutdown
    \/ \E s \in Slots : ChildEnds(s)

Spec == Init /\ [][Next]_vars

(* The supervisor runs; what is killed ends.                               *)
FairSpec ==
    /\ Spec
    /\ WF_vars(SupervisorStep)
    /\ \A s \in Slots : WF_vars(child[s].state = "doomed" /\ ChildEnds(s))

(***************************************************************************)
(* Properties                                                              *)
(***************************************************************************)
(* Every variable has its type.                                            *)
TypeOK ==
    /\ child \in [Slots -> Children]
    /\ phase \in Phases
    /\ pos \in 1 .. Services + 1
    /\ running \in SUBSET Slots
    /\ left \in 0 .. Grace
    /\ status \in Codes \cup {1, NoStatus}
    /\ shutdown \in BOOLEAN

(* When run returns no service is left running: a second instance in the   *)
(* restarted container never meets one of the first.                       *)
NoneLeft ==
    phase = "exited" => \A s \in Slots : child[s].state \in {"none", "reaped"}

(* stop never signals a pid that was collected and may be somebody else's, *)
(* nor one that was never started; so killpg does not raise half way       *)
(* through stop either.                                                    *)
SignalsOwn ==
    phase \in {"terminate", "kill"} =>
        \A s \in running : child[s].state \in Live \cup {"zombie"}

(* The container reports success only when it was asked to stop: a service *)
(* that ends by itself, even with status 0, is a failure.                  *)
SuccessWasAsked ==
    status = 0 => shutdown

(* A service that ends on its own brings the container down, for Docker to *)
(* restart, and so does a request to stop, whatever the services make of   *)
(* SIGTERM.                                                                *)
EndsContainer ==
    /\ (\E s \in Slots : child[s].state = "zombie") ~> (phase = "exited")
    /\ shutdown ~> (phase = "exited")
=============================================================================
