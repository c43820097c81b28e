------------------------- MODULE Supervisor_proofs -------------------------
(***************************************************************************)
(* Proofs about Supervisor, for any number of services, any grace period   *)
(* and any exit statuses.                                                  *)
(***************************************************************************)
EXTENDS Supervisor, TLAPS

(* What stop may still signal, from the moment it draws its list up.       *)
ListIsOwn ==
    phase \in {"terminate", "wait", "kill"} =>
        \A s \in running : child[s].state \in Live \cup {"zombie"}

(* The final loop leaves nobody behind it.                                 *)
ReapedBehind ==
    phase \in {"reap", "exited"} =>
        \A s \in Slots : phase = "exited" \/ s < pos =>
            child[s].state \in {"none", "reaped"}

IInv == TypeOK /\ SuccessWasAsked /\ ListIsOwn /\ ReapedBehind

LEMMA BecomeTypes ==
    ASSUME TypeOK, NEW s \in Slots, NEW state \in Live \cup {"none", "zombie", "reaped"}
    PROVE  Become(s, state) \in Children /\ Become(s, state).state = state
  BY DEF TypeOK, Become, Children

LEMMA CollectedTypes ==
    ASSUME TypeOK
    PROVE  /\ Collected \in [Slots -> Children]
           /\ \A s \in Slots :
                /\ child[s].state = "zombie" => Collected[s].state = "reaped"
                /\ child[s].state # "zombie" => Collected[s] = child[s]
<1>1. \A s \in Slots : child[s] \in Children BY DEF TypeOK
<1>2. \A s \in Slots : /\ Become(s, "reaped") \in Children
                       /\ Become(s, "reaped").state = "reaped"
  BY BecomeTypes
<1> QED BY <1>1, <1>2 DEF Collected

LEMMA InitHolds == Init => IInv
<1> SUFFICES ASSUME Init PROVE IInv
  OBVIOUS
<1>1. [state |-> "none", code |-> 0] \in Children
  BY SupervisorAssumption DEF Children
<1>2. child \in [Slots -> Children] BY <1>1 DEF Init
<1>3. 1 \in 1 .. Services + 1 /\ 0 \in 0 .. Grace BY SupervisorAssumption
<1>4. TypeOK BY <1>2, <1>3 DEF Init, TypeOK, Phases
<1> QED BY <1>4 DEF Init, IInv, SuccessWasAsked, ListIsOwn, ReapedBehind, NoStatus

LEMMA StepHolds == IInv /\ [Next]_vars => IInv'
<1> SUFFICES ASSUME IInv, [Next]_vars PROVE IInv'
  OBVIOUS
<1> USE SupervisorAssumption
<1>t. TypeOK BY DEF IInv
<1>c. \A s \in Slots : child[s] \in Children /\ child[s].code \in Codes
  BY <1>t DEF TypeOK, Children
<1>1. CASE StartService
  <2>1. pos \in Slots BY <1>1, <1>t DEF StartService, TypeOK, Slots
  <2>2. Become(pos, "alive") \in Children BY <2>1, <1>t, BecomeTypes DEF Live
  <2>3. child' \in [Slots -> Children] /\ pos' \in 1 .. Services + 1
    BY <1>1, <1>t, <2>1, <2>2 DEF StartService, TypeOK, Slots
  <2>4. TypeOK' BY <1>1, <1>t, <2>3 DEF StartService, TypeOK, Phases
  <2> QED BY <1>1, <2>4 DEF StartService, IInv, SuccessWasAsked, ListIsOwn, ReapedBehind
<1>2. CASE StartDone
  BY <1>2 DEF StartDone, IInv, TypeOK, SuccessWasAsked, ListIsOwn, ReapedBehind, Phases
<1>3. CASE Head
  <2>1. 1 \in 1 .. Services + 1 OBVIOUS
  <2>2. TypeOK' BY <1>3, <1>t, <2>1 DEF Head, TypeOK, Phases
  <2> QED BY <1>3, <2>2 DEF Head, IInv, SuccessWasAsked, ListIsOwn, ReapedBehind
<1>4. CASE Poll
  <2>1. CASE pos > Services
    BY <1>4, <2>1 DEF Poll, IInv, TypeOK, SuccessWasAsked, ListIsOwn, ReapedBehind, Phases
  <2>2. CASE pos <= Services /\ child[pos].state = "zombie"
    <3>1. pos \in Slots BY <2>2, <1>t DEF TypeOK, Slots
    <3>2. Become(pos, "reaped") \in Children BY <3>1, <1>t, BecomeTypes
    <3>3. child' = [child EXCEPT ![pos] = Become(pos, "reaped")]
      BY <1>4, <2>2, <1>t DEF Poll, TypeOK
    <3>4. status' = Unexpected(child[pos].code) /\ phase' = "survey"
      BY <1>4, <2>2, <1>t DEF Poll, TypeOK
    <3>5. status' \in Codes \cup {1} /\ status' # 0
      BY <3>1, <3>4, <1>c DEF Unexpected
    <3>6. TypeOK' BY <1>4, <2>2, <1>t, <3>2, <3>3, <3>4, <3>5 DEF Poll, TypeOK, Phases
    <3> QED BY <3>4, <3>5, <3>6 DEF IInv, SuccessWasAsked, ListIsOwn, ReapedBehind
  <2>3. CASE pos <= Services /\ child[pos].state # "zombie"
    BY <1>4, <2>3 DEF Poll, IInv, TypeOK, SuccessWasAsked, ListIsOwn, ReapedBehind
  <2> QED BY <2>1, <2>2, <2>3, <1>t DEF TypeOK
<1>5. CASE Survey
  <2>1. TypeOK' BY <1>5, <1>t, CollectedTypes DEF Survey, TypeOK, Phases
  <2>2. ListIsOwn'
    BY <1>5, <1>t, CollectedTypes DEF Survey, ListIsOwn, Live
  <2> QED BY <1>5, <2>1, <2>2 DEF Survey, IInv, SuccessWasAsked, ReapedBehind
<1>6. CASE Terminate
  <2>1. \A s \in Slots : /\ Become(s, "told") \in Children
                         /\ Become(s, "told").state = "told"
    BY <1>t, BecomeTypes DEF Live
  <2>2. TypeOK' BY <1>6, <1>t, <1>c, <2>1 DEF Terminate, TypeOK, Phases
  <2>3. ListIsOwn'
    BY <1>6, <1>t, <2>1 DEF Terminate, TypeOK, IInv, ListIsOwn, Live
  <2> QED BY <1>6, <2>2, <2>3 DEF Terminate, IInv, SuccessWasAsked, ReapedBehind
<1>7. CASE Wait
  <2>1. child' \in [Slots -> Children]
    BY <1>7, <1>t, <1>c, CollectedTypes DEF Wait
  <2>2. left' \in 0 .. Grace BY <1>7, <1>t DEF Wait, TypeOK
  <2>3. TypeOK' BY <1>7, <1>t, <2>1, <2>2 DEF Wait, TypeOK
  <2>4. \A s \in running' : s \in Slots /\ child'[s] = child[s]
    BY <1>7, <1>t, CollectedTypes DEF Wait, TypeOK, Live
  <2>5. ListIsOwn'
    BY <1>7, <2>4 DEF Wait, ListIsOwn
  <2> QED BY <1>7, <2>3, <2>5 DEF Wait, IInv, SuccessWasAsked, ReapedBehind
<1>8. CASE WaitEnds
  BY <1>8 DEF WaitEnds, IInv, TypeOK, SuccessWasAsked, ListIsOwn, ReapedBehind, Phases
<1>9. CASE Kill
  <2>1. \A s \in Slots : Become(s, "doomed") \in Children
    BY <1>t, BecomeTypes DEF Live
  <2>2. TypeOK' BY <1>9, <1>t, <1>c, <2>1 DEF Kill, TypeOK, Phases
  <2>3. ReapedBehind' BY <1>9 DEF Kill, ReapedBehind, Slots
  <2> QED BY <1>9, <2>2, <2>3 DEF Kill, IInv, SuccessWasAsked, ListIsOwn
<1>10. CASE Reap
  <2>1. CASE pos > Services
    <3>1. phase' = "exited" /\ child' = child /\ pos' = pos
      BY <1>10, <2>1, <1>t DEF Reap, TypeOK
    <3>2. TypeOK' BY <1>10, <1>t, <3>1 DEF Reap, TypeOK, Phases
    <3>3. ReapedBehind'
      BY <1>10, <2>1, <3>1, <1>t DEF Reap, IInv, TypeOK, ReapedBehind, Slots
    <3> QED BY <1>10, <3>1, <3>2, <3>3 DEF Reap, IInv, SuccessWasAsked, ListIsOwn
  <2>2. CASE pos <= Services
    <3>1. pos \in Slots BY <2>2, <1>t DEF TypeOK, Slots
    <3>2. /\ child[pos].state \notin Live
          /\ child' = [child EXCEPT ![pos] = Collected[pos]]
          /\ pos' = pos + 1
          /\ phase' = "reap"
      BY <1>10, <2>2, <1>t DEF Reap, TypeOK
    <3>3. Collected[pos].state \in {"none", "reaped"} /\ Collected[pos] \in Children
      BY <3>1, <3>2, <1>t, <1>c, CollectedTypes DEF Children
    <3>4. TypeOK'
      <4>1. child' \in [Slots -> Children] BY <3>2, <3>3, <1>t DEF TypeOK
      <4>2. pos' \in 1 .. Services + 1 BY <2>2, <3>2, <1>t DEF TypeOK
      <4> QED BY <1>10, <1>t, <3>2, <4>1, <4>2 DEF Reap, TypeOK, Phases
    <3>5. ReapedBehind'
      BY <1>10, <3>1, <3>2, <3>3, <1>t DEF Reap, IInv, TypeOK, ReapedBehind, Slots
    <3> QED BY <1>10, <3>2, <3>4, <3>5 DEF Reap, IInv, SuccessWasAsked, ListIsOwn
  <2> QED BY <2>1, <2>2, <1>t DEF TypeOK
<1>11. CASE RequestShutdown
  BY <1>11 DEF RequestShutdown, IInv, TypeOK, SuccessWasAsked, ListIsOwn, ReapedBehind
<1>12. CASE \E s \in Slots : ChildEnds(s)
  <2>1. PICK s \in Slots : ChildEnds(s) BY <1>12
  <2>2. PICK code \in Codes :
           child' = [child EXCEPT ![s] = [state |-> "zombie", code |-> code]]
    BY <2>1 DEF ChildEnds
  <2>3. [state |-> "zombie", code |-> code] \in Children BY DEF Children
  <2>4. TypeOK' BY <2>1, <2>2, <2>3, <1>t DEF ChildEnds, TypeOK
  <2>5. ListIsOwn' BY <2>1, <2>2, <1>t DEF ChildEnds, TypeOK, IInv, ListIsOwn
  <2>6. ReapedBehind'
    BY <2>1, <2>2, <1>t DEF ChildEnds, TypeOK, IInv, ReapedBehind, Live
  <2> QED BY <2>1, <2>4, <2>5, <2>6 DEF ChildEnds, IInv, SuccessWasAsked
<1>13. CASE UNCHANGED vars
  BY <1>13 DEF vars, IInv, TypeOK, SuccessWasAsked, ListIsOwn, ReapedBehind
<1> QED BY <1>1, <1>2, <1>3, <1>4, <1>5, <1>6, <1>7, <1>8, <1>9, <1>10, <1>11,
           <1>12, <1>13 DEF Next, SupervisorStep

(* The inductive invariant holds of every behaviour.                       *)
THEOREM Invariance == Spec => []IInv
  BY InitHolds, StepHolds, PTL DEF Spec

(* No service outlives the supervisor, however it came to stop.            *)
THEOREM NobodyLeft == Spec => []NoneLeft
<1>1. IInv => NoneLeft BY DEF IInv, ReapedBehind, NoneLeft
<1> QED BY Invariance, <1>1, PTL

(* stop signals only processes that are its own.                           *)
THEOREM OwnSignals == Spec => []SignalsOwn
<1>1. IInv => SignalsOwn BY DEF IInv, ListIsOwn, SignalsOwn
<1> QED BY Invariance, <1>1, PTL

(* Success is reported only after a request to stop.                       *)
THEOREM AskedSuccess == Spec => []SuccessWasAsked
<1>1. IInv => SuccessWasAsked BY DEF IInv
<1> QED BY Invariance, <1>1, PTL
=============================================================================
