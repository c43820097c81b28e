-------------------------- MODULE SearchOutbox_proofs --------------------------
(***************************************************************************)
(* Proofs about SearchOutbox and SearchReindex, for any number of cards,   *)
(* events and faults: a document that is not its card's row is on its way, *)
(* whatever the number of workers, and a reindex command that returned     *)
(* covers every row that was not written under it, beside one worker.      *)
(*                                                                         *)
(* The properties speak of the index and of events; in between are batches *)
(* in a worker's hands, accepted tasks, and the uids by which events and   *)
(* workers know them. OutboxInv follows the event of the last write to a   *)
(* card through all of these: each carries the row as it is, and the event *)
(* succeeds only after a task that said it. Then only a later task that    *)
(* says an older row can have made the document stale: Overtaken. The      *)
(* second half adds the pages of the command, and ReindexInv.              *)
(***************************************************************************)
EXTENDS SearchReindex, SequenceTheorems, FiniteSetTheorems, WellFoundedInduction, TLAPS

-----------------------------------------------------------------------------
(* Types.                                                                  *)

Documents == UNION {[S -> Nat] : S \in SUBSET Cards}
Statuses == {"none", "pending", "running", "retry_wait", "succeeded"}
Rows == [status : Statuses, card : Cards, task : Nat \cup {NoTask}, leased : BOOLEAN]
Tasks == [docs : Documents, status : {"enqueued", "succeeded", "failed"}, known : BOOLEAN]
Batches == [events : SUBSET EventIds, docs : Documents]
Knowns == UNION {[S -> Nat] : S \in SUBSET EventIds}
Records == [phase : {"idle", "known", "submit", "save", "wait"}, known : Knowns,
            fresh : SUBSET EventIds, groups : Seq(Batches), task : Nat \cup {NoTask}]

Types ==
    /\ db \in [Cards -> Nat] /\ index \in [Cards -> Nat]
    /\ event \in [EventIds -> Rows]
    /\ worker \in [Workers -> Records]
    /\ tasks \in Seq(Tasks)

(* Documents say what PostgreSQL says of a card, or said of it before.     *)
SaidOnce(docs) ==
    \A c \in DOMAIN docs :
        /\ EventsOf(c) # {} \/ db[c] # NoDoc
        /\ docs[c] = db[c] \/ Newer(db[c], docs[c])

Current(docs, c) == c \in DOMAIN docs /\ docs[c] = db[c]

Written(e) == event[e].status # "none"

(* What a worker has in hand: events that were written, uids of accepted   *)
(* tasks, and the task it submitted for its first group.                   *)
WorkerOK(w) ==
    /\ \A e \in DOMAIN worker[w].known :
          Written(e) /\ worker[w].known[e] \in DOMAIN tasks
    /\ \A e \in worker[w].fresh : Written(e)
    /\ \A i \in DOMAIN worker[w].groups :
          /\ SaidOnce(worker[w].groups[i].docs)
          /\ \A e \in worker[w].groups[i].events : Written(e)
    /\ worker[w].phase \in {"submit", "save", "wait"} => worker[w].groups # << >>
    /\ worker[w].phase \in {"save", "wait"} =>
          /\ worker[w].task \in DOMAIN tasks
          /\ tasks[worker[w].task].docs = Head(worker[w].groups).docs

EventsOK ==
    \A e \in EventIds :
        event[e].task # NoTask => Written(e) /\ event[e].task \in DOMAIN tasks

(* Tasks are run in the order they were accepted in.                       *)
TasksOK ==
    /\ \A u \in DOMAIN tasks : SaidOnce(tasks[u].docs)
    /\ \A u, v \in DOMAIN tasks :
          u < v /\ tasks[u].status = "enqueued" => tasks[v].status = "enqueued"

(* Whatever the worker does with e sends the document of c as it is.       *)
Sends(w, e, c) ==
    /\ e \in DOMAIN worker[w].known => Current(tasks[worker[w].known[e]].docs, c)
    /\ \A i \in DOMAIN worker[w].groups :
          e \in worker[w].groups[i].events => Current(worker[w].groups[i].docs, c)

Said(c) == \E u \in DOMAIN tasks :
               tasks[u].status = "succeeded" /\ Current(tasks[u].docs, c)

(* The event of the last write to c: whoever is at it sends the card as it *)
(* is, and it is marked succeeded only after a task that did.              *)
Last(e, c) ==
    /\ e \in EventsOf(c)
    /\ event[e].task # NoTask => Current(tasks[event[e].task].docs, c)
    /\ \A w \in Workers : Sends(w, e, c)
    /\ event[e].status = "succeeded" => Said(c)

LastOK(c) == EventsOf(c) # {} => \E e \in EventsOf(c) : Last(e, c)

(* The index says what the last task of the card that succeeded said.      *)
Made(c) == {u \in DOMAIN tasks : tasks[u].status = "succeeded" /\ c \in DOMAIN tasks[u].docs}

IndexOK(c) ==
    IF Made(c) = {} THEN index[c] = NoDoc
    ELSE \E v \in Made(c) : index[c] = tasks[v].docs[c] /\ \A u \in Made(c) : u <= v

OutboxInv ==
    /\ Types
    /\ \A w \in Workers : WorkerOK(w)
    /\ EventsOK
    /\ TasksOK
    /\ \A c \in Cards : LastOK(c) /\ IndexOK(c)

-----------------------------------------------------------------------------
(* What a step that writes no card leaves as it was.                       *)

Steady ==
    /\ db' = db
    /\ \A e \in EventIds :
          /\ event'[e].card = event[e].card
          /\ event'[e].status # "none" <=> event[e].status # "none"

(* Tasks are only added, those that Meilisearch has to run yet.            *)
Grown ==
    /\ tasks' \in Seq(Tasks)
    /\ \A u \in DOMAIN tasks : /\ u \in DOMAIN tasks'
                               /\ tasks'[u].docs = tasks[u].docs
                               /\ tasks'[u].status = tasks[u].status
    /\ \A u \in DOMAIN tasks' \ DOMAIN tasks :
          tasks'[u].status = "enqueued" /\ SaidOnce(tasks'[u].docs)

LEMMA SteadySays ==
    ASSUME Steady
    PROVE  /\ \A c : EventsOf(c)' = EventsOf(c)
           /\ \A docs : SaidOnce(docs)' <=> SaidOnce(docs)
           /\ \A docs, c : Current(docs, c)' <=> Current(docs, c)
           /\ \A e \in EventIds : Written(e)' <=> Written(e)
<1>1. ASSUME NEW c PROVE EventsOf(c)' = EventsOf(c) BY DEF Steady, EventsOf
<1>2. ASSUME NEW docs PROVE SaidOnce(docs)' <=> SaidOnce(docs)
  <2> HIDE DEF EventsOf
  <2> QED BY <1>1 DEF Steady, SaidOnce, Newer
<1>3. ASSUME NEW docs, NEW c PROVE Current(docs, c)' <=> Current(docs, c)
  BY DEF Steady, Current
<1> QED BY <1>1, <1>2, <1>3 DEF Steady, Written

LEMMA RecordTypes ==
    ASSUME Types, NEW w \in Workers
    PROVE  /\ worker[w] \in Records
           /\ DOMAIN worker[w].known \subseteq EventIds
           /\ worker[w].known \in Knowns
           /\ worker[w].fresh \subseteq EventIds
           /\ worker[w].groups \in Seq(Batches)
           /\ DOMAIN worker[w].groups = 1 .. Len(worker[w].groups)
           /\ Len(worker[w].groups) \in Nat
           /\ \A i \in DOMAIN worker[w].groups :
                 /\ worker[w].groups[i] \in Batches
                 /\ worker[w].groups[i].events \subseteq EventIds
                 /\ worker[w].groups[i].docs \in Documents
<1>1. worker[w] \in Records BY DEF Types
<1>2. /\ worker[w].known \in Knowns /\ worker[w].fresh \subseteq EventIds
      /\ worker[w].groups \in Seq(Batches)
  BY <1>1 DEF Records
<1>3. DOMAIN worker[w].known \subseteq EventIds BY <1>2 DEF Knowns
<1>4. /\ DOMAIN worker[w].groups = 1 .. Len(worker[w].groups)
      /\ Len(worker[w].groups) \in Nat
      /\ \A i \in DOMAIN worker[w].groups : worker[w].groups[i] \in Batches
  BY <1>2
<1> QED BY <1>1, <1>2, <1>3, <1>4 DEF Batches

LEMMA TaskTypes ==
    ASSUME Types
    PROVE  /\ DOMAIN tasks = 1 .. Len(tasks) /\ Len(tasks) \in Nat
           /\ \A u \in DOMAIN tasks : tasks[u] \in Tasks /\ u \in Nat
  BY DEF Types

(* A worker that does nothing.                                             *)
LEMMA WorkerKept ==
    ASSUME OutboxInv, Steady, Grown, NEW w \in Workers, worker'[w] = worker[w]
    PROVE  /\ WorkerOK(w)'
           /\ \A e, c : Sends(w, e, c) => Sends(w, e, c)'
<1>1. WorkerOK(w) /\ Types BY DEF OutboxInv
<1>2. /\ DOMAIN worker[w].known \subseteq EventIds /\ worker[w].fresh \subseteq EventIds
      /\ \A i \in DOMAIN worker[w].groups : worker[w].groups[i].events \subseteq EventIds
  BY <1>1, RecordTypes
<1>3. \A e \in EventIds : event'[e].status # "none" <=> event[e].status # "none"
  BY DEF Steady
<1>4. \A u \in DOMAIN tasks : u \in DOMAIN tasks' /\ tasks'[u].docs = tasks[u].docs
  BY DEF Grown
<1>5. WorkerOK(w)'
  <2>1. \A docs : SaidOnce(docs)' <=> SaidOnce(docs) BY SteadySays
  <2>2. ASSUME NEW i \in DOMAIN worker[w].groups
        PROVE  SaidOnce(worker[w].groups[i].docs)'
    <3>1. SaidOnce(worker[w].groups[i].docs) BY <1>1 DEF WorkerOK
    <3>2. \A c : EventsOf(c)' = EventsOf(c) BY SteadySays
    <3> HIDE DEF EventsOf
    <3> QED BY <3>1, <3>2 DEF SaidOnce, Steady, Newer
  <2> HIDE DEF SaidOnce
  <2> QED BY <1>1, <1>2, <1>3, <1>4, <2>2 DEF WorkerOK, Written
<1>6. ASSUME NEW e, NEW c, Sends(w, e, c) PROVE Sends(w, e, c)'
  <2>1. e \in DOMAIN worker[w].known => worker[w].known[e] \in DOMAIN tasks
    BY <1>1 DEF WorkerOK
  <2> QED BY <1>4, <1>6, <2>1 DEF Sends, Current, Steady
<1> QED BY <1>5, <1>6

(* The last event of a card stays it.                                      *)
LEMMA LastKept ==
    ASSUME OutboxInv, Steady, Grown, NEW e \in EventIds, NEW c \in Cards, Last(e, c),
           \/ event'[e].task \in {NoTask, event[e].task}
           \/ \E u \in DOMAIN tasks : event'[e].task = u /\ Current(tasks[u].docs, c),
           event'[e].status = "succeeded" => event[e].status = "succeeded" \/ Said(c),
           \A w \in Workers : Sends(w, e, c)'
    PROVE  Last(e, c)'
<1>1. \A u \in DOMAIN tasks : /\ u \in DOMAIN tasks' /\ tasks'[u].docs = tasks[u].docs
                              /\ tasks'[u].status = tasks[u].status
  BY DEF Grown
<1>2. e \in EventsOf(c)' BY SteadySays DEF Last
<1>3. event'[e].task # NoTask => Current(tasks[event[e].task].docs, c)'
  <2>1. CASE event'[e].task = event[e].task
    <3>1. event[e].task # NoTask => event[e].task \in DOMAIN tasks
      BY DEF OutboxInv, EventsOK
    <3> QED BY <1>1, <2>1, <3>1 DEF Last, Current, Steady
  <2>2. CASE \E u \in DOMAIN tasks : event'[e].task = u /\ Current(tasks[u].docs, c)
    BY <1>1, <2>2 DEF Current, Steady
  <2> QED BY <2>1, <2>2
<1>4. event'[e].status = "succeeded" => Said(c)'
  <2>1. Said(c) => Said(c)' BY <1>1 DEF Said, Current, Steady
  <2> QED BY <2>1 DEF Last
<1> QED BY <1>2, <1>3, <1>4 DEF Last

(* No card is written, and the event of the last write to a card stays it. *)
Quiet == Steady /\ \A e \in EventIds, c \in Cards : Last(e, c) => Last(e, c)'

LEMMA MoveHolds ==
    ASSUME OutboxInv, Steady, Grown, index' = index,
           event' \in [EventIds -> Rows], worker' \in [Workers -> Records],
           EventsOK', \A w \in Workers : WorkerOK(w)',
           \A e \in EventIds, c \in Cards : Last(e, c) => Last(e, c)'
    PROVE  OutboxInv' /\ Quiet
<1>1. Types' BY DEF OutboxInv, Types, Steady, Grown
<1>2. /\ DOMAIN tasks = 1 .. Len(tasks) /\ Len(tasks) \in Nat
      /\ DOMAIN tasks' = 1 .. Len(tasks') /\ Len(tasks') \in Nat
      /\ Types /\ TasksOK
  BY <1>1, TaskTypes DEF OutboxInv, Grown
<1>3. TasksOK'
  <2>1. ASSUME NEW u \in DOMAIN tasks' PROVE SaidOnce(tasks[u].docs)'
    <3>1. SaidOnce(tasks'[u].docs)
      BY <1>2 DEF TasksOK, Grown
    <3>2. \A c : EventsOf(c)' = EventsOf(c) BY SteadySays
    <3> HIDE DEF EventsOf
    <3> QED BY <3>1, <3>2 DEF SaidOnce, Steady, Newer
  <2>2. ASSUME NEW u \in DOMAIN tasks', NEW v \in DOMAIN tasks', u < v,
               tasks'[u].status = "enqueued"
        PROVE  tasks'[v].status = "enqueued"
    <3>1. CASE v \in DOMAIN tasks
      <4>1. u \in DOMAIN tasks BY <1>2, <2>2, <3>1
      <4> QED BY <1>2, <2>2, <3>1, <4>1 DEF TasksOK, Grown
    <3>2. CASE v \notin DOMAIN tasks BY <3>2 DEF Grown
    <3> QED BY <3>1, <3>2
  <2> HIDE DEF SaidOnce
  <2> QED BY <2>1, <2>2 DEF TasksOK
<1>4. ASSUME NEW c \in Cards PROVE LastOK(c)' /\ IndexOK(c)'
  <2>1. EventsOf(c)' = EventsOf(c) /\ EventsOf(c) \subseteq EventIds /\ LastOK(c)
    BY SteadySays DEF EventsOf, OutboxInv
  <2>2. LastOK(c)'
    <3> HIDE DEF EventsOf, Last
    <3> QED BY <2>1 DEF LastOK, Steady
  <2>3. /\ Made(c)' = Made(c)
        /\ \A u \in Made(c) : tasks'[u].docs = tasks[u].docs
    BY DEF Made, Grown
  <2>4. IndexOK(c) BY DEF OutboxInv
  <2> HIDE DEF Made
  <2>5. IndexOK(c)' BY <2>3, <2>4 DEF IndexOK
  <2> QED BY <2>2, <2>5
<1> HIDE DEF Types, WorkerOK, EventsOK, TasksOK, LastOK, IndexOK
<1> QED BY <1>1, <1>3, <1>4 DEF OutboxInv, Quiet

-----------------------------------------------------------------------------
(* Events.                                                                 *)

LEMMA TasksStay == ASSUME Types, tasks' = tasks PROVE Grown
  BY DEF Types, Grown

(* A mark looks at nothing, and changes no event that was not written.     *)
Marked(events, clear, to) ==
    event' = [e \in EventIds |->
                IF e \in events
                THEN [event[e] EXCEPT !.status = to, !.leased = FALSE,
                                      !.task = IF clear THEN NoTask ELSE @]
                ELSE event[e]]

LEMMA MarkTypes ==
    ASSUME OutboxInv, NEW events \in SUBSET EventIds, NEW clear \in BOOLEAN,
           NEW to \in {"retry_wait", "succeeded"}, Marked(events, clear, to),
           \A e \in events : Written(e)
    PROVE  /\ event' \in [EventIds -> Rows]
           /\ \A e \in EventIds :
                 /\ event'[e].card = event[e].card
                 /\ event'[e].status # "none" <=> event[e].status # "none"
                 /\ event'[e].task \in {NoTask, event[e].task}
                 /\ event'[e].status = "succeeded" =>
                       event[e].status = "succeeded" \/ (e \in events /\ to = "succeeded")
<1>1. ASSUME NEW e \in EventIds
      PROVE  /\ event'[e] \in Rows /\ event'[e].card = event[e].card
             /\ event'[e].status # "none" <=> event[e].status # "none"
             /\ event'[e].task \in {NoTask, event[e].task}
             /\ event'[e].status = "succeeded" =>
                   event[e].status = "succeeded" \/ (e \in events /\ to = "succeeded")
  <2>1. event[e] \in Rows BY DEF OutboxInv, Types
  <2>2. CASE e \notin events
    <3>1. event'[e] = event[e] BY <2>2 DEF Marked
    <3>2. event'[e] \in Rows BY <2>1, <3>1
    <3>3. /\ event'[e].card = event[e].card /\ event'[e].status = event[e].status
          /\ event'[e].task = event[e].task
      BY <3>1
    <3> QED BY <3>2, <3>3
  <2>3. CASE e \in events
    <3> DEFINE row == [event[e] EXCEPT !.status = to, !.leased = FALSE,
                                       !.task = IF clear THEN NoTask ELSE @]
    <3>1. event'[e] = row BY <2>3 DEF Marked
    <3>2. /\ row \in Rows /\ row.card = event[e].card /\ row.status = to
          /\ row.task \in {NoTask, event[e].task}
      BY <2>1 DEF Rows, Statuses
    <3> HIDE DEF row
    <3>3. event[e].status # "none" BY <2>3 DEF Written
    <3> QED BY <2>3, <3>1, <3>2, <3>3
  <2> QED BY <2>2, <2>3
<1>2. event' \in [EventIds -> Rows] BY <1>1 DEF Marked
<1> QED BY <1>1, <1>2

LEMMA RetryMarks ==
    ASSUME OutboxInv, NEW events \in SUBSET EventIds, NEW clear \in BOOLEAN,
           Retry(events, clear)
    PROVE  Marked(events, clear, "retry_wait")
  BY DEF Retry, Marked

LEMMA SucceededMarks ==
    ASSUME OutboxInv, NEW events \in SUBSET EventIds, Succeeded(events)
    PROVE  Marked(events, FALSE, "succeeded")
<1>1. ASSUME NEW e \in EventIds
      PROVE  [event[e] EXCEPT !.status = "succeeded", !.leased = FALSE] =
             [event[e] EXCEPT !.status = "succeeded", !.leased = FALSE,
                              !.task = event[e].task]
  BY DEF OutboxInv, Types, Rows
<1> QED BY <1>1 DEF Succeeded, Marked

(* What the answer for a task leaves of the events that waited for it.     *)
LEMMA Answered ==
    ASSUME OutboxInv, NEW uid \in DOMAIN tasks, NEW events \in SUBSET EventIds,
           WaitAndMark(uid, events), \A e \in events : Written(e), db' = db
    PROVE  /\ event' \in [EventIds -> Rows] /\ Steady
           /\ \A e \in EventIds :
                 /\ event'[e].task \in {NoTask, event[e].task}
                 /\ event'[e].status = "succeeded" =>
                       \/ event[e].status = "succeeded"
                       \/ e \in events /\ tasks[uid].status = "succeeded"
<1>1. tasks[uid].status \in {"enqueued", "succeeded", "failed"}
  BY TaskTypes DEF OutboxInv, Tasks
<1>2. \E clear \in BOOLEAN, to \in {"retry_wait", "succeeded"} :
         /\ Marked(events, clear, to)
         /\ to = "succeeded" => tasks[uid].status = "succeeded"
  <2>1. CASE Retry(events, FALSE) BY <2>1, RetryMarks
  <2>2. CASE Retry(events, TRUE) BY <2>2, RetryMarks
  <2>3. CASE Succeeded(events) /\ Answer(uid) = "succeeded"
    <3>1. tasks[uid].status = "succeeded" BY <2>3 DEF Answer
    <3> QED BY <2>3, <3>1, SucceededMarks
  <2>4. (Answer(uid) = "failed") \in BOOLEAN OBVIOUS
  <2> QED BY <2>1, <2>2, <2>3, <2>4 DEF WaitAndMark
<1>3. PICK clear \in BOOLEAN, to \in {"retry_wait", "succeeded"} :
         /\ Marked(events, clear, to)
         /\ to = "succeeded" => tasks[uid].status = "succeeded"
  BY <1>2
<1> HIDE DEF Marked, Written
<1>4. /\ event' \in [EventIds -> Rows]
      /\ \A e \in EventIds :
            /\ event'[e].card = event[e].card
            /\ event'[e].status # "none" <=> event[e].status # "none"
            /\ event'[e].task \in {NoTask, event[e].task}
            /\ event'[e].status = "succeeded" =>
                  event[e].status = "succeeded" \/ (e \in events /\ to = "succeeded")
  BY <1>3, MarkTypes
<1> QED BY <1>3, <1>4 DEF Steady

LEMMA EventsKept ==
    ASSUME OutboxInv, Steady, Grown,
           \A e \in EventIds : \/ event'[e].task \in {NoTask, event[e].task}
                               \/ Written(e) /\ event'[e].task \in DOMAIN tasks
    PROVE  EventsOK'
<1>1. \A u \in DOMAIN tasks : u \in DOMAIN tasks' BY DEF Grown
<1>2. EventsOK BY DEF OutboxInv
<1> QED BY <1>1, <1>2 DEF EventsOK, Written, Steady

(* A step of one worker, or of none, that adds no task.                    *)
LEMMA WorkerStepHolds ==
    ASSUME OutboxInv, Steady, Grown, index' = index,
           event' \in [EventIds -> Rows], worker' \in [Workers -> Records],
           NEW S \in SUBSET Workers,
           \A v \in Workers \ S : worker'[v] = worker[v],
           \A v \in S : WorkerOK(v)',
           \A v \in S, e \in EventIds, c \in Cards : Last(e, c) => Sends(v, e, c)',
           \A e \in EventIds :
              \/ event'[e].task \in {NoTask, event[e].task}
              \/ /\ Written(e) /\ event'[e].task \in DOMAIN tasks
                 /\ \A c \in Cards :
                       Last(e, c) => \E u \in DOMAIN tasks :
                                        event'[e].task = u /\ Current(tasks[u].docs, c),
           \A e \in EventIds, c \in Cards :
              Last(e, c) /\ event'[e].status = "succeeded" =>
                 event[e].status = "succeeded" \/ Said(c)
    PROVE  OutboxInv' /\ Quiet
<1>1. EventsOK' BY EventsKept
<1>2. ASSUME NEW v \in Workers PROVE WorkerOK(v)'
  <2>1. CASE v \in S BY <2>1
  <2>2. CASE v \notin S BY <2>2, WorkerKept
  <2> QED BY <2>1, <2>2
<1>3. ASSUME NEW e \in EventIds, NEW c \in Cards, Last(e, c) PROVE Last(e, c)'
  <2>1. ASSUME NEW v \in Workers PROVE Sends(v, e, c)'
    <3>1. CASE v \in S BY <1>3, <3>1
    <3>2. CASE v \notin S
      <4>1. Sends(v, e, c) BY <1>3 DEF Last
      <4> QED BY <3>2, <4>1, WorkerKept
    <3> QED BY <3>1, <3>2
  <2>2. \/ event'[e].task \in {NoTask, event[e].task}
        \/ \E u \in DOMAIN tasks : event'[e].task = u /\ Current(tasks[u].docs, c)
    BY <1>3
  <2>3. event'[e].status = "succeeded" => event[e].status = "succeeded" \/ Said(c)
    BY <1>3
  <2> QED BY <1>3, <2>1, <2>2, <2>3, LastKept
<1> QED BY <1>1, <1>2, <1>3, MoveHolds

(* A step of one worker.                                                   *)
LEMMA OneWorker ==
    ASSUME OutboxInv, Steady, Grown, index' = index,
           event' \in [EventIds -> Rows], worker' \in [Workers -> Records],
           NEW w \in Workers,
           \A v \in Workers \ {w} : worker'[v] = worker[v],
           WorkerOK(w)',
           \A e \in EventIds, c \in Cards : Last(e, c) => Sends(w, e, c)',
           \A e \in EventIds :
              \/ event'[e].task \in {NoTask, event[e].task}
              \/ /\ Written(e) /\ event'[e].task \in DOMAIN tasks
                 /\ \A c \in Cards :
                       Last(e, c) => \E u \in DOMAIN tasks :
                                        event'[e].task = u /\ Current(tasks[u].docs, c),
           \A e \in EventIds, c \in Cards :
              Last(e, c) /\ event'[e].status = "succeeded" =>
                 event[e].status = "succeeded" \/ Said(c)
    PROVE  OutboxInv' /\ Quiet
<1> DEFINE S == {w}
<1>1. /\ S \in SUBSET Workers /\ \A v \in Workers \ S : worker'[v] = worker[v]
      /\ \A v \in S : WorkerOK(v)'
      /\ \A v \in S, e \in EventIds, c \in Cards : Last(e, c) => Sends(v, e, c)'
  OBVIOUS
<1> HIDE DEF S
<1> QED BY <1>1, WorkerStepHolds

LEMMA IdleTypes == Idle \in Records
<1>1. << >> \in [{} -> Nat] /\ << >> \in Seq(Batches) OBVIOUS
<1>2. << >> \in Knowns BY <1>1 DEF Knowns
<1> QED BY <1>1, <1>2 DEF Idle, Records

(* A worker that is idle.                                                  *)
LEMMA IdleHolds ==
    ASSUME NEW w \in Workers, worker'[w] = Idle
    PROVE  WorkerOK(w)' /\ \A e, c : Sends(w, e, c)'
<1>1. /\ DOMAIN worker'[w].known = {} /\ worker'[w].fresh = {}
      /\ DOMAIN worker'[w].groups = {} /\ worker'[w].phase = "idle"
  BY DEF Idle
<1> QED BY <1>1 DEF WorkerOK, Sends

LEMMA AbortHolds ==
    ASSUME OutboxInv, NEW w \in Workers, Abort(w)
    PROVE  OutboxInv' /\ Quiet
<1>1. /\ worker' = [worker EXCEPT ![w] = Idle] /\ db' = db /\ event' = event
      /\ tasks' = tasks /\ index' = index
  BY DEF Abort, Goes
<1>2. Types BY DEF OutboxInv
<1>3. /\ worker' \in [Workers -> Records] /\ worker'[w] = Idle
      /\ \A v \in Workers \ {w} : worker'[v] = worker[v]
  BY <1>1, <1>2, IdleTypes DEF Types
<1>4. Steady /\ Grown /\ event' \in [EventIds -> Rows]
  BY <1>1, <1>2, TasksStay DEF Steady, Types
<1>5. WorkerOK(w)' /\ \A e, c : Sends(w, e, c)' BY <1>3, IdleHolds
<1>6. \A e \in EventIds : event'[e].task = event[e].task /\ event'[e].status = event[e].status
  BY <1>1
<1> QED BY <1>1, <1>3, <1>4, <1>5, <1>6, OneWorker

LEMMA LeaseEndsHolds ==
    ASSUME OutboxInv, NEW f \in EventIds, LeaseEnds(f)
    PROVE  OutboxInv' /\ Quiet
<1>1. /\ event' = [event EXCEPT ![f].leased = FALSE] /\ db' = db
      /\ worker' = worker /\ tasks' = tasks /\ index' = index
  BY DEF LeaseEnds
<1>2. Types BY DEF OutboxInv
<1>3. /\ event' \in [EventIds -> Rows]
      /\ \A e \in EventIds : /\ event'[e].card = event[e].card
                             /\ event'[e].status = event[e].status
                             /\ event'[e].task = event[e].task
  BY <1>1, <1>2 DEF Types, Rows
<1>4. Steady /\ Grown /\ worker' \in [Workers -> Records]
  BY <1>1, <1>2, <1>3, TasksStay DEF Steady, Types
<1> DEFINE S == {}
<1>5. S \in SUBSET Workers /\ \A v \in Workers \ S : worker'[v] = worker[v]
  BY <1>1
<1>6. \A v \in S : FALSE OBVIOUS
<1> HIDE DEF S
<1> QED BY <1>1, <1>3, <1>4, <1>5, <1>6, WorkerStepHolds

-----------------------------------------------------------------------------
(* The steps of a worker.                                                  *)

LEMMA ClaimHolds ==
    ASSUME OutboxInv, NEW w \in Workers, ClaimEvents(w)
    PROVE  OutboxInv' /\ Quiet
<1>1. PICK batch \in SUBSET Eligible :
         /\ event' = [e \in EventIds |->
                        IF e \in batch
                        THEN [event[e] EXCEPT !.status = "running", !.leased = TRUE]
                        ELSE event[e]]
         /\ LET fresh == {e \in batch : event[e].task = NoTask} IN
            Goes(w, [Idle EXCEPT !.phase = "known", !.fresh = fresh,
                                 !.known = [e \in batch \ fresh |-> event[e].task]])
  BY DEF ClaimEvents
<1>2. /\ db' = db /\ tasks' = tasks /\ index' = index /\ Types
  BY DEF ClaimEvents, OutboxInv
<1>3. batch \subseteq EventIds /\ \A e \in batch : event[e].status # "none"
  BY DEF Eligible
<1> DEFINE fresh == {e \in batch : event[e].task = NoTask}
           known == [e \in batch \ fresh |-> event[e].task]
           new == [Idle EXCEPT !.phase = "known", !.fresh = fresh, !.known = known]
<1>4. \A e \in batch \ fresh : event[e].task \in DOMAIN tasks /\ event[e].task \in Nat
  BY <1>2, <1>3, TaskTypes DEF OutboxInv, EventsOK
<1>5. known \in Knowns
  <2>1. known \in [batch \ fresh -> Nat] BY <1>4
  <2>2. batch \ fresh \in SUBSET EventIds BY <1>3
  <2> HIDE DEF known, fresh
  <2> QED BY <2>1, <2>2 DEF Knowns
<1>6. fresh \subseteq EventIds BY <1>3
<1>7. worker' = [worker EXCEPT ![w] = new] BY <1>1 DEF Goes
<1> HIDE DEF known, fresh
<1>8. /\ new \in Records /\ new.known = known /\ new.fresh = fresh
      /\ DOMAIN new.groups = {} /\ new.phase = "known"
  <2>1. /\ Idle \in Records /\ DOMAIN Idle.groups = {} BY IdleTypes DEF Idle
  <2> HIDE DEF Idle
  <2>2. new \in Records BY <1>5, <1>6, <2>1 DEF Records
  <2>3. /\ new.known = known /\ new.fresh = fresh /\ new.phase = "known"
        /\ new.groups = Idle.groups
    BY <2>1 DEF Records
  <2> QED BY <2>1, <2>2, <2>3
<1> HIDE DEF new
<1>9. /\ worker' \in [Workers -> Records] /\ worker'[w] = new
      /\ \A v \in Workers \ {w} : worker'[v] = worker[v]
  BY <1>2, <1>7, <1>8 DEF Types
<1>10. ASSUME NEW e \in EventIds
       PROVE  /\ event'[e] \in Rows /\ event'[e].card = event[e].card
              /\ event'[e].status # "none" <=> event[e].status # "none"
              /\ event'[e].task = event[e].task
              /\ event'[e].status = "succeeded" => event[e].status = "succeeded"
  <2>1. event[e] \in Rows BY <1>2 DEF Types
  <2>2. CASE e \notin batch BY <1>1, <2>1, <2>2
  <2>3. CASE e \in batch
    <3> DEFINE row == [event[e] EXCEPT !.status = "running", !.leased = TRUE]
    <3>1. event'[e] = row BY <1>1, <2>3
    <3>2. /\ row \in Rows /\ row.card = event[e].card /\ row.status = "running"
          /\ row.task = event[e].task
      BY <2>1 DEF Rows, Statuses
    <3> HIDE DEF row
    <3> QED BY <1>3, <2>3, <3>1, <3>2
  <2> QED BY <2>2, <2>3
<1>11. event' \in [EventIds -> Rows] BY <1>1, <1>10
<1>12. Steady /\ Grown BY <1>2, <1>10, TasksStay DEF Steady
<1>13. /\ DOMAIN known = batch \ fresh /\ fresh \subseteq batch
       /\ \A e \in batch \ fresh : known[e] = event[e].task
  BY DEF known, fresh
<1>14. WorkerOK(w)'
  <2>1. \A e \in batch : event'[e].status # "none" BY <1>3, <1>10
  <2> QED BY <1>2, <1>4, <1>8, <1>9, <1>13, <2>1 DEF WorkerOK, Written
<1>15. ASSUME NEW e \in EventIds, NEW c \in Cards, Last(e, c) PROVE Sends(w, e, c)'
  <2>1. \A f \in batch \ fresh : event[f].task # NoTask BY DEF fresh
  <2>2. e \in batch \ fresh => known[e] = event[e].task /\ Current(tasks[event[e].task].docs, c)
    BY <1>13, <1>15, <2>1 DEF Last
  <2> QED BY <1>2, <1>8, <1>9, <1>13, <2>2 DEF Sends, Current
<1> QED BY <1>2, <1>9, <1>10, <1>11, <1>12, <1>14, <1>15, OneWorker

(* A worker with fewer of its events in hand than before, and with its     *)
(* groups as they were or one fewer.                                       *)
LEMMA LessInHand ==
    ASSUME OutboxInv, Steady, Grown, NEW w \in Workers,
           worker'[w].fresh \subseteq worker[w].fresh,
           DOMAIN worker'[w].known \subseteq DOMAIN worker[w].known,
           \A e \in DOMAIN worker'[w].known : worker'[w].known[e] = worker[w].known[e],
           \A i \in DOMAIN worker'[w].groups :
              \E j \in DOMAIN worker[w].groups : worker'[w].groups[i] = worker[w].groups[j],
           worker'[w].phase \in {"submit", "save", "wait"} => worker'[w].groups # << >>,
           worker'[w].phase \in {"save", "wait"} =>
              /\ worker'[w].task \in DOMAIN tasks'
              /\ tasks'[worker'[w].task].docs = Head(worker'[w].groups).docs
    PROVE  /\ WorkerOK(w)'
           /\ \A e, c : Sends(w, e, c) => Sends(w, e, c)'
<1>1. WorkerOK(w) /\ Types BY DEF OutboxInv
<1>2. /\ DOMAIN worker[w].known \subseteq EventIds /\ worker[w].fresh \subseteq EventIds
      /\ \A i \in DOMAIN worker[w].groups : worker[w].groups[i].events \subseteq EventIds
  BY <1>1, RecordTypes
<1>3. \A e \in EventIds : event'[e].status # "none" <=> event[e].status # "none"
  BY DEF Steady
<1>4. \A u \in DOMAIN tasks : u \in DOMAIN tasks' /\ tasks'[u].docs = tasks[u].docs
  BY DEF Grown
<1>5. ASSUME NEW i \in DOMAIN worker'[w].groups
      PROVE  /\ SaidOnce(worker[w].groups[i].docs)'
             /\ \A e \in worker'[w].groups[i].events : event'[e].status # "none"
  <2>1. PICK j \in DOMAIN worker[w].groups : worker'[w].groups[i] = worker[w].groups[j]
    OBVIOUS
  <2>2. /\ SaidOnce(worker[w].groups[j].docs)
        /\ \A e \in worker[w].groups[j].events : event[e].status # "none"
    BY <1>1 DEF WorkerOK, Written
  <2>3. \A c : EventsOf(c)' = EventsOf(c) BY SteadySays
  <2>4. \A e \in worker'[w].groups[i].events : event'[e].status # "none"
    BY <1>2, <1>3, <2>1, <2>2
  <2> HIDE DEF EventsOf
  <2>5. SaidOnce(worker[w].groups[i].docs)'
    BY <2>1, <2>2, <2>3 DEF SaidOnce, Steady, Newer
  <2> QED BY <2>4, <2>5
<1>6. \A e \in DOMAIN worker'[w].known :
         event'[e].status # "none" /\ worker'[w].known[e] \in DOMAIN tasks'
  BY <1>1, <1>2, <1>3, <1>4 DEF WorkerOK, Written
<1>7. \A e \in worker'[w].fresh : event'[e].status # "none"
  BY <1>1, <1>2, <1>3 DEF WorkerOK, Written
<1>8. WorkerOK(w)'
  <2> HIDE DEF SaidOnce
  <2> QED BY <1>5, <1>6, <1>7 DEF WorkerOK, Written
<1>9. ASSUME NEW e, NEW c, Sends(w, e, c) PROVE Sends(w, e, c)'
  <2>1. e \in DOMAIN worker'[w].known =>
           /\ worker'[w].known[e] = worker[w].known[e]
           /\ worker[w].known[e] \in DOMAIN tasks
           /\ Current(tasks[worker[w].known[e]].docs, c)
    BY <1>1, <1>9 DEF WorkerOK, Sends
  <2>2. ASSUME NEW i \in DOMAIN worker'[w].groups, e \in worker'[w].groups[i].events
        PROVE  Current(worker[w].groups[i].docs, c)'
    <3>1. PICK j \in DOMAIN worker[w].groups : worker'[w].groups[i] = worker[w].groups[j]
      OBVIOUS
    <3>2. Current(worker[w].groups[j].docs, c) BY <1>9, <2>2, <3>1 DEF Sends
    <3> QED BY <3>1, <3>2 DEF Current, Steady
  <2>3. e \in DOMAIN worker'[w].known => Current(tasks[worker[w].known[e]].docs, c)'
    BY <1>4, <2>1 DEF Current, Steady
  <2> HIDE DEF Current
  <2> QED BY <2>2, <2>3 DEF Sends
<1> QED BY <1>8, <1>9

LEMMA WaitKnownHolds ==
    ASSUME OutboxInv, NEW w \in Workers, NEW f \in EventIds, WaitKnown(w, f)
    PROVE  OutboxInv' /\ Quiet
<1>1. /\ f \in DOMAIN worker[w].known /\ WaitAndMark(worker[w].known[f], {f})
      /\ worker' = [worker EXCEPT ![w].known = [e \in DOMAIN @ \ {f} |-> @[e]]]
      /\ db' = db /\ tasks' = tasks /\ index' = index
  BY DEF WaitKnown
<1>2. Types /\ WorkerOK(w) /\ worker[w] \in Records BY RecordTypes DEF OutboxInv
<1>3. PICK uid \in DOMAIN tasks : uid = worker[w].known[f] BY <1>1, <1>2 DEF WorkerOK
<1>4. Written(f) BY <1>1, <1>2 DEF WorkerOK
<1>5. /\ event' \in [EventIds -> Rows] /\ Steady
      /\ \A e \in EventIds :
            /\ event'[e].task \in {NoTask, event[e].task}
            /\ event'[e].status = "succeeded" =>
                  \/ event[e].status = "succeeded"
                  \/ e \in {f} /\ tasks[uid].status = "succeeded"
  BY <1>1, <1>3, <1>4, Answered
<1>6. Grown BY <1>1, <1>2, TasksStay
<1> DEFINE known == [e \in DOMAIN worker[w].known \ {f} |-> worker[w].known[e]]
           new == [worker[w] EXCEPT !.known = known]
<1>7. worker' = [worker EXCEPT ![w] = new] BY <1>1, <1>2 DEF Types
<1>8. known \in Knowns
  <2>1. PICK D \in SUBSET EventIds : worker[w].known \in [D -> Nat]
    BY <1>2, RecordTypes DEF Knowns
  <2>2. known \in [D \ {f} -> Nat] /\ D \ {f} \in SUBSET EventIds BY <2>1
  <2> HIDE DEF known
  <2> QED BY <2>2 DEF Knowns
<1>9. /\ DOMAIN known \subseteq DOMAIN worker[w].known
      /\ \A e \in DOMAIN known : known[e] = worker[w].known[e]
  OBVIOUS
<1> HIDE DEF known
<1>10. /\ new \in Records /\ new.known = known /\ new.fresh = worker[w].fresh
       /\ new.groups = worker[w].groups /\ new.phase = worker[w].phase
       /\ new.task = worker[w].task
  BY <1>2, <1>8 DEF Records
<1> HIDE DEF new
<1>11. /\ worker' \in [Workers -> Records] /\ worker'[w] = new
       /\ \A v \in Workers \ {w} : worker'[v] = worker[v]
  BY <1>2, <1>7, <1>10 DEF Types
<1>12. WorkerOK(w)' /\ \A e, c : Sends(w, e, c) => Sends(w, e, c)'
  <2>1. /\ worker'[w].fresh = worker[w].fresh /\ worker'[w].known = known
        /\ worker'[w].groups = worker[w].groups /\ worker'[w].task = worker[w].task
        /\ worker'[w].phase = worker[w].phase
    BY <1>10, <1>11
  <2>2. worker[w].phase \in {"submit", "save", "wait"} => worker[w].groups # << >>
    BY <1>2 DEF WorkerOK
  <2>3. worker[w].phase \in {"save", "wait"} =>
           /\ worker[w].task \in DOMAIN tasks
           /\ tasks[worker[w].task].docs = Head(worker[w].groups).docs
    BY <1>2 DEF WorkerOK
  <2> QED BY <1>1, <1>5, <1>6, <1>9, <2>1, <2>2, <2>3, LessInHand
<1>13. ASSUME NEW e \in EventIds, NEW c \in Cards, Last(e, c),
              event'[e].status = "succeeded"
       PROVE  event[e].status = "succeeded" \/ Said(c)
  <2>1. CASE event[e].status = "succeeded" BY <2>1
  <2>2. CASE e = f /\ tasks[uid].status = "succeeded"
    <3>1. Sends(w, e, c) BY <1>13 DEF Last
    <3>2. Current(tasks[uid].docs, c) BY <1>1, <1>3, <2>2, <3>1 DEF Sends
    <3> QED BY <2>2, <3>2 DEF Said
  <2> QED BY <1>5, <1>13, <2>1, <2>2
<1>14. \A e \in EventIds, c \in Cards : Last(e, c) => Sends(w, e, c)'
  BY <1>12 DEF Last
<1> QED BY <1>1, <1>5, <1>6, <1>11, <1>12, <1>13, <1>14, OneWorker

LEMMA ReadHolds ==
    ASSUME OutboxInv, NEW w \in Workers, ReadCards(w)
    PROVE  OutboxInv' /\ Quiet
<1> DEFINE cards == {event[e].card : e \in worker[w].fresh}
           of(S) == [events |-> {e \in worker[w].fresh : event[e].card \in S},
                     docs |-> Docs(S)]
           existing == {c \in cards : db[c] # NoDoc}
           groups == IF existing \in {{}, cards} THEN <<of(cards)>>
                     ELSE <<of(existing), of(cards \ existing)>>
           new == [Idle EXCEPT !.phase = "submit", !.groups = groups]
<1>1. /\ worker' = [worker EXCEPT ![w] = IF worker[w].fresh = {} THEN Idle ELSE new]
      /\ db' = db /\ event' = event /\ tasks' = tasks /\ index' = index
  BY DEF ReadCards, Goes
<1>2. Types /\ WorkerOK(w) /\ worker[w].fresh \subseteq EventIds
  BY RecordTypes DEF OutboxInv
<1>3. Steady /\ Grown /\ event' \in [EventIds -> Rows]
  BY <1>1, <1>2, TasksStay DEF Steady, Types
<1>4. ASSUME NEW S \in SUBSET cards
      PROVE  /\ of(S) \in Batches
             /\ \A e \in of(S).events : /\ event[e].status # "none"
                                        /\ event[e].card \in DOMAIN of(S).docs
             /\ \A c \in DOMAIN of(S).docs : of(S).docs[c] = db[c] /\ EventsOf(c) # {}
  <2>1. cards \subseteq Cards BY <1>2 DEF Types, Rows
  <2>2. Docs(S) \in [S -> Nat] /\ S \in SUBSET Cards
    BY <1>2, <2>1 DEF Docs, Types
  <2>3. Docs(S) \in Documents BY <2>2 DEF Documents
  <2>4. \A e \in worker[w].fresh : event[e].status # "none"
    BY <1>2 DEF WorkerOK, Written
  <2>5. ASSUME NEW c \in S PROVE EventsOf(c) # {}
    <3>1. PICK e \in worker[w].fresh : c = event[e].card OBVIOUS
    <3> QED BY <1>2, <2>4, <3>1 DEF EventsOf
  <2>6. of(S) \in Batches BY <1>2, <2>3 DEF Batches
  <2>7. DOMAIN Docs(S) = S /\ \A c \in S : Docs(S)[c] = db[c] BY DEF Docs
  <2> HIDE DEF cards
  <2> QED BY <2>4, <2>5, <2>6, <2>7
<1>5. /\ groups \in Seq(Batches) /\ groups # << >>
      /\ \A i \in DOMAIN groups : \E S \in SUBSET cards : groups[i] = of(S)
  <2>1. cards \in SUBSET cards /\ existing \in SUBSET cards /\ cards \ existing \in SUBSET cards
    OBVIOUS
  <2>2. of(cards) \in Batches /\ of(existing) \in Batches /\ of(cards \ existing) \in Batches
    BY <1>4, <2>1
  <2> HIDE DEF cards, of, existing
  <2>3. CASE existing \in {{}, cards} BY <2>1, <2>2, <2>3
  <2>4. CASE existing \notin {{}, cards}
    <3>1. groups = <<of(existing), of(cards \ existing)>> BY <2>4
    <3>2. DOMAIN groups = {1, 2} /\ groups[1] = of(existing) /\ groups[2] = of(cards \ existing)
      BY <3>1
    <3>3. groups \in Seq(Batches) /\ groups # << >> BY <2>2, <3>1
    <3> HIDE DEF groups
    <3> QED BY <2>1, <3>2, <3>3
  <2> QED BY <2>3, <2>4
<1>6. \A i \in DOMAIN groups :
         /\ \A e \in groups[i].events : /\ event[e].status # "none"
                                        /\ event[e].card \in DOMAIN groups[i].docs
         /\ \A c \in DOMAIN groups[i].docs : groups[i].docs[c] = db[c] /\ EventsOf(c) # {}
  <2> SUFFICES ASSUME NEW i \in DOMAIN groups
               PROVE  /\ \A e \in groups[i].events :
                            /\ event[e].status # "none"
                            /\ event[e].card \in DOMAIN groups[i].docs
                      /\ \A c \in DOMAIN groups[i].docs :
                            groups[i].docs[c] = db[c] /\ EventsOf(c) # {}
    OBVIOUS
  <2>1. PICK S \in SUBSET cards : groups[i] = of(S) BY <1>5
  <2> HIDE DEF cards, of, existing, groups, EventsOf
  <2> QED BY <1>4, <2>1
<1> HIDE DEF groups
<1>7. /\ new \in Records /\ new.groups = groups /\ new.phase = "submit"
      /\ DOMAIN new.known = {} /\ new.fresh = {}
  <2>1. Idle \in Records /\ DOMAIN Idle.known = {} /\ Idle.fresh = {}
    BY IdleTypes DEF Idle
  <2> HIDE DEF Idle
  <2>2. new \in Records BY <1>5, <2>1 DEF Records
  <2>3. /\ new.groups = groups /\ new.phase = "submit" /\ new.known = Idle.known
        /\ new.fresh = Idle.fresh
    BY <2>1 DEF Records
  <2> QED BY <2>1, <2>2, <2>3
<1> HIDE DEF new
<1>8. /\ worker' \in [Workers -> Records] /\ worker'[w] \in {Idle, new}
      /\ \A v \in Workers \ {w} : worker'[v] = worker[v]
  BY <1>1, <1>2, <1>7, IdleTypes DEF Types
<1>9. CASE worker'[w] = new
  <2>1. WorkerOK(w)'
    <3>1. \A c : EventsOf(c)' = EventsOf(c) BY <1>3, SteadySays
    <3>2. ASSUME NEW i \in DOMAIN groups
          PROVE  /\ SaidOnce(worker[w].groups[i].docs)'
                 /\ \A e \in groups[i].events : event'[e].status # "none"
      <4> HIDE DEF EventsOf
      <4> QED BY <1>1, <1>6, <1>7, <1>9, <3>1 DEF SaidOnce
    <3> HIDE DEF SaidOnce
    <3> QED BY <1>5, <1>7, <1>9, <3>2 DEF WorkerOK, Written
  <2>2. ASSUME NEW e \in EventIds, NEW c \in Cards, Last(e, c) PROVE Sends(w, e, c)'
    <3>1. event[e].card = c BY <2>2 DEF Last, EventsOf
    <3> QED BY <1>1, <1>6, <1>7, <1>9, <3>1 DEF Sends, Current
  <2> QED BY <1>1, <1>3, <1>8, <2>1, <2>2, OneWorker
<1>10. CASE worker'[w] = Idle BY <1>1, <1>3, <1>8, <1>10, IdleHolds, OneWorker
<1> QED BY <1>8, <1>9, <1>10

LEMMA Shortened ==
    ASSUME NEW S, NEW s \in Seq(S), s # << >>, Len(s) # 1
    PROVE  /\ Tail(s) \in Seq(S) /\ Tail(s) # << >>
           /\ DOMAIN s = 1 .. Len(s) /\ Len(s) \in Nat
           /\ DOMAIN Tail(s) = 1 .. Len(s) - 1
           /\ \A i \in 1 .. Len(s) - 1 : Tail(s)[i] = s[i + 1]
<1>0. Len(s) \in Nat /\ Len(s) >= 1 /\ DOMAIN s = 1 .. Len(s) OBVIOUS
<1>1. Len(s) \in Nat /\ Len(s) >= 2 /\ DOMAIN s = 1 .. Len(s) BY <1>0
<1>2. /\ Tail(s) \in Seq(S) /\ Len(Tail(s)) = Len(s) - 1
      /\ DOMAIN Tail(s) = 1 .. Len(s) - 1
      /\ \A i \in 1 .. Len(s) - 1 : Tail(s)[i] = s[i + 1]
  BY <1>1
<1>3. Tail(s) # << >>
  <2> DEFINE t == Tail(s)
  <2>1. t \in Seq(S) /\ Len(t) >= 1 BY <1>1, <1>2
  <2> HIDE DEF t
  <2>2. t # << >> BY <2>1
  <2> QED BY <2>2 DEF t
<1> QED BY <1>1, <1>2, <1>3

(* The next group, or none.                                                *)
LEMMA NextGroupHolds ==
    ASSUME OutboxInv, NEW w \in Workers, NextGroup(w), worker[w].groups # << >>,
           Steady, Grown
    PROVE  /\ worker' \in [Workers -> Records]
           /\ \A v \in Workers \ {w} : worker'[v] = worker[v]
           /\ WorkerOK(w)'
           /\ \A e, c : Sends(w, e, c) => Sends(w, e, c)'
<1>1. /\ Types /\ worker[w] \in Records /\ worker[w].groups \in Seq(Batches)
  BY RecordTypes DEF OutboxInv
<1>2. CASE Len(worker[w].groups) = 1
  <2>1. worker' = [worker EXCEPT ![w] = Idle] BY <1>2 DEF NextGroup, Goes
  <2>2. /\ worker' \in [Workers -> Records] /\ worker'[w] = Idle
        /\ \A v \in Workers \ {w} : worker'[v] = worker[v]
    BY <1>1, <2>1, IdleTypes DEF Types
  <2> QED BY <2>2, IdleHolds
<1>3. CASE Len(worker[w].groups) # 1
  <2> DEFINE groups == worker[w].groups
             new == [worker[w] EXCEPT !.phase = "submit", !.task = NoTask,
                                      !.groups = Tail(@)]
  <2>1. worker' = [worker EXCEPT ![w] = new] BY <1>3 DEF NextGroup, Goes
  <2>2. groups \in Seq(Batches) /\ groups # << >> /\ Len(groups) # 1 BY <1>1, <1>3
  <2> HIDE DEF groups
  <2>3. /\ Tail(groups) \in Seq(Batches) /\ Tail(groups) # << >>
        /\ DOMAIN groups = 1 .. Len(groups) /\ Len(groups) \in Nat
        /\ DOMAIN Tail(groups) = 1 .. Len(groups) - 1
        /\ \A i \in 1 .. Len(groups) - 1 : Tail(groups)[i] = groups[i + 1]
    BY <2>2, Shortened
  <2>4. \A i \in DOMAIN Tail(groups) : \E j \in DOMAIN groups : Tail(groups)[i] = groups[j]
    <3> SUFFICES ASSUME NEW i \in DOMAIN Tail(groups)
                 PROVE  \E j \in DOMAIN groups : Tail(groups)[i] = groups[j]
      OBVIOUS
    <3>1. i \in 1 .. Len(groups) - 1 /\ i + 1 \in DOMAIN groups BY <2>3
    <3> QED BY <2>3, <3>1
  <2>5. /\ new \in Records /\ new.phase = "submit" /\ new.groups = Tail(groups)
        /\ new.known = worker[w].known /\ new.fresh = worker[w].fresh
    BY <1>1, <2>3 DEF Records, groups
  <2> HIDE DEF new
  <2>6. /\ worker' \in [Workers -> Records] /\ worker'[w] = new
        /\ \A v \in Workers \ {w} : worker'[v] = worker[v]
    BY <1>1, <2>1, <2>5 DEF Types
  <2>7. /\ worker'[w].fresh = worker[w].fresh /\ worker'[w].known = worker[w].known
        /\ worker'[w].phase = "submit" /\ worker'[w].groups = Tail(groups)
    BY <2>5, <2>6
  <2>8. \A i \in DOMAIN worker'[w].groups :
           \E j \in DOMAIN worker[w].groups : worker'[w].groups[i] = worker[w].groups[j]
    BY <2>4, <2>7 DEF groups
  <2>9. WorkerOK(w)' /\ \A e, c : Sends(w, e, c) => Sends(w, e, c)'
    BY <2>3, <2>7, <2>8, LessInHand
  <2> QED BY <2>6, <2>9
<1> QED BY <1>2, <1>3

(* The first group of a worker that submits one.                           *)
LEMMA FirstGroup ==
    ASSUME OutboxInv, NEW w \in Workers, worker[w].phase \in {"submit", "save", "wait"}
    PROVE  /\ worker[w].groups # << >> /\ 1 \in DOMAIN worker[w].groups
           /\ Head(worker[w].groups) = worker[w].groups[1]
           /\ Head(worker[w].groups).events \subseteq EventIds
           /\ Head(worker[w].groups).docs \in Documents
           /\ SaidOnce(Head(worker[w].groups).docs)
           /\ \A e \in Head(worker[w].groups).events : Written(e)
           /\ \A e \in Head(worker[w].groups).events : \A c :
                 Sends(w, e, c) => Current(Head(worker[w].groups).docs, c)
<1>1. WorkerOK(w) /\ Types BY DEF OutboxInv
<1>2. worker[w].groups \in Seq(Batches) /\ worker[w].groups # << >>
  BY <1>1, RecordTypes DEF WorkerOK
<1>3. 1 \in DOMAIN worker[w].groups /\ Head(worker[w].groups) = worker[w].groups[1]
  BY <1>2
<1>4. /\ worker[w].groups[1].events \subseteq EventIds
      /\ worker[w].groups[1].docs \in Documents
  BY <1>1, <1>3, RecordTypes
<1> DEFINE group == Head(worker[w].groups)
<1>5. group = worker[w].groups[1] BY <1>3
<1> HIDE DEF group
<1>6. SaidOnce(group.docs) /\ \A e \in group.events : Written(e)
  <2>1. /\ \A c \in DOMAIN worker[w].groups[1].docs :
              /\ EventsOf(c) # {} \/ db[c] # NoDoc
              /\ \/ worker[w].groups[1].docs[c] = db[c]
                 \/ Newer(db[c], worker[w].groups[1].docs[c])
        /\ \A e \in worker[w].groups[1].events : Written(e)
    <3> HIDE DEF EventsOf, Written, Newer
    <3> QED BY <1>1, <1>3 DEF WorkerOK, SaidOnce
  <2> HIDE DEF EventsOf, Written, Newer
  <2> QED BY <1>5, <2>1 DEF SaidOnce
<1>7. \A e \in group.events : \A c : Sends(w, e, c) => Current(group.docs, c)
  <2> SUFFICES ASSUME NEW e \in group.events, NEW c, Sends(w, e, c)
               PROVE  Current(group.docs, c)
    OBVIOUS
  <2> QED BY <1>3, <1>5 DEF Sends, Current
<1> QED BY <1>2, <1>3, <1>4, <1>6, <1>7 DEF group

(* A task is accepted after the others.                                    *)
LEMMA AcceptedGrows ==
    ASSUME OutboxInv, NEW docs \in Documents, SaidOnce(docs), tasks' = Accepted(docs)
    PROVE  /\ Grown /\ Len(tasks') \in DOMAIN tasks' /\ Len(tasks') \in Nat
           /\ tasks'[Len(tasks')].docs = docs
<1> DEFINE task == [docs |-> docs, status |-> "enqueued", known |-> TRUE]
           n == Len(tasks)
<1>1. task \in Tasks /\ task.docs = docs /\ task.status = "enqueued" BY DEF Tasks
<1>2. tasks' = Append(tasks, task) /\ tasks \in Seq(Tasks)
  BY DEF Accepted, OutboxInv, Types
<1> HIDE DEF task
<1>3. /\ n \in Nat /\ DOMAIN tasks = 1 .. n
      /\ tasks' \in Seq(Tasks) /\ Len(tasks') = n + 1 /\ DOMAIN tasks' = 1 .. n + 1
      /\ \A u \in 1 .. n : tasks'[u] = tasks[u]
      /\ tasks'[n + 1] = task
  BY <1>1, <1>2
<1> HIDE DEF n
<1>4. \A u \in DOMAIN tasks : u \in DOMAIN tasks' /\ tasks'[u] = tasks[u] BY <1>3
<1>5. ASSUME NEW u \in DOMAIN tasks' \ DOMAIN tasks
      PROVE  tasks'[u].status = "enqueued" /\ SaidOnce(tasks'[u].docs)
  <2>1. u = n + 1 BY <1>3
  <2>2. tasks'[u].docs = docs BY <1>1, <1>3, <2>1
  <2> HIDE DEF EventsOf
  <2> QED BY <1>1, <1>3, <2>1, <2>2 DEF SaidOnce
<1>6. Grown BY <1>3, <1>4, <1>5 DEF Grown
<1>7. n + 1 \in 1 .. n + 1 /\ n + 1 \in Nat BY <1>3
<1> QED BY <1>1, <1>3, <1>6, <1>7

LEMMA SubmitHolds ==
    ASSUME OutboxInv, NEW w \in Workers, Submit(w)
    PROVE  OutboxInv' /\ Quiet
<1> DEFINE group == Head(worker[w].groups)
<1>1. worker[w].phase = "submit" /\ db' = db /\ index' = index BY DEF Submit
<1>2. Types /\ WorkerOK(w) /\ worker[w] \in Records BY RecordTypes DEF OutboxInv
<1>3. /\ worker[w].groups # << >> /\ group.events \in SUBSET EventIds
      /\ group.docs \in Documents /\ SaidOnce(group.docs)
      /\ \A e \in group.events : Written(e)
  BY <1>1, FirstGroup
<1>4. CASE /\ tasks' = Accepted(group.docs) /\ event' = event
           /\ Goes(w, [worker[w] EXCEPT !.phase = "save", !.task = Len(tasks')])
  <2>1. /\ Grown /\ Len(tasks') \in DOMAIN tasks' /\ Len(tasks') \in Nat
        /\ tasks'[Len(tasks')].docs = group.docs
    BY <1>3, <1>4, AcceptedGrows
  <2>2. PICK uid : uid = Len(tasks') OBVIOUS
  <2> DEFINE new == [worker[w] EXCEPT !.phase = "save", !.task = uid]
  <2>3. worker' = [worker EXCEPT ![w] = new] BY <1>4, <2>2 DEF Goes
  <2>4. /\ new \in Records /\ new.phase = "save" /\ new.task = uid
        /\ new.groups = worker[w].groups /\ new.known = worker[w].known
        /\ new.fresh = worker[w].fresh
    BY <1>2, <2>1, <2>2 DEF Records
  <2> HIDE DEF new
  <2>5. /\ worker' \in [Workers -> Records] /\ worker'[w] = new
        /\ \A v \in Workers \ {w} : worker'[v] = worker[v]
    BY <1>2, <2>3, <2>4 DEF Types
  <2>6. Steady /\ event' \in [EventIds -> Rows] BY <1>1, <1>2, <1>4 DEF Steady, Types
  <2>7. /\ worker'[w].task \in DOMAIN tasks' /\ worker'[w].groups = worker[w].groups
        /\ tasks'[worker'[w].task].docs = Head(worker'[w].groups).docs
        /\ worker'[w].known = worker[w].known /\ worker'[w].fresh = worker[w].fresh
    BY <2>1, <2>2, <2>4, <2>5
  <2>8. WorkerOK(w)' /\ \A e, c : Sends(w, e, c) => Sends(w, e, c)'
    BY <1>3, <2>1, <2>6, <2>7, LessInHand
  <2>9. \A e \in EventIds, c \in Cards : Last(e, c) => Sends(w, e, c)'
    BY <2>8 DEF Last
  <2>10. \A e \in EventIds : event'[e].task = event[e].task /\ event'[e].status = event[e].status
    BY <1>4
  <2> QED BY <1>1, <2>1, <2>5, <2>6, <2>8, <2>9, <2>10, OneWorker
<1>5. CASE /\ tasks' = tasks \/ tasks' = Accepted(group.docs)
           /\ Retry(group.events, FALSE) /\ NextGroup(w)
  <2>1. Grown BY <1>2, <1>3, <1>5, TasksStay, AcceptedGrows
  <2> HIDE DEF group
  <2>2. Marked(group.events, FALSE, "retry_wait") BY <1>3, <1>5, RetryMarks
  <2> HIDE DEF Marked, Written
  <2>3. /\ event' \in [EventIds -> Rows]
        /\ \A e \in EventIds :
              /\ event'[e].card = event[e].card
              /\ event'[e].status # "none" <=> event[e].status # "none"
              /\ event'[e].task \in {NoTask, event[e].task}
              /\ event'[e].status = "succeeded" => event[e].status = "succeeded"
    BY <1>3, <2>2, MarkTypes
  <2>4. Steady BY <1>1, <2>3 DEF Steady
  <2>5. /\ worker' \in [Workers -> Records]
        /\ \A v \in Workers \ {w} : worker'[v] = worker[v]
        /\ WorkerOK(w)'
        /\ \A e, c : Sends(w, e, c) => Sends(w, e, c)'
    BY <1>3, <1>5, <2>1, <2>4, NextGroupHolds
  <2>6. \A e \in EventIds, c \in Cards : Last(e, c) => Sends(w, e, c)'
    BY <2>5 DEF Last
  <2> QED BY <1>1, <2>1, <2>3, <2>4, <2>5, <2>6, OneWorker
<1> QED BY <1>4, <1>5 DEF Submit

LEMMA SaveHolds ==
    ASSUME OutboxInv, NEW w \in Workers, SaveTaskUid(w)
    PROVE  OutboxInv' /\ Quiet
<1> DEFINE group == Head(worker[w].groups)
<1>1. /\ worker[w].phase = "save" /\ db' = db /\ tasks' = tasks /\ index' = index
      /\ event' = [e \in EventIds |->
                     IF e \in group.events
                     THEN [event[e] EXCEPT !.task = worker[w].task]
                     ELSE event[e]]
      /\ worker' = [worker EXCEPT ![w] = [worker[w] EXCEPT !.phase = "wait"]]
  BY DEF SaveTaskUid, Goes
<1>2. Types /\ WorkerOK(w) /\ worker[w] \in Records BY RecordTypes DEF OutboxInv
<1>3. /\ worker[w].groups # << >> /\ group.events \in SUBSET EventIds
      /\ \A e \in group.events : Written(e)
      /\ \A e \in group.events : \A c : Sends(w, e, c) => Current(group.docs, c)
  BY <1>1, FirstGroup
<1>4. PICK uid \in DOMAIN tasks : uid = worker[w].task /\ tasks[uid].docs = group.docs
  BY <1>1, <1>2 DEF WorkerOK
<1>5. uid \in Nat BY <1>2, TaskTypes
<1> HIDE DEF group
<1>6. ASSUME NEW e \in EventIds
      PROVE  /\ event'[e] \in Rows /\ event'[e].card = event[e].card
             /\ event'[e].status = event[e].status
             /\ event'[e].task = IF e \in group.events THEN uid ELSE event[e].task
  <2>1. event[e] \in Rows BY <1>2 DEF Types
  <2>2. CASE e \notin group.events
    <3>1. event'[e] = event[e] BY <1>1, <2>2
    <3> QED BY <2>1, <2>2, <3>1
  <2>3. CASE e \in group.events
    <3> DEFINE row == [event[e] EXCEPT !.task = uid]
    <3>1. event'[e] = row BY <1>1, <1>4, <2>3
    <3>2. /\ row \in Rows /\ row.card = event[e].card /\ row.status = event[e].status
          /\ row.task = uid
      BY <1>5, <2>1 DEF Rows
    <3> HIDE DEF row
    <3> QED BY <2>3, <3>1, <3>2
  <2> QED BY <2>2, <2>3
<1>7. event' \in [EventIds -> Rows] BY <1>1, <1>6
<1>8. Steady /\ Grown BY <1>1, <1>2, <1>6, TasksStay DEF Steady
<1> DEFINE new == [worker[w] EXCEPT !.phase = "wait"]
<1>9. /\ new \in Records /\ new.phase = "wait" /\ new.task = uid
      /\ new.groups = worker[w].groups /\ new.known = worker[w].known
      /\ new.fresh = worker[w].fresh
  BY <1>2, <1>4 DEF Records
<1>10. worker' = [worker EXCEPT ![w] = new] BY <1>1
<1> HIDE DEF new
<1>11. /\ worker' \in [Workers -> Records] /\ worker'[w] = new
       /\ \A v \in Workers \ {w} : worker'[v] = worker[v]
  BY <1>2, <1>9, <1>10 DEF Types
<1>12. /\ worker'[w].task \in DOMAIN tasks' /\ worker'[w].groups = worker[w].groups
       /\ tasks'[worker'[w].task].docs = Head(worker'[w].groups).docs
       /\ worker'[w].known = worker[w].known /\ worker'[w].fresh = worker[w].fresh
  BY <1>1, <1>4, <1>9, <1>11 DEF group
<1>13. WorkerOK(w)' /\ \A e, c : Sends(w, e, c) => Sends(w, e, c)'
  BY <1>3, <1>8, <1>12, LessInHand
<1>14. \A e \in EventIds, c \in Cards : Last(e, c) => Sends(w, e, c)'
  BY <1>13 DEF Last
<1>15. ASSUME NEW e \in EventIds
       PROVE  \/ event'[e].task \in {NoTask, event[e].task}
              \/ /\ Written(e) /\ event'[e].task \in DOMAIN tasks
                 /\ \A c \in Cards :
                       Last(e, c) => \E u \in DOMAIN tasks :
                                        event'[e].task = u /\ Current(tasks[u].docs, c)
  <2>1. CASE e \notin group.events BY <1>6, <2>1
  <2>2. CASE e \in group.events
    <3>1. ASSUME NEW c \in Cards, Last(e, c) PROVE Current(tasks[uid].docs, c)
      <4>1. Sends(w, e, c) BY <3>1 DEF Last
      <4> QED BY <1>3, <1>4, <2>2, <4>1 DEF Current
    <3>2. event'[e].task = uid /\ Written(e) BY <1>3, <1>6, <2>2
    <3> QED BY <3>1, <3>2
  <2> QED BY <2>1, <2>2
<1>16. \A e \in EventIds : event'[e].status = event[e].status BY <1>6
<1> QED BY <1>1, <1>7, <1>8, <1>11, <1>13, <1>14, <1>15, <1>16, OneWorker

LEMMA WaitSubmittedHolds ==
    ASSUME OutboxInv, NEW w \in Workers, WaitSubmitted(w)
    PROVE  OutboxInv' /\ Quiet
<1> DEFINE group == Head(worker[w].groups)
<1>1. /\ worker[w].phase = "wait" /\ db' = db /\ tasks' = tasks /\ index' = index
      /\ WaitAndMark(worker[w].task, group.events) /\ NextGroup(w)
  BY DEF WaitSubmitted
<1>2. Types /\ WorkerOK(w) BY DEF OutboxInv
<1>3. /\ worker[w].groups # << >> /\ group.events \in SUBSET EventIds
      /\ \A e \in group.events : Written(e)
      /\ \A e \in group.events : \A c : Sends(w, e, c) => Current(group.docs, c)
  BY <1>1, FirstGroup
<1>4. PICK uid \in DOMAIN tasks : uid = worker[w].task /\ tasks[uid].docs = group.docs
  BY <1>1, <1>2 DEF WorkerOK
<1>5. PICK events \in SUBSET EventIds : events = group.events BY <1>3
<1>6. /\ event' \in [EventIds -> Rows] /\ Steady
      /\ \A e \in EventIds :
            /\ event'[e].task \in {NoTask, event[e].task}
            /\ event'[e].status = "succeeded" =>
                  \/ event[e].status = "succeeded"
                  \/ e \in events /\ tasks[uid].status = "succeeded"
  BY <1>1, <1>3, <1>4, <1>5, Answered
<1>7. Grown BY <1>1, <1>2, TasksStay
<1>8. /\ worker' \in [Workers -> Records]
      /\ \A v \in Workers \ {w} : worker'[v] = worker[v]
      /\ WorkerOK(w)'
      /\ \A e, c : Sends(w, e, c) => Sends(w, e, c)'
  BY <1>1, <1>3, <1>6, <1>7, NextGroupHolds
<1>9. \A e \in EventIds, c \in Cards : Last(e, c) => Sends(w, e, c)'
  BY <1>8 DEF Last
<1>10. ASSUME NEW e \in EventIds, NEW c \in Cards, Last(e, c),
              event'[e].status = "succeeded"
       PROVE  event[e].status = "succeeded" \/ Said(c)
  <2>1. CASE event[e].status = "succeeded" BY <2>1
  <2>2. CASE e \in events /\ tasks[uid].status = "succeeded"
    <3>1. Sends(w, e, c) BY <1>10 DEF Last
    <3>2. Current(tasks[uid].docs, c) BY <1>3, <1>4, <1>5, <2>2, <3>1 DEF Current
    <3> QED BY <2>2, <3>2 DEF Said
  <2> QED BY <1>6, <1>10, <2>1, <2>2
<1> HIDE DEF group
<1> QED BY <1>1, <1>6, <1>7, <1>8, <1>9, <1>10, OneWorker

-----------------------------------------------------------------------------
(* Meilisearch.                                                            *)

LEMMA PruneHolds ==
    ASSUME OutboxInv, NEW uid \in 1 .. Len(tasks), PruneTask(uid)
    PROVE  OutboxInv' /\ Quiet
<1>1. /\ tasks' = [tasks EXCEPT ![uid].known = FALSE] /\ db' = db /\ event' = event
      /\ worker' = worker /\ index' = index
  BY DEF PruneTask
<1>2. Types /\ DOMAIN tasks = 1 .. Len(tasks) /\ tasks \in Seq(Tasks)
  BY TaskTypes DEF OutboxInv, Types
<1> DEFINE task == [tasks[uid] EXCEPT !.known = FALSE]
<1>3. /\ task \in Tasks /\ task.docs = tasks[uid].docs
      /\ task.status = tasks[uid].status
  BY <1>2, TaskTypes DEF Tasks
<1>4. tasks' = [tasks EXCEPT ![uid] = task] BY <1>1
<1> HIDE DEF task
<1>5. /\ tasks' \in Seq(Tasks) /\ DOMAIN tasks' = DOMAIN tasks
      /\ \A u \in DOMAIN tasks : tasks'[u] = IF u = uid THEN task ELSE tasks[u]
  BY <1>2, <1>3, <1>4
<1>6. Grown BY <1>3, <1>5 DEF Grown
<1>7. Steady /\ event' \in [EventIds -> Rows] /\ worker' \in [Workers -> Records]
  BY <1>1, <1>2 DEF Steady, Types
<1> DEFINE S == {}
<1>8. /\ S \in SUBSET Workers /\ \A v \in Workers \ S : worker'[v] = worker[v]
      /\ \A v \in S : FALSE
  BY <1>1
<1>9. \A e \in EventIds : event'[e].task = event[e].task /\ event'[e].status = event[e].status
  BY <1>1
<1> HIDE DEF S
<1> QED BY <1>1, <1>6, <1>7, <1>8, <1>9, WorkerStepHolds

LEMMA RunHolds ==
    ASSUME OutboxInv, NEW uid \in 1 .. Len(tasks), RunTask(uid)
    PROVE  OutboxInv' /\ Quiet
<1>1. /\ tasks[uid].status = "enqueued" /\ db' = db /\ event' = event /\ worker' = worker
      /\ \A u \in 1 .. uid - 1 : tasks[u].status # "enqueued"
  BY DEF RunTask
<1>2. PICK to \in {"succeeded", "failed"} :
         /\ tasks' = [tasks EXCEPT ![uid].status = to]
         /\ \/ /\ to = "succeeded"
               /\ index' = [c \in Cards |-> IF c \in DOMAIN tasks[uid].docs
                                            THEN tasks[uid].docs[c] ELSE index[c]]
            \/ to = "failed" /\ index' = index
  BY DEF RunTask
<1>3. /\ Types /\ DOMAIN tasks = 1 .. Len(tasks) /\ Len(tasks) \in Nat
      /\ tasks \in Seq(Tasks) /\ uid \in DOMAIN tasks /\ tasks[uid] \in Tasks
  BY TaskTypes DEF OutboxInv, Types
<1> DEFINE task == [tasks[uid] EXCEPT !.status = to]
<1>4. task \in Tasks /\ task.docs = tasks[uid].docs /\ task.status = to
  BY <1>3 DEF Tasks
<1>5. tasks' = [tasks EXCEPT ![uid] = task] BY <1>2
<1> HIDE DEF task
<1>6. /\ tasks' \in Seq(Tasks) /\ DOMAIN tasks' = DOMAIN tasks
      /\ \A u \in DOMAIN tasks : /\ tasks'[u].docs = tasks[u].docs
                                 /\ u # uid => tasks'[u] = tasks[u]
      /\ tasks'[uid].status = to
  BY <1>3, <1>4, <1>5
<1>7. Types'
  <2>1. tasks[uid].docs \in Documents BY <1>3 DEF Tasks
  <2>2. \A c \in DOMAIN tasks[uid].docs : tasks[uid].docs[c] \in Nat
    BY <2>1 DEF Documents
  <2>3. index' \in [Cards -> Nat] BY <1>2, <1>3, <2>2 DEF Types
  <2> QED BY <1>1, <1>3, <1>6, <2>3 DEF Types
<1>8. Steady BY <1>1 DEF Steady
<1>9. ASSUME NEW w \in Workers
      PROVE  WorkerOK(w)' /\ \A e, c : Sends(w, e, c) => Sends(w, e, c)'
  <2>1. WorkerOK(w) BY DEF OutboxInv
  <2>2. WorkerOK(w)'
    <3>1. \A c : EventsOf(c)' = EventsOf(c) BY <1>8, SteadySays
    <3> HIDE DEF EventsOf
    <3>2. \A i \in DOMAIN worker[w].groups : SaidOnce(worker[w].groups[i].docs)'
      BY <1>1, <2>1, <3>1 DEF WorkerOK, SaidOnce, Newer
    <3> HIDE DEF SaidOnce
    <3> QED BY <1>1, <1>6, <2>1, <3>2 DEF WorkerOK, Written
  <2>3. ASSUME NEW e, NEW c, Sends(w, e, c) PROVE Sends(w, e, c)'
    <3>1. e \in DOMAIN worker[w].known => worker[w].known[e] \in DOMAIN tasks
      BY <2>1 DEF WorkerOK
    <3> QED BY <1>1, <1>6, <2>3, <3>1 DEF Sends, Current
  <2> QED BY <2>2, <2>3
<1>10. EventsOK' BY <1>1, <1>6 DEF OutboxInv, EventsOK, Written
<1>11. TasksOK'
  <2>1. TasksOK BY DEF OutboxInv
  <2>2. ASSUME NEW u \in DOMAIN tasks PROVE SaidOnce(tasks[u].docs)'
    <3>1. \A c : EventsOf(c)' = EventsOf(c) BY <1>8, SteadySays
    <3> HIDE DEF EventsOf
    <3> QED BY <1>1, <1>6, <2>1, <3>1 DEF TasksOK, SaidOnce, Newer
  <2>3. ASSUME NEW u \in DOMAIN tasks, NEW v \in DOMAIN tasks, u < v,
               tasks'[u].status = "enqueued"
        PROVE  tasks'[v].status = "enqueued"
    <3>1. u # uid /\ tasks[u].status = "enqueued" BY <1>2, <1>6, <2>3
    <3>2. v # uid
      <4>1. v = uid => u \in 1 .. uid - 1 BY <1>3, <2>3
      <4> QED BY <1>1, <3>1, <4>1
    <3> QED BY <1>6, <2>1, <2>3, <3>1, <3>2 DEF TasksOK
  <2> HIDE DEF SaidOnce
  <2> QED BY <1>6, <2>2, <2>3 DEF TasksOK
<1>12. Quiet
  <2> SUFFICES ASSUME NEW e \in EventIds, NEW c \in Cards, Last(e, c) PROVE Last(e, c)'
    BY <1>8 DEF Quiet
  <2>1. EventsOf(c)' = EventsOf(c) BY <1>8, SteadySays
  <2>2. e \in EventsOf(c)' BY <2>1 DEF Last
  <2>3. event[e].task # NoTask => event[e].task \in DOMAIN tasks
    BY DEF OutboxInv, EventsOK
  <2>4. event'[e].task # NoTask => Current(tasks[event[e].task].docs, c)'
    BY <1>1, <1>6, <2>3 DEF Last, Current
  <2>5. Said(c) => Said(c)'
    <3>1. \A u \in DOMAIN tasks :
             tasks[u].status = "succeeded" => tasks'[u].status = "succeeded"
      BY <1>1, <1>6
    <3> QED BY <1>1, <1>6, <3>1 DEF Said, Current
  <2>6. \A w \in Workers : Sends(w, e, c)' BY <1>9 DEF Last
  <2> QED BY <1>1, <2>2, <2>4, <2>5, <2>6 DEF Last
<1>13. ASSUME NEW c \in Cards PROVE LastOK(c)'
  <2>1. EventsOf(c)' = EventsOf(c) /\ EventsOf(c) \subseteq EventIds /\ LastOK(c)
    BY <1>8, SteadySays DEF OutboxInv, EventsOf
  <2> HIDE DEF EventsOf, Last
  <2> QED BY <1>12, <2>1 DEF LastOK, Quiet
<1>14. ASSUME NEW c \in Cards PROVE IndexOK(c)'
  <2>1. IndexOK(c) BY DEF OutboxInv
  <2>2. CASE to = "succeeded" /\ c \in DOMAIN tasks[uid].docs
    <3>1. Made(c)' = Made(c) \cup {uid}
      BY <1>3, <1>6, <2>2 DEF Made
    <3>2. ASSUME NEW u \in Made(c) PROVE u <= uid
      <4>1. u \in DOMAIN tasks /\ tasks[u].status # "enqueued" BY DEF Made
      <4>2. ~(uid < u) BY <1>1, <1>3, <4>1 DEF OutboxInv, TasksOK
      <4> QED BY <1>3, <4>1, <4>2
    <3>3. index'[c] = tasks'[uid].docs[c] BY <1>2, <1>3, <1>6, <2>2
    <3>4. \A u \in Made(c)' : u <= uid BY <1>3, <3>1, <3>2
    <3> HIDE DEF Made
    <3> QED BY <3>1, <3>3, <3>4 DEF IndexOK
  <2>3. CASE ~(to = "succeeded" /\ c \in DOMAIN tasks[uid].docs)
    <3>1. Made(c)' = Made(c) BY <1>1, <1>2, <1>6, <2>3 DEF Made
    <3>2. index'[c] = index[c] BY <1>2, <2>3
    <3>3. \A u \in Made(c) : tasks'[u].docs = tasks[u].docs BY <1>6 DEF Made
    <3> HIDE DEF Made
    <3> QED BY <2>1, <3>1, <3>2, <3>3 DEF IndexOK
  <2> QED BY <2>2, <2>3
<1> HIDE DEF Types, WorkerOK, EventsOK, TasksOK, LastOK, IndexOK
<1> QED BY <1>7, <1>9, <1>10, <1>11, <1>12, <1>13, <1>14 DEF OutboxInv

-----------------------------------------------------------------------------
(* The API.                                                                *)

(* A write of card by event f, which leaves version n of it.               *)
Writes(card, f, n) ==
    /\ Unused(card, f) /\ EnqueueCard(card, f) /\ db' = [db EXCEPT ![card] = n]
    /\ UNCHANGED <<worker, tasks, index>>
    /\ \/ EventsOf(card) = {} /\ db[card] = NoDoc
       \/ db[card] # NoDoc /\ (n = NoDoc \/ n > db[card])
    /\ n # db[card]

LEMMA WriteShape ==
    ASSUME OutboxInv, NEW card \in Cards, NEW f \in EventIds, NEW n \in Nat,
           Writes(card, f, n)
    PROVE  /\ \A e \in EventIds :
                 /\ event'[e] \in Rows /\ event'[e].card = event[e].card
                 /\ event'[e].task = event[e].task
                 /\ event'[e].status = IF e = f THEN "pending" ELSE event[e].status
           /\ event' \in [EventIds -> Rows] /\ ~Written(f)
           /\ EventsOf(card)' = EventsOf(card) \cup {f}
           /\ \A c : c # card => EventsOf(c)' = EventsOf(c)
           /\ db' \in [Cards -> Nat] /\ db'[card] = n /\ db[card] \in Nat
           /\ \A c \in Cards \ {card} : db'[c] = db[c]
           /\ worker' = worker /\ tasks' = tasks /\ index' = index
<1>1. /\ event' = [event EXCEPT ![f].status = "pending"]
      /\ event[f].status = "none" /\ event[f].card = card
      /\ worker' = worker /\ tasks' = tasks /\ index' = index /\ Types
      /\ db' = [db EXCEPT ![card] = n]
  BY DEF Writes, EnqueueCard, Unused, OutboxInv
<1>2. ASSUME NEW e \in EventIds
      PROVE  /\ event'[e] \in Rows /\ event'[e].card = event[e].card
             /\ event'[e].task = event[e].task
             /\ event'[e].status = IF e = f THEN "pending" ELSE event[e].status
  BY <1>1 DEF Types, Rows, Statuses
<1>3. event' \in [EventIds -> Rows] BY <1>1, <1>2 DEF Types
<1>4. /\ EventsOf(card)' = EventsOf(card) \cup {f}
      /\ \A c : c # card => EventsOf(c)' = EventsOf(c)
  BY <1>1, <1>2 DEF EventsOf
<1>5. /\ db'[card] = n /\ \A c \in Cards \ {card} : db'[c] = db[c]
      /\ db[card] \in Nat /\ db' \in [Cards -> Nat]
  BY <1>1 DEF Types
<1> QED BY <1>1, <1>2, <1>3, <1>4, <1>5 DEF Written

(* Documents that said what a card was still do after the next write.      *)
LEMMA WriteSaid ==
    ASSUME OutboxInv, NEW card \in Cards, NEW f \in EventIds, NEW n \in Nat,
           Writes(card, f, n), NEW docs \in Documents, SaidOnce(docs)
    PROVE  SaidOnce(docs)'
<1>1. /\ EventsOf(card)' = EventsOf(card) \cup {f}
      /\ \A c : c # card => EventsOf(c)' = EventsOf(c)
      /\ db'[card] = n /\ db[card] \in Nat
      /\ \A c \in Cards \ {card} : db'[c] = db[c]
  BY WriteShape
<1>2. /\ \/ EventsOf(card) = {} /\ db[card] = NoDoc
         \/ db[card] # NoDoc /\ (n = NoDoc \/ n > db[card])
  BY DEF Writes
<1> SUFFICES ASSUME NEW c \in DOMAIN docs
             PROVE  /\ EventsOf(c)' # {} \/ db'[c] # NoDoc
                    /\ docs[c] = db'[c] \/ Newer(db'[c], docs[c])
  BY DEF SaidOnce, Newer
<1>3. docs[c] \in Nat /\ c \in Cards BY DEF Documents
<1>4. /\ EventsOf(c) # {} \/ db[c] # NoDoc
      /\ docs[c] = db[c] \/ Newer(db[c], docs[c])
  BY DEF SaidOnce
<1> HIDE DEF EventsOf
<1>5. CASE c # card BY <1>1, <1>3, <1>4, <1>5
<1>6. CASE c = card
  <2>1. db[card] # NoDoc /\ (n = NoDoc \/ n > db[card]) BY <1>2, <1>4, <1>6
  <2>2. Newer(n, docs[c]) BY <1>1, <1>3, <1>4, <1>6, <2>1 DEF Newer, NoDoc
  <2>3. EventsOf(c)' # {} BY <1>1, <1>6
  <2> QED BY <1>1, <1>6, <2>2, <2>3
<1> QED BY <1>5, <1>6

(* The last events of the other cards stay theirs.                         *)
LEMMA WriteLast ==
    ASSUME OutboxInv, NEW card \in Cards, NEW f \in EventIds, NEW n \in Nat,
           Writes(card, f, n), NEW c \in Cards \ {card}, NEW e \in EventIds, Last(e, c)
    PROVE  Last(e, c)' /\ e # f
<1>1. /\ EventsOf(c)' = EventsOf(c) /\ db'[c] = db[c]
      /\ worker' = worker /\ tasks' = tasks
  BY WriteShape
<1>2. e \in EventsOf(c) /\ Written(e) BY DEF Last, EventsOf, Written
<1>3. /\ e # f /\ event'[e].task = event[e].task
      /\ event'[e].status = event[e].status
  BY <1>2, WriteShape
<1>4. \A w \in Workers : Sends(w, e, c)' BY <1>1 DEF Last, Sends, Current
<1>5. event[e].task # NoTask => Current(tasks[event[e].task].docs, c)'
  BY <1>1, <1>3 DEF Last, Current
<1>6. Said(c) => Said(c)' BY <1>1 DEF Said, Current
<1>7. e \in EventsOf(c)' BY <1>1, <1>2
<1> HIDE DEF EventsOf
<1> QED BY <1>3, <1>4, <1>5, <1>6, <1>7 DEF Last

(* Nothing is done yet about the event of the write.                       *)
LEMMA WriteNew ==
    ASSUME OutboxInv, NEW card \in Cards, NEW f \in EventIds, NEW n \in Nat,
           Writes(card, f, n)
    PROVE  /\ Last(f, card)'
           /\ event'[f].task = NoTask /\ event'[f].status = "pending"
           /\ \A w \in Workers :
                 /\ f \notin DOMAIN worker'[w].known
                 /\ \A i \in DOMAIN worker'[w].groups : f \notin worker'[w].groups[i].events
<1>1. worker' = worker /\ tasks' = tasks /\ ~Written(f) BY WriteShape
<1>2. event'[f].task = NoTask /\ event'[f].status = "pending"
  BY <1>1, WriteShape DEF OutboxInv, EventsOK
<1>3. ASSUME NEW w \in Workers
      PROVE  /\ f \notin DOMAIN worker'[w].known
             /\ \A i \in DOMAIN worker'[w].groups : f \notin worker'[w].groups[i].events
  <2>1. WorkerOK(w) BY DEF OutboxInv
  <2> HIDE DEF Written, SaidOnce
  <2> QED BY <1>1, <2>1 DEF WorkerOK
<1>4. \A w \in Workers : Sends(w, f, card)' BY <1>1, <1>3 DEF Sends
<1>5. f \in EventsOf(card)' BY WriteShape
<1> QED BY <1>2, <1>3, <1>4, <1>5 DEF Last

LEMMA WriteHolds ==
    ASSUME OutboxInv, NEW card \in Cards, NEW f \in EventIds, NEW n \in Nat,
           Writes(card, f, n)
    PROVE  OutboxInv'
<1>1. worker' = worker /\ tasks' = tasks /\ index' = index /\ Types
  BY WriteShape DEF OutboxInv
<1>2. \A e \in EventIds :
         /\ event'[e].task = event[e].task
         /\ event'[e].status = IF e = f THEN "pending" ELSE event[e].status
  BY WriteShape
<1>3. Types' BY <1>1, WriteShape DEF Types
<1>4. /\ f \in EventsOf(card)'
      /\ \A c \in Cards \ {card} : EventsOf(c)' = EventsOf(c)
  BY WriteShape
<1>5. ASSUME NEW docs \in Documents, SaidOnce(docs) PROVE SaidOnce(docs)'
  BY <1>5, WriteSaid
<1>6. \A e \in EventIds : Written(e) => Written(e)' BY <1>2 DEF Written
<1>7. ASSUME NEW w \in Workers PROVE WorkerOK(w)'
  <2>1. WorkerOK(w) BY DEF OutboxInv
  <2>2. ASSUME NEW i \in DOMAIN worker[w].groups
        PROVE  /\ SaidOnce(worker[w].groups[i].docs)'
               /\ \A e \in worker[w].groups[i].events : Written(e)'
    <3>1. PICK docs \in Documents : docs = worker[w].groups[i].docs
      BY <1>1, RecordTypes
    <3>2. SaidOnce(docs)
      <4> HIDE DEF EventsOf, Newer
      <4> QED BY <2>1, <3>1 DEF WorkerOK, SaidOnce
    <3>3. SaidOnce(docs)' BY <1>5, <3>2
    <3>4. SaidOnce(worker[w].groups[i].docs)'
      <4> HIDE DEF EventsOf, Newer
      <4> QED BY <1>1, <3>1, <3>3 DEF SaidOnce
    <3>5. \A e \in worker[w].groups[i].events : Written(e)'
      BY <1>1, <1>6, <2>1, RecordTypes DEF WorkerOK
    <3> QED BY <3>4, <3>5
  <2>3. \A e \in DOMAIN worker[w].known \cup worker[w].fresh : Written(e)'
    BY <1>1, <1>6, <2>1, RecordTypes DEF WorkerOK
  <2> HIDE DEF SaidOnce, Written
  <2> QED BY <1>1, <2>1, <2>2, <2>3 DEF WorkerOK
<1>8. EventsOK' BY <1>1, <1>2, <1>6 DEF OutboxInv, EventsOK
<1>9. TasksOK'
  <2>1. TasksOK BY DEF OutboxInv
  <2>2. ASSUME NEW u \in DOMAIN tasks PROVE SaidOnce(tasks[u].docs)'
    <3>1. PICK docs \in Documents : docs = tasks[u].docs BY <1>1, TaskTypes DEF Tasks
    <3>2. SaidOnce(docs)
      <4> HIDE DEF EventsOf, Newer
      <4> QED BY <2>1, <3>1 DEF TasksOK, SaidOnce
    <3>3. SaidOnce(docs)' BY <1>5, <3>2
    <3> HIDE DEF EventsOf, Newer
    <3> QED BY <1>1, <3>1, <3>3 DEF SaidOnce
  <2> HIDE DEF SaidOnce
  <2> QED BY <1>1, <2>1, <2>2 DEF TasksOK
<1>10. ASSUME NEW c \in Cards PROVE LastOK(c)'
  <2>1. CASE c # card
    <3>1. EventsOf(c)' = EventsOf(c) /\ LastOK(c) /\ EventsOf(c) \subseteq EventIds
      BY <1>4, <2>1 DEF OutboxInv, EventsOf
    <3>2. \A e \in EventIds : Last(e, c) => Last(e, c)' BY <2>1, WriteLast
    <3> HIDE DEF EventsOf, Last
    <3> QED BY <3>1, <3>2 DEF LastOK
  <2>2. CASE c = card
    <3>1. Last(f, card)' BY WriteNew
    <3> HIDE DEF EventsOf, Last
    <3> QED BY <1>4, <2>2, <3>1 DEF LastOK
  <2> QED BY <2>1, <2>2
<1>11. \A c \in Cards : IndexOK(c)'
  BY <1>1 DEF OutboxInv, IndexOK, Made
<1> HIDE DEF LastOK, IndexOK, Types, TasksOK, EventsOK, WorkerOK
<1> QED BY <1>3, <1>7, <1>8, <1>9, <1>10, <1>11 DEF OutboxInv

(* Create, update and remove are writes.                                   *)
LEMMA AllWrites ==
    ASSUME OutboxInv, NEW c \in Cards, NEW e \in EventIds, Write(c, e)
    PROVE  \E n \in Nat : Writes(c, e, n)
<1>1. db[c] \in Nat BY DEF OutboxInv, Types
<1>2. CASE Create(c, e)
  <2>1. Writes(c, e, 1) BY <1>2 DEF Create, Writes, NoDoc
  <2> QED BY <2>1
<1>3. CASE Update(c, e)
  <2>1. PICK n \in Nat : n = db[c] + 1 BY <1>1
  <2>2. db' = [db EXCEPT ![c] = n] /\ n > db[c] /\ n # db[c]
    BY <1>1, <1>3, <2>1 DEF Update
  <2>3. /\ Unused(c, e) /\ db[c] # NoDoc /\ EnqueueCard(c, e)
        /\ UNCHANGED <<worker, tasks, index>>
    BY <1>3 DEF Update
  <2>4. Writes(c, e, n) BY <2>2, <2>3 DEF Writes
  <2> QED BY <2>4
<1>4. CASE Remove(c, e)
  <2>1. Writes(c, e, NoDoc) BY <1>4 DEF Remove, Writes
  <2>2. NoDoc \in Nat BY DEF NoDoc
  <2> QED BY <2>1, <2>2
<1> QED BY <1>2, <1>3, <1>4 DEF Write

LEMMA WritesHold ==
    ASSUME OutboxInv, NEW c \in Cards, NEW e \in EventIds, Write(c, e)
    PROVE  OutboxInv'
  BY AllWrites, WriteHolds

-----------------------------------------------------------------------------
(* The invariant, and what follows from it.                                *)

(* Cards may start with a row, but with no event, document or task.        *)
LEMMA BeginningFrom ==
    ASSUME db \in [Cards -> Nat], index = [c \in Cards |-> NoDoc],
           event \in [EventIds -> {[status |-> "none", card |-> c, task |-> NoTask,
                                    leased |-> FALSE] : c \in Cards}],
           worker = [w \in Workers |-> Idle], tasks = << >>
    PROVE  OutboxInv
<1>1. \A e \in EventIds : /\ event[e] \in Rows /\ event[e].status = "none"
                          /\ event[e].task = NoTask
  <2> SUFFICES ASSUME NEW e \in EventIds
               PROVE  /\ event[e] \in Rows /\ event[e].status = "none"
                      /\ event[e].task = NoTask
    OBVIOUS
  <2>1. PICK c \in Cards : event[e] = [status |-> "none", card |-> c, task |-> NoTask,
                                       leased |-> FALSE]
    OBVIOUS
  <2> QED BY <2>1 DEF Rows, Statuses
<1>2. Types
  <2>1. event \in [EventIds -> Rows] BY <1>1
  <2>2. tasks \in Seq(Tasks) OBVIOUS
  <2> QED BY <2>1, <2>2, IdleTypes DEF Types, NoDoc
<1>3. \A w \in Workers : WorkerOK(w)
  <2> SUFFICES ASSUME NEW w \in Workers PROVE WorkerOK(w) OBVIOUS
  <2>1. /\ DOMAIN worker[w].known = {} /\ worker[w].fresh = {}
        /\ DOMAIN worker[w].groups = {} /\ worker[w].phase = "idle"
    BY DEF Idle
  <2> QED BY <2>1 DEF WorkerOK
<1>4. EventsOK BY <1>1 DEF EventsOK
<1>5. DOMAIN tasks = {} OBVIOUS
<1>6. TasksOK BY <1>5 DEF TasksOK
<1>7. \A c \in Cards : EventsOf(c) = {} BY <1>1 DEF EventsOf
<1>8. \A c \in Cards : LastOK(c) /\ IndexOK(c)
  <2>1. \A c : Made(c) = {} BY <1>5 DEF Made
  <2> QED BY <1>7, <2>1 DEF LastOK, IndexOK
<1> QED BY <1>2, <1>3, <1>4, <1>6, <1>8 DEF OutboxInv

LEMMA Beginning == Init => OutboxInv
<1> SUFFICES ASSUME Init PROVE OutboxInv OBVIOUS
<1>1. db \in [Cards -> Nat] BY DEF Init, NoDoc
<1> QED BY <1>1, BeginningFrom DEF Init

(* Every other step.                                                       *)
LEMMA StutterHolds ==
    ASSUME OutboxInv, UNCHANGED vars
    PROVE  OutboxInv' /\ Quiet
<1>1. /\ db' = db /\ event' = event /\ worker' = worker /\ tasks' = tasks
      /\ index' = index /\ Types
  BY DEF vars, OutboxInv
<1>2. Steady /\ Grown BY <1>1, TasksStay DEF Steady
<1>3. event' \in [EventIds -> Rows] /\ worker' \in [Workers -> Records]
  BY <1>1 DEF Types
<1> DEFINE S == {}
<1>4. /\ S \in SUBSET Workers /\ \A v \in Workers \ S : worker'[v] = worker[v]
      /\ \A v \in S : FALSE
  BY <1>1
<1>5. \A e \in EventIds : event'[e].task = event[e].task /\ event'[e].status = event[e].status
  BY <1>1
<1> HIDE DEF S
<1> QED BY <1>1, <1>2, <1>3, <1>4, <1>5, WorkerStepHolds

LEMMA OtherSteps ==
    ASSUME OutboxInv, [Next]_vars, ~\E c \in Cards, e \in EventIds : Write(c, e)
    PROVE  OutboxInv' /\ Quiet
<1>1. ASSUME NEW w \in Workers, WorkerStep(w) PROVE OutboxInv' /\ Quiet
  BY <1>1, ClaimHolds, WaitKnownHolds, ReadHolds, SubmitHolds, SaveHolds,
     WaitSubmittedHolds DEF WorkerStep
<1>2. ASSUME NEW w \in Workers, Abort(w) PROVE OutboxInv' /\ Quiet BY <1>2, AbortHolds
<1>3. ASSUME NEW e \in EventIds, LeaseEnds(e) PROVE OutboxInv' /\ Quiet
  BY <1>3, LeaseEndsHolds
<1>4. ASSUME NEW uid \in 1 .. Len(tasks), RunTask(uid) \/ PruneTask(uid)
      PROVE  OutboxInv' /\ Quiet
  BY <1>4, RunHolds, PruneHolds
<1>5. CASE UNCHANGED vars BY <1>5, StutterHolds
<1> QED BY <1>1, <1>2, <1>3, <1>4, <1>5 DEF Next

LEMMA EveryStep == OutboxInv /\ [Next]_vars => OutboxInv'
  BY WritesHold, OtherSteps

(* Cards start without a row in the outbox's own specification.            *)
NoEvents == \A c \in Cards : EventsOf(c) = {} => db[c] = NoDoc

LEMMA NoEventsStep == OutboxInv /\ NoEvents /\ [Next]_vars => NoEvents'
<1> SUFFICES ASSUME OutboxInv, NoEvents, [Next]_vars PROVE NoEvents' OBVIOUS
<1>1. ASSUME NEW card \in Cards, NEW f \in EventIds, Write(card, f) PROVE NoEvents'
  <2>1. PICK n \in Nat : Writes(card, f, n) BY <1>1, AllWrites
  <2>2. /\ f \in EventsOf(card)'
        /\ \A c \in Cards \ {card} : EventsOf(c)' = EventsOf(c) /\ db'[c] = db[c]
    BY <2>1, WriteShape
  <2> HIDE DEF EventsOf
  <2> QED BY <2>2 DEF NoEvents
<1>2. CASE ~\E c \in Cards, e \in EventIds : Write(c, e)
  <2>1. Steady BY <1>2, OtherSteps DEF Quiet
  <2>2. \A c : EventsOf(c)' = EventsOf(c) BY <2>1, SteadySays
  <2> HIDE DEF EventsOf
  <2> QED BY <2>1, <2>2 DEF NoEvents, Steady
<1> QED BY <1>1, <1>2

LEMMA Outbox == Spec => [](OutboxInv /\ NoEvents)
<1>1. Init => NoEvents BY DEF Init, NoEvents
<1> QED BY <1>1, Beginning, EveryStep, NoEventsStep, PTL DEF Spec

(* For every number of workers, cards and events, and any number of        *)
(* crashes, lost responses, failed tasks and leases that end too soon: a   *)
(* document that is not its card's row has an event that will be worked    *)
(* on, unless Meilisearch was sent the documents out of order.             *)
THEOREM StaleOnTheWay == Spec => []StaleHasEvent
<1>1. OutboxInv /\ NoEvents => StaleHasEvent
  <2> SUFFICES ASSUME OutboxInv, NoEvents, NEW c \in Cards, index[c] # db[c],
                      \A e \in EventsOf(c) : event[e].status \notin Unsettled
               PROVE  Overtaken(c)
    BY DEF StaleHasEvent
  <2>1. /\ Types /\ LastOK(c) /\ IndexOK(c) /\ TasksOK
        /\ DOMAIN tasks = 1 .. Len(tasks) /\ Len(tasks) \in Nat
    BY TaskTypes DEF OutboxInv
  <2>2. ASSUME NEW v \in Made(c)
        PROVE  /\ EventsOf(c) # {} \/ db[c] # NoDoc
               /\ v \in DOMAIN tasks /\ c \in DOMAIN tasks[v].docs
               /\ tasks[v].docs[c] = db[c] \/ Newer(db[c], tasks[v].docs[c])
    <3>1. v \in DOMAIN tasks /\ c \in DOMAIN tasks[v].docs BY DEF Made
    <3> HIDE DEF EventsOf, Newer
    <3> QED BY <2>1, <3>1 DEF TasksOK, SaidOnce
  <2>3. EventsOf(c) # {}
    <3> HIDE DEF EventsOf, Made
    <3> QED BY <2>1, <2>2 DEF NoEvents, IndexOK
  <2>4. PICK e \in EventsOf(c) : Last(e, c)
    <3> HIDE DEF EventsOf, Last
    <3> QED BY <2>1, <2>3 DEF LastOK
  <2>5. event[e].status = "succeeded"
    <3>1. e \in EventIds /\ event[e].status # "none" BY DEF EventsOf
    <3>2. event[e].status \in Statuses BY <2>1, <3>1 DEF Types, Rows
    <3> QED BY <3>1, <3>2 DEF Statuses, Unsettled
  <2>6. PICK u \in DOMAIN tasks : tasks[u].status = "succeeded" /\ Current(tasks[u].docs, c)
    BY <2>4, <2>5 DEF Last, Said
  <2>7. u \in Made(c) /\ tasks[u].docs[c] = db[c] BY <2>6 DEF Made, Current
  <2>8. PICK v \in Made(c) : index[c] = tasks[v].docs[c] /\ \A t \in Made(c) : t <= v
    <3> HIDE DEF Made
    <3> QED BY <2>1, <2>7 DEF IndexOK
  <2>9. u < v
    <3>1. u <= v /\ u # v BY <2>7, <2>8
    <3>2. u \in Nat /\ v \in Nat BY <2>1, <2>2, <2>6, <2>8
    <3> QED BY <3>1, <3>2
  <2>10. Newer(tasks[u].docs[c], tasks[v].docs[c])
    BY <2>2, <2>7, <2>8
  <2>11. ASSUME NEW t \in v + 1 .. Len(tasks), c \in DOMAIN tasks[t].docs
         PROVE  tasks[t].status # "succeeded"
    <3>1. v \in DOMAIN tasks BY <2>2, <2>8
    <3>2. t \in DOMAIN tasks /\ ~(t <= v) BY <2>1, <3>1
    <3> QED BY <2>8, <2>11, <3>2 DEF Made
  <2>12. c \in DOMAIN tasks[u].docs \cap DOMAIN tasks[v].docs /\ v \in DOMAIN tasks
    BY <2>2, <2>7, <2>8
  <2> QED BY <2>6, <2>9, <2>10, <2>11, <2>12 DEF Overtaken
<1> QED BY <1>1, Outbox, PTL

-----------------------------------------------------------------------------
(* The reindex command beside one worker.                                  *)
(*                                                                         *)
(* A card is covered once a page or an event has sent its row to a task    *)
(* that has succeeded, or that the command is about to see succeed, and    *)
(* nothing sent since says less. ReindexInv: every row the command has     *)
(* passed is covered, or will be by the event of its last write: by the    *)
(* task that carries the event, or by one after it. The event alone is not *)
(* enough, as its task may have succeeded before an older document that    *)
(* the worker had in hand was sent: a single worker, which finishes what   *)
(* it read before it reads again, is what excludes that (Caught).          *)

SingleWorker == \A v, w \in Workers : v = w

Walks == [phase : {"off", "read", "submit", "wait", "done"}, last : Nat,
          docs : Documents, task : Nat \cup {NoTask}]

Held(v) == {worker[v].groups[i] : i \in DOMAIN worker[v].groups}

(* A worker has read the card of the event since, or is about to wait.     *)
Seen(e) ==
    \/ event[e].task # NoTask
    \/ event[e].status = "succeeded"
    \/ \E v \in Workers : \/ e \in DOMAIN worker[v].known
                          \/ \E g \in Held(v) : e \in g.events

Caught(e, c) ==
    Seen(e) => \A v \in Workers : \A g \in Held(v) :
                  c \in DOMAIN g.docs => g.docs[c] = db[c]

(* Task t succeeds for event e: in its row, or in a worker's hands.        *)
Carries(e, t) ==
    \/ event[e].task = t
    \/ \E v \in Workers :
          \/ e \in DOMAIN worker[v].known /\ worker[v].known[e] = t
          \/ /\ worker[v].phase \in {"save", "wait"}
             /\ e \in Head(worker[v].groups).events
             /\ worker[v].task = t

(* Task s says what c is, and no later task says anything else.            *)
Settles(c, s) ==
    /\ Current(tasks[s].docs, c)
    /\ \A u \in DOMAIN tasks : u > s /\ c \in DOMAIN tasks[u].docs => tasks[u].docs[c] = db[c]

Done(s) == tasks[s].status = "succeeded" \/ (walk.phase = "wait" /\ s = walk.task)

Covered(c) == \E s \in DOMAIN tasks : Done(s) /\ Settles(c, s)

CoveredFrom(c, t) ==
    \E s \in DOMAIN tasks : s >= t /\ (s = t \/ Done(s)) /\ Settles(c, s)

(* Rows that the command has passed, and that were not written under it.   *)
Watched(c) ==
    /\ c \notin crossed /\ db[c] # NoDoc
    /\ \/ walk.phase = "done"
       \/ Walking /\ c <= walk.last
       \/ walk.phase = "wait" /\ c \in DOMAIN walk.docs

LastSeen(e, c) ==
    /\ Last(e, c) /\ Caught(e, c)
    /\ Watched(c) => /\ \A t \in DOMAIN tasks : Carries(e, t) => CoveredFrom(c, t)
                     /\ event[e].status = "succeeded" => Covered(c)

CardOK(c) ==
    /\ EventsOf(c) = {} => (Watched(c) => Covered(c))
    /\ EventsOf(c) # {} => \E e \in EventsOf(c) : LastSeen(e, c)

InHand == \A v \in Workers : \A g \in Held(v) : \A c \in DOMAIN g.docs : EventsOf(c) # {}

(* A page says what its rows are, but for rows written since; the rows     *)
(* that are not in it were passed, or are beyond it.                       *)
PageOK ==
    /\ SaidOnce(walk.docs)
    /\ \E m \in DOMAIN walk.docs : \A d \in DOMAIN walk.docs : d <= m
    /\ \A c \in Cards \ crossed :
          /\ c \in DOMAIN walk.docs => walk.docs[c] = db[c]
          /\ db[c] # NoDoc /\ c \notin DOMAIN walk.docs =>
                c <= walk.last \/ \A d \in DOMAIN walk.docs : d < c

WalkOK ==
    /\ walk \in Walks
    /\ walk.phase \in {"submit", "wait"} => PageOK
    /\ walk.phase = "wait" => walk.task \in DOMAIN tasks /\ tasks[walk.task].docs = walk.docs

ReindexInv == OutboxInv /\ InHand /\ WalkOK /\ \A c \in Cards : CardOK(c)

-----------------------------------------------------------------------------
(* What a step that writes no card does to events, groups and tasks.       *)

MoreTasks ==
    /\ \A u \in DOMAIN tasks :
          /\ u \in DOMAIN tasks' /\ tasks'[u].docs = tasks[u].docs
          /\ tasks[u].status = "succeeded" => tasks'[u].status = "succeeded"
    /\ \A u \in DOMAIN tasks' \ DOMAIN tasks : \A t \in DOMAIN tasks' : t <= u

(* New groups say what their cards are, new tasks what a group said.       *)
Shape ==
    /\ MoreTasks
    /\ \A u \in DOMAIN tasks' \ DOMAIN tasks :
          \E v \in Workers : \E g \in Held(v) : tasks'[u].docs = g.docs
    /\ \/ /\ \A v \in Workers : Held(v)' \subseteq Held(v)
          /\ \A e \in EventIds : Seen(e)' => Seen(e)
       \/ \A v \in Workers : \A g \in Held(v)' : \A c \in DOMAIN g.docs :
             g.docs[c] = db[c] /\ EventsOf(c) # {}
    /\ \A e \in EventIds : \A t \in DOMAIN tasks' : Carries(e, t)' =>
          \/ Carries(e, t)
          \/ /\ t \notin DOMAIN tasks
             /\ \A c \in Cards : Last(e, c) => Current(tasks'[t].docs, c)
    /\ \A e \in EventIds : event'[e].status = "succeeded" =>
          \/ event[e].status = "succeeded"
          \/ \E t \in DOMAIN tasks : Carries(e, t) /\ tasks[t].status = "succeeded"

LEMMA CarriesTask ==
    ASSUME OutboxInv, NEW e \in EventIds, NEW t, t # NoTask, Carries(e, t)
    PROVE  t \in DOMAIN tasks /\ Seen(e)
<1>1. CASE event[e].task = t BY <1>1 DEF Seen, OutboxInv, EventsOK
<1>2. CASE \E v \in Workers : e \in DOMAIN worker[v].known /\ worker[v].known[e] = t
  BY <1>2 DEF Seen, OutboxInv, WorkerOK
<1>3. ASSUME NEW v \in Workers, worker[v].phase \in {"save", "wait"},
             e \in Head(worker[v].groups).events, worker[v].task = t
      PROVE  t \in DOMAIN tasks /\ Seen(e)
  <2>1. t \in DOMAIN tasks BY <1>3 DEF OutboxInv, WorkerOK
  <2>2. Head(worker[v].groups) \in Held(v) BY <1>3, FirstGroup DEF Held
  <2> QED BY <1>3, <2>1, <2>2 DEF Seen
<1> QED BY <1>1, <1>2, <1>3 DEF Carries

(* What a worker may do but read cards.                                    *)
Moves(v) ==
    /\ \A e \in DOMAIN worker'[v].known :
          \/ e \in DOMAIN worker[v].known /\ worker'[v].known[e] = worker[v].known[e]
          \/ event[e].task # NoTask /\ worker'[v].known[e] = event[e].task
    /\ Held(v)' \subseteq Held(v)
    /\ worker'[v].phase \in {"save", "wait"} =>
          /\ Head(worker'[v].groups) = Head(worker[v].groups)
          /\ Head(worker[v].groups) \in Held(v)
          /\ \/ /\ worker[v].phase \in {"save", "wait"}
                /\ worker'[v].task = worker[v].task
             \/ /\ worker'[v].task \in DOMAIN tasks' \ DOMAIN tasks
                /\ tasks'[worker'[v].task].docs = Head(worker[v].groups).docs

LEMMA StillMoves ==
    ASSUME OutboxInv, NEW v \in Workers, worker'[v] = worker[v]
    PROVE  Moves(v)
<1>1. worker[v].phase \in {"save", "wait"} => Head(worker[v].groups) \in Held(v)
  BY FirstGroup DEF Held
<1>2. Held(v)' = Held(v) BY DEF Held
<1> QED BY <1>1, <1>2 DEF Moves

LEMMA IdleMoves ==
    ASSUME NEW v \in Workers, worker'[v] = Idle
    PROVE  Moves(v)
<1>1. /\ DOMAIN worker'[v].known = {} /\ worker'[v].phase = "idle"
      /\ DOMAIN worker'[v].groups = {}
  BY DEF Idle
<1>2. Held(v)' = {} BY <1>1 DEF Held
<1> QED BY <1>1, <1>2 DEF Moves

LEMMA NextGroupMoves ==
    ASSUME OutboxInv, NEW v \in Workers, NextGroup(v), worker[v].groups # << >>
    PROVE  Moves(v) /\ \A w \in Workers \ {v} : Moves(w)
<1>1. worker \in [Workers -> Records] /\ worker[v] \in Records
      /\ worker[v].groups \in Seq(Batches)
  BY RecordTypes DEF OutboxInv, Types
<1>2. \A w \in Workers \ {v} : worker'[w] = worker[w] BY <1>1 DEF NextGroup, Goes
<1>3. CASE Len(worker[v].groups) = 1
  <2>1. worker'[v] = Idle BY <1>1, <1>3 DEF NextGroup, Goes
  <2> QED BY <1>2, <2>1, IdleMoves, StillMoves
<1>4. CASE Len(worker[v].groups) # 1
  <2>1. PICK groups \in Seq(Batches) : groups = worker[v].groups BY <1>1
  <2>2. /\ worker'[v].known = worker[v].known /\ worker'[v].phase = "submit"
        /\ worker'[v].groups = Tail(groups)
    BY <1>1, <1>4, <2>1 DEF NextGroup, Goes, Records
  <2>3. /\ DOMAIN groups = 1 .. Len(groups) /\ Len(groups) \in Nat
        /\ DOMAIN Tail(groups) = 1 .. Len(groups) - 1
        /\ \A i \in 1 .. Len(groups) - 1 : Tail(groups)[i] = groups[i + 1]
    BY <1>4, <2>1, Shortened
  <2>4. ASSUME NEW i \in DOMAIN Tail(groups) PROVE Tail(groups)[i] \in Held(v)
    <3>1. i \in 1 .. Len(groups) - 1 /\ i + 1 \in DOMAIN groups BY <2>3
    <3> QED BY <2>1, <2>3, <3>1 DEF Held
  <2>5. Held(v)' \subseteq Held(v) BY <2>2, <2>4 DEF Held
  <2>6. Moves(v) BY <2>2, <2>5 DEF Moves
  <2> QED BY <1>2, <2>6, StillMoves
<1> QED BY <1>3, <1>4

LEMMA MovesShape ==
    ASSUME OutboxInv, MoreTasks, Types',
           \A u \in DOMAIN tasks' \ DOMAIN tasks :
              \E v \in Workers : \E g \in Held(v) : tasks'[u].docs = g.docs,
           \A v \in Workers : Moves(v),
           \A e \in EventIds : \/ event'[e].task \in {NoTask, event[e].task}
                               \/ event'[e].task # NoTask /\ Carries(e, event'[e].task),
           \A e \in EventIds : event'[e].status = "succeeded" =>
              \/ event[e].status = "succeeded"
              \/ \E t \in DOMAIN tasks : Carries(e, t) /\ tasks[t].status = "succeeded"
    PROVE  Shape
<1>1. NoTask \notin DOMAIN tasks' /\ NoTask \notin DOMAIN tasks
  BY OutboxAssumption DEF OutboxInv, Types
<1>2. ASSUME NEW e \in EventIds, Seen(e)' PROVE Seen(e)
  <2>1. CASE event'[e].task # NoTask BY <2>1, CarriesTask DEF Seen
  <2>2. CASE event'[e].status = "succeeded" BY <1>1, <2>2, CarriesTask DEF Seen
  <2>3. CASE \E v \in Workers : e \in DOMAIN worker'[v].known
    BY <2>3 DEF Moves, Seen
  <2>4. CASE \E v \in Workers : \E g \in Held(v)' : e \in g.events
    BY <2>4 DEF Moves, Seen
  <2> QED BY <1>2, <2>1, <2>2, <2>3, <2>4 DEF Seen
<1>3. ASSUME NEW e \in EventIds, NEW t \in DOMAIN tasks', Carries(e, t)'
      PROVE  \/ Carries(e, t)
             \/ /\ t \notin DOMAIN tasks
                /\ \A c \in Cards : Last(e, c) => Current(tasks'[t].docs, c)
  <2>1. CASE event'[e].task = t BY <1>1, <2>1 DEF Carries
  <2>2. CASE \E v \in Workers : e \in DOMAIN worker'[v].known /\ worker'[v].known[e] = t
    BY <2>2 DEF Moves, Carries
  <2>3. ASSUME NEW v \in Workers, worker'[v].phase \in {"save", "wait"},
               e \in Head(worker'[v].groups).events, worker'[v].task = t
        PROVE  \/ Carries(e, t)
               \/ /\ t \notin DOMAIN tasks
                  /\ \A c \in Cards : Last(e, c) => Current(tasks'[t].docs, c)
    <3>1. /\ Head(worker'[v].groups) = Head(worker[v].groups)
          /\ Head(worker[v].groups) \in Held(v)
          /\ \/ /\ worker[v].phase \in {"save", "wait"}
                /\ worker'[v].task = worker[v].task
             \/ /\ worker'[v].task \in DOMAIN tasks' \ DOMAIN tasks
                /\ tasks'[worker'[v].task].docs = Head(worker[v].groups).docs
      BY <2>3 DEF Moves
    <3>2. CASE worker[v].phase \in {"save", "wait"} /\ worker'[v].task = worker[v].task
      BY <2>3, <3>1, <3>2 DEF Carries
    <3>3. CASE /\ worker'[v].task \in DOMAIN tasks' \ DOMAIN tasks
               /\ tasks'[worker'[v].task].docs = Head(worker[v].groups).docs
      <4>1. ASSUME NEW c \in Cards, Last(e, c) PROVE Current(tasks'[t].docs, c)
        <5>1. Sends(v, e, c) BY <4>1 DEF Last
        <5>2. PICK i \in DOMAIN worker[v].groups :
                 worker[v].groups[i] = Head(worker[v].groups)
          BY <3>1 DEF Held
        <5>3. Current(worker[v].groups[i].docs, c) BY <2>3, <3>1, <5>1, <5>2 DEF Sends
        <5> QED BY <2>3, <3>3, <5>2, <5>3 DEF Current
      <4> QED BY <2>3, <3>3, <4>1
    <3> QED BY <3>1, <3>2, <3>3
  <2> QED BY <1>3, <2>1, <2>2, <2>3 DEF Carries
<1>4. \A v \in Workers : Held(v)' \subseteq Held(v) BY DEF Moves
<1> QED BY <1>2, <1>3, <1>4 DEF Shape

LEMMA AcceptedMore ==
    ASSUME OutboxInv, NEW docs \in Documents, tasks' = Accepted(docs)
    PROVE  /\ MoreTasks /\ Len(tasks') \in DOMAIN tasks' \ DOMAIN tasks
           /\ Len(tasks') \in Nat
           /\ \A u \in DOMAIN tasks' \ DOMAIN tasks :
                 u = Len(tasks') /\ tasks'[u].docs = docs
           /\ \A u \in DOMAIN tasks : tasks'[u] = tasks[u]
<1> DEFINE task == [docs |-> docs, status |-> "enqueued", known |-> TRUE]
           n == Len(tasks)
<1>1. task \in Tasks /\ task.docs = docs BY DEF Tasks
<1>2. tasks' = Append(tasks, task) /\ tasks \in Seq(Tasks)
  BY DEF Accepted, OutboxInv, Types
<1> HIDE DEF task
<1>3. /\ n \in Nat /\ DOMAIN tasks = 1 .. n
      /\ tasks' \in Seq(Tasks) /\ Len(tasks') = n + 1 /\ DOMAIN tasks' = 1 .. n + 1
      /\ \A u \in 1 .. n : tasks'[u] = tasks[u]
      /\ tasks'[n + 1] = task
  BY <1>1, <1>2
<1> HIDE DEF n
<1>4. \A u \in DOMAIN tasks' \ DOMAIN tasks : u = n + 1 BY <1>3
<1>5. n + 1 \in DOMAIN tasks' \ DOMAIN tasks /\ n + 1 \in Nat BY <1>3
<1>6. MoreTasks BY <1>3, <1>4 DEF MoreTasks
<1> QED BY <1>1, <1>3, <1>4, <1>5, <1>6

LEMMA SameTasks ==
    ASSUME OutboxInv, tasks' = tasks
    PROVE  MoreTasks /\ DOMAIN tasks' \ DOMAIN tasks = {}
  BY DEF MoreTasks

LEMMA AbortShape ==
    ASSUME OutboxInv, Types', NEW w \in Workers, Abort(w)
    PROVE  Shape
<1>1. /\ worker' = [worker EXCEPT ![w] = Idle] /\ event' = event /\ tasks' = tasks
      /\ worker \in [Workers -> Records]
  BY DEF Abort, Goes, OutboxInv, Types
<1>2. \A v \in Workers : Moves(v) BY <1>1, IdleMoves, StillMoves
<1> QED BY <1>1, <1>2, SameTasks, MovesShape

LEMMA LeaseEndsShape ==
    ASSUME OutboxInv, Types', NEW f \in EventIds, LeaseEnds(f)
    PROVE  Shape
<1>1. /\ event' = [event EXCEPT ![f].leased = FALSE]
      /\ worker' = worker /\ tasks' = tasks /\ Types
  BY DEF LeaseEnds, OutboxInv
<1>2. \A e \in EventIds : /\ event'[e].status = event[e].status
                          /\ event'[e].task = event[e].task
  BY <1>1 DEF Types, Rows
<1>3. \A v \in Workers : Moves(v) BY <1>1, StillMoves
<1> QED BY <1>1, <1>2, <1>3, SameTasks, MovesShape

LEMMA StutterShape ==
    ASSUME OutboxInv, Types', UNCHANGED vars
    PROVE  Shape
<1>1. event' = event /\ worker' = worker /\ tasks' = tasks BY DEF vars
<1>2. \A v \in Workers : Moves(v) BY <1>1, StillMoves
<1> QED BY <1>1, <1>2, SameTasks, MovesShape

LEMMA ServerShape ==
    ASSUME OutboxInv, Types', NEW uid \in 1 .. Len(tasks), RunTask(uid) \/ PruneTask(uid)
    PROVE  Shape
<1>1. event' = event /\ worker' = worker BY DEF RunTask, PruneTask
<1>2. /\ tasks \in Seq(Tasks) /\ uid \in DOMAIN tasks /\ tasks[uid] \in Tasks
  BY TaskTypes DEF OutboxInv, Types
<1>3. \E task \in Tasks : /\ tasks' = [tasks EXCEPT ![uid] = task]
                          /\ task.docs = tasks[uid].docs
                          /\ tasks[uid].status = "succeeded" => task.status = "succeeded"
  <2>1. CASE PruneTask(uid)
    <3> DEFINE task == [tasks[uid] EXCEPT !.known = FALSE]
    <3>1. tasks' = [tasks EXCEPT ![uid] = task] BY <2>1 DEF PruneTask
    <3>2. task \in Tasks /\ task.docs = tasks[uid].docs /\ task.status = tasks[uid].status
      BY <1>2 DEF Tasks
    <3> HIDE DEF task
    <3> QED BY <3>1, <3>2
  <2>2. CASE RunTask(uid)
    <3>1. PICK to \in {"succeeded", "failed"} : tasks' = [tasks EXCEPT ![uid].status = to]
      BY <2>2 DEF RunTask
    <3>2. tasks[uid].status = "enqueued" BY <2>2 DEF RunTask
    <3> DEFINE task == [tasks[uid] EXCEPT !.status = to]
    <3>3. tasks' = [tasks EXCEPT ![uid] = task] BY <3>1
    <3>4. task \in Tasks /\ task.docs = tasks[uid].docs BY <1>2 DEF Tasks
    <3> HIDE DEF task
    <3> QED BY <3>2, <3>3, <3>4
  <2> QED BY <2>1, <2>2
<1>4. MoreTasks /\ DOMAIN tasks' \ DOMAIN tasks = {}
  BY <1>2, <1>3 DEF MoreTasks
<1>5. \A v \in Workers : Moves(v) BY <1>1, StillMoves
<1> QED BY <1>1, <1>4, <1>5, MovesShape

LEMMA ClaimShape ==
    ASSUME OutboxInv, Types', NEW w \in Workers, ClaimEvents(w)
    PROVE  Shape
<1>1. PICK batch \in SUBSET Eligible :
         /\ event' = [e \in EventIds |->
                        IF e \in batch
                        THEN [event[e] EXCEPT !.status = "running", !.leased = TRUE]
                        ELSE event[e]]
         /\ LET fresh == {e \in batch : event[e].task = NoTask} IN
            Goes(w, [Idle EXCEPT !.phase = "known", !.fresh = fresh,
                                 !.known = [e \in batch \ fresh |-> event[e].task]])
  BY DEF ClaimEvents
<1>2. tasks' = tasks /\ Types BY DEF ClaimEvents, OutboxInv
<1> DEFINE fresh == {e \in batch : event[e].task = NoTask}
           known == [e \in batch \ fresh |-> event[e].task]
           new == [Idle EXCEPT !.phase = "known", !.fresh = fresh, !.known = known]
<1>3. worker' = [worker EXCEPT ![w] = new] BY <1>1 DEF Goes
<1>4. /\ DOMAIN known = batch \ fresh
      /\ \A e \in DOMAIN known : event[e].task # NoTask /\ known[e] = event[e].task
  OBVIOUS
<1> HIDE DEF known, fresh
<1>5. new.known = known /\ DOMAIN new.groups = {} /\ new.phase = "known"
  BY DEF Idle
<1> HIDE DEF new
<1>6. worker'[w] = new /\ \A v \in Workers \ {w} : worker'[v] = worker[v]
  BY <1>2, <1>3 DEF Types
<1>7. Held(w)' = {} BY <1>5, <1>6 DEF Held
<1>8. Moves(w) BY <1>4, <1>5, <1>6, <1>7 DEF Moves
<1>9. \A v \in Workers : Moves(v) BY <1>6, <1>8, StillMoves
<1>10. ASSUME NEW e \in EventIds
       PROVE  /\ event'[e].task = event[e].task
              /\ event'[e].status = "succeeded" => event[e].status = "succeeded"
  <2>1. event[e] \in Rows BY <1>2 DEF Types
  <2> QED BY <1>1, <2>1 DEF Rows
<1> QED BY <1>2, <1>9, <1>10, SameTasks, MovesShape

LEMMA WaitKnownShape ==
    ASSUME OutboxInv, Types', NEW w \in Workers, NEW f \in EventIds, WaitKnown(w, f)
    PROVE  Shape
<1>1. /\ f \in DOMAIN worker[w].known /\ WaitAndMark(worker[w].known[f], {f})
      /\ worker[w].phase = "known"
      /\ worker' = [worker EXCEPT ![w].known = [e \in DOMAIN @ \ {f} |-> @[e]]]
      /\ db' = db /\ tasks' = tasks
  BY DEF WaitKnown
<1>2. Types /\ WorkerOK(w) /\ worker[w] \in Records BY RecordTypes DEF OutboxInv
<1>3. PICK uid \in DOMAIN tasks : uid = worker[w].known[f] BY <1>1, <1>2 DEF WorkerOK
<1>4. Written(f) BY <1>1, <1>2 DEF WorkerOK
<1>5. \A e \in EventIds :
         /\ event'[e].task \in {NoTask, event[e].task}
         /\ event'[e].status = "succeeded" =>
               \/ event[e].status = "succeeded"
               \/ e \in {f} /\ tasks[uid].status = "succeeded"
  BY <1>1, <1>3, <1>4, Answered
<1> DEFINE known == [e \in DOMAIN worker[w].known \ {f} |-> worker[w].known[e]]
           new == [worker[w] EXCEPT !.known = known]
<1>6. worker' = [worker EXCEPT ![w] = new] BY <1>1, <1>2 DEF Types
<1>7. /\ DOMAIN known \subseteq DOMAIN worker[w].known
      /\ \A e \in DOMAIN known : known[e] = worker[w].known[e]
  OBVIOUS
<1> HIDE DEF known
<1>8. new.known = known /\ new.groups = worker[w].groups /\ new.phase = "known"
  BY <1>1, <1>2 DEF Records
<1> HIDE DEF new
<1>9. worker'[w] = new /\ \A v \in Workers \ {w} : worker'[v] = worker[v]
  BY <1>2, <1>6 DEF Types
<1>10. Held(w)' = Held(w) BY <1>8, <1>9 DEF Held
<1>11. Moves(w) BY <1>7, <1>8, <1>9, <1>10 DEF Moves
<1>12. \A v \in Workers : Moves(v) BY <1>9, <1>11, StillMoves
<1>13. Carries(f, uid) BY <1>1, <1>3 DEF Carries
<1> QED BY <1>1, <1>5, <1>12, <1>13, SameTasks, MovesShape

LEMMA SubmitShape ==
    ASSUME OutboxInv, Types', NEW w \in Workers, Submit(w)
    PROVE  Shape
<1> DEFINE group == Head(worker[w].groups)
<1>1. worker[w].phase = "submit" BY DEF Submit
<1>2. Types /\ WorkerOK(w) /\ worker[w] \in Records BY RecordTypes DEF OutboxInv
<1>3. /\ worker[w].groups # << >> /\ group.events \in SUBSET EventIds
      /\ group \in Held(w) /\ group.docs \in Documents /\ SaidOnce(group.docs)
      /\ \A e \in group.events : Written(e)
  BY <1>1, FirstGroup DEF Held
<1>4. ASSUME tasks' = tasks \/ tasks' = Accepted(group.docs)
      PROVE  /\ MoreTasks
             /\ \A u \in DOMAIN tasks' \ DOMAIN tasks : tasks'[u].docs = group.docs
  <2>1. CASE tasks' = tasks BY <2>1, SameTasks
  <2>2. CASE tasks' = Accepted(group.docs)
    BY <1>3, <2>2, AcceptedMore
  <2> QED BY <1>4, <2>1, <2>2
<1>5. CASE /\ tasks' = Accepted(group.docs) /\ event' = event
           /\ Goes(w, [worker[w] EXCEPT !.phase = "save", !.task = Len(tasks')])
  <2>1. /\ Len(tasks') \in DOMAIN tasks' \ DOMAIN tasks
        /\ tasks'[Len(tasks')].docs = group.docs
    BY <1>3, <1>5, AcceptedMore
  <2>2. PICK uid : uid = Len(tasks') OBVIOUS
  <2> DEFINE new == [worker[w] EXCEPT !.phase = "save", !.task = uid]
  <2>3. worker' = [worker EXCEPT ![w] = new] BY <1>5, <2>2 DEF Goes
  <2>4. /\ new.phase = "save" /\ new.task = uid
        /\ new.groups = worker[w].groups /\ new.known = worker[w].known
    BY <1>2 DEF Records
  <2> HIDE DEF new
  <2>5. worker'[w] = new /\ \A v \in Workers \ {w} : worker'[v] = worker[v]
    BY <1>2, <2>3 DEF Types
  <2>6. Held(w)' = Held(w) BY <2>4, <2>5 DEF Held
  <2>7. Moves(w) BY <1>3, <2>1, <2>2, <2>4, <2>5, <2>6 DEF Moves
  <2>8. \A v \in Workers : Moves(v) BY <2>5, <2>7, StillMoves
  <2> HIDE DEF group
  <2> QED BY <1>3, <1>4, <1>5, <2>8, MovesShape
<1>6. CASE /\ tasks' = tasks \/ tasks' = Accepted(group.docs)
           /\ Retry(group.events, FALSE) /\ NextGroup(w)
  <2> HIDE DEF group
  <2>1. Marked(group.events, FALSE, "retry_wait") BY <1>3, <1>6, RetryMarks
  <2> HIDE DEF Marked, Written
  <2>2. \A e \in EventIds :
           /\ event'[e].task \in {NoTask, event[e].task}
           /\ event'[e].status = "succeeded" => event[e].status = "succeeded"
    BY <1>3, <2>1, MarkTypes
  <2>3. \A v \in Workers : Moves(v) BY <1>3, <1>6, NextGroupMoves
  <2> QED BY <1>3, <1>4, <1>6, <2>2, <2>3, MovesShape
<1> QED BY <1>5, <1>6 DEF Submit

LEMMA SaveShape ==
    ASSUME OutboxInv, Types', NEW w \in Workers, SaveTaskUid(w)
    PROVE  Shape
<1> DEFINE group == Head(worker[w].groups)
<1>1. /\ worker[w].phase = "save" /\ tasks' = tasks
      /\ event' = [e \in EventIds |->
                     IF e \in group.events
                     THEN [event[e] EXCEPT !.task = worker[w].task]
                     ELSE event[e]]
      /\ worker' = [worker EXCEPT ![w] = [worker[w] EXCEPT !.phase = "wait"]]
  BY DEF SaveTaskUid, Goes
<1>2. Types /\ WorkerOK(w) /\ worker[w] \in Records BY RecordTypes DEF OutboxInv
<1>3. group \in Held(w) BY <1>1, FirstGroup DEF Held
<1>4. worker[w].task \in DOMAIN tasks /\ NoTask \notin DOMAIN tasks
  BY <1>1, <1>2, OutboxAssumption DEF WorkerOK, Types
<1>5. ASSUME NEW e \in EventIds
      PROVE  /\ event'[e].status = event[e].status
             /\ \/ event'[e].task = event[e].task
                \/ event'[e].task # NoTask /\ Carries(e, event'[e].task)
  <2>1. event[e] \in Rows BY <1>2 DEF Types
  <2>2. CASE e \notin group.events BY <1>1, <2>2
  <2>3. CASE e \in group.events
    <3>1. event'[e].task = worker[w].task /\ event'[e].status = event[e].status
      BY <1>1, <2>1, <2>3 DEF Rows
    <3>2. Carries(e, worker[w].task) BY <1>1, <2>3 DEF Carries
    <3> QED BY <1>4, <3>1, <3>2
  <2> QED BY <2>2, <2>3
<1>6. /\ worker'[w].phase = "wait" /\ worker'[w].task = worker[w].task
      /\ worker'[w].groups = worker[w].groups /\ worker'[w].known = worker[w].known
      /\ \A v \in Workers \ {w} : worker'[v] = worker[v]
  BY <1>1, <1>2 DEF Types, Records
<1>7. Held(w)' = Held(w) BY <1>6 DEF Held
<1>8. Moves(w) BY <1>1, <1>3, <1>6, <1>7 DEF Moves
<1>9. \A v \in Workers : Moves(v) BY <1>6, <1>8, StillMoves
<1> HIDE DEF group
<1> QED BY <1>1, <1>5, <1>9, SameTasks, MovesShape

LEMMA WaitSubmittedShape ==
    ASSUME OutboxInv, Types', NEW w \in Workers, WaitSubmitted(w)
    PROVE  Shape
<1> DEFINE group == Head(worker[w].groups)
<1>1. /\ worker[w].phase = "wait" /\ db' = db /\ tasks' = tasks
      /\ WaitAndMark(worker[w].task, group.events) /\ NextGroup(w)
  BY DEF WaitSubmitted
<1>2. WorkerOK(w) BY DEF OutboxInv
<1>3. /\ worker[w].groups # << >> /\ group.events \in SUBSET EventIds
      /\ \A e \in group.events : Written(e)
  BY <1>1, FirstGroup
<1>4. PICK uid \in DOMAIN tasks : uid = worker[w].task BY <1>1, <1>2 DEF WorkerOK
<1>5. PICK events \in SUBSET EventIds : events = group.events BY <1>3
<1>6. \A e \in EventIds :
         /\ event'[e].task \in {NoTask, event[e].task}
         /\ event'[e].status = "succeeded" =>
               \/ event[e].status = "succeeded"
               \/ e \in events /\ tasks[uid].status = "succeeded"
  BY <1>1, <1>3, <1>4, <1>5, Answered
<1>7. \A e \in events : Carries(e, uid) BY <1>1, <1>4, <1>5 DEF Carries
<1>8. \A v \in Workers : Moves(v) BY <1>1, <1>3, NextGroupMoves
<1> HIDE DEF group
<1> QED BY <1>1, <1>6, <1>7, <1>8, SameTasks, MovesShape

(* The worker reads cards with nothing else in hand.                       *)
LEMMA ReadShape ==
    ASSUME OutboxInv, Types', SingleWorker, NEW w \in Workers, ReadCards(w)
    PROVE  Shape
<1> DEFINE cards == {event[e].card : e \in worker[w].fresh}
           of(S) == [events |-> {e \in worker[w].fresh : event[e].card \in S},
                     docs |-> Docs(S)]
           existing == {c \in cards : db[c] # NoDoc}
           groups == IF existing \in {{}, cards} THEN <<of(cards)>>
                     ELSE <<of(existing), of(cards \ existing)>>
           new == [Idle EXCEPT !.phase = "submit", !.groups = groups]
<1>1. /\ worker' = [worker EXCEPT ![w] = IF worker[w].fresh = {} THEN Idle ELSE new]
      /\ event' = event /\ tasks' = tasks
  BY DEF ReadCards, Goes
<1>2. Types /\ WorkerOK(w) /\ worker[w].fresh \subseteq EventIds
  BY RecordTypes DEF OutboxInv
<1>3. ASSUME NEW S \in SUBSET cards, NEW c \in DOMAIN of(S).docs
      PROVE  of(S).docs[c] = db[c] /\ EventsOf(c) # {}
  <2>1. of(S).docs = Docs(S) OBVIOUS
  <2>2. c \in S /\ of(S).docs[c] = db[c] BY <1>3, <2>1 DEF Docs
  <2>3. PICK e \in worker[w].fresh : c = event[e].card BY <2>2
  <2>4. event[e].status # "none" BY <1>2 DEF WorkerOK, Written
  <2> QED BY <1>2, <2>2, <2>3, <2>4 DEF EventsOf
<1>4. \A i \in DOMAIN groups : \E S \in SUBSET cards : groups[i] = of(S)
  <2>1. cards \in SUBSET cards /\ existing \in SUBSET cards /\ cards \ existing \in SUBSET cards
    OBVIOUS
  <2> HIDE DEF cards, of, existing
  <2>2. CASE existing \in {{}, cards} BY <2>1, <2>2
  <2>3. CASE existing \notin {{}, cards}
    <3>1. groups = <<of(existing), of(cards \ existing)>> BY <2>3
    <3>2. DOMAIN groups = {1, 2} /\ groups[1] = of(existing) /\ groups[2] = of(cards \ existing)
      BY <3>1
    <3> HIDE DEF groups
    <3> QED BY <2>1, <3>2
  <2> QED BY <2>2, <2>3
<1>5. ASSUME NEW i \in DOMAIN groups, NEW c \in DOMAIN groups[i].docs
      PROVE  groups[i].docs[c] = db[c] /\ EventsOf(c) # {}
  <2>1. PICK S \in SUBSET cards : groups[i] = of(S) BY <1>4
  <2> HIDE DEF cards, of, existing, groups, EventsOf
  <2> QED BY <1>3, <1>5, <2>1
<1> HIDE DEF groups
<1>6. /\ new.groups = groups /\ new.phase = "submit" /\ DOMAIN new.known = {}
      /\ Idle.phase = "idle" /\ DOMAIN Idle.known = {} /\ DOMAIN Idle.groups = {}
  BY DEF Idle
<1> HIDE DEF new
<1>7. worker'[w] \in {Idle, new} BY <1>1, <1>2 DEF Types
<1>8. \A g \in Held(w)' : \A c \in DOMAIN g.docs : g.docs[c] = db[c] /\ EventsOf(c) # {}
  <2> HIDE DEF EventsOf
  <2> QED BY <1>5, <1>6, <1>7 DEF Held
<1>9. \A v \in Workers : v = w BY DEF SingleWorker
<1>10. \A e, t : Carries(e, t)' => Carries(e, t)
  <2>1. /\ worker'[w].phase \notin {"save", "wait"} /\ DOMAIN worker'[w].known = {}
    BY <1>6, <1>7
  <2> QED BY <1>1, <1>9, <2>1 DEF Carries
<1>11. MoreTasks /\ DOMAIN tasks' \ DOMAIN tasks = {} BY <1>1, SameTasks
<1> HIDE DEF EventsOf
<1> QED BY <1>1, <1>8, <1>9, <1>10, <1>11 DEF Shape

LEMMA StepShape ==
    ASSUME OutboxInv, SingleWorker, [Next]_vars,
           ~\E c \in Cards, e \in EventIds : Write(c, e)
    PROVE  Shape
<1>1. Types' BY OtherSteps DEF OutboxInv
<1>2. ASSUME NEW w \in Workers, WorkerStep(w) PROVE Shape
  BY <1>1, <1>2, ClaimShape, WaitKnownShape, ReadShape, SubmitShape, SaveShape,
     WaitSubmittedShape DEF WorkerStep
<1>3. ASSUME NEW w \in Workers, Abort(w) PROVE Shape BY <1>1, <1>3, AbortShape
<1>4. ASSUME NEW e \in EventIds, LeaseEnds(e) PROVE Shape BY <1>1, <1>4, LeaseEndsShape
<1>5. ASSUME NEW uid \in 1 .. Len(tasks), RunTask(uid) \/ PruneTask(uid) PROVE Shape
  BY <1>1, <1>5, ServerShape
<1>6. CASE UNCHANGED vars BY <1>1, <1>6, StutterShape
<1> QED BY <1>2, <1>3, <1>4, <1>5, <1>6 DEF Next

-----------------------------------------------------------------------------
(* The steps of the outbox beside the command.                             *)

(* What settled a card still does, unless a group says less of it.         *)
LEMMA SettlesStill ==
    ASSUME OutboxInv, OutboxInv', Steady, Shape, NEW c \in Cards, NEW s \in DOMAIN tasks,
           Settles(c, s),
           \A v \in Workers : \A g \in Held(v) : c \in DOMAIN g.docs => g.docs[c] = db[c]
    PROVE  s \in DOMAIN tasks' /\ Settles(c, s)'
<1>1. \A u \in DOMAIN tasks : u \in DOMAIN tasks' /\ tasks'[u].docs = tasks[u].docs
  BY DEF Shape, MoreTasks
<1>2. \A u \in DOMAIN tasks' \ DOMAIN tasks :
         \E v \in Workers : \E g \in Held(v) : tasks'[u].docs = g.docs
  BY DEF Shape
<1>3. \A u \in DOMAIN tasks' \ DOMAIN tasks :
         c \in DOMAIN tasks'[u].docs => tasks'[u].docs[c] = db[c]
  BY <1>2
<1>4. \A u \in DOMAIN tasks' : c \in DOMAIN tasks'[u].docs /\ u > s => tasks'[u].docs[c] = db[c]
  BY <1>1, <1>3 DEF Settles
<1> QED BY <1>1, <1>4 DEF Settles, Current, Steady

LEMMA QuietReindex ==
    ASSUME ReindexInv, OutboxInv', Quiet, Shape, walk' = walk, crossed' = crossed
    PROVE  ReindexInv'
<1>1. /\ OutboxInv /\ InHand /\ WalkOK /\ Steady /\ db' = db
      /\ \A c : EventsOf(c)' = EventsOf(c)
      /\ \A docs : SaidOnce(docs) => SaidOnce(docs)'
  BY SteadySays DEF ReindexInv, Quiet, Steady
<1>2. MoreTasks BY DEF Shape
<1>3. \A t \in DOMAIN tasks' : t # NoTask
  <2>1. Types' BY DEF OutboxInv
  <2> QED BY <2>1, OutboxAssumption DEF Types
<1>4. WalkOK'
  <2>1. PageOK => PageOK'
    <3>1. SaidOnce(walk.docs) => SaidOnce(walk.docs)'
      <4> HIDE DEF EventsOf
      <4> QED BY <1>1 DEF SaidOnce, Newer
    <3> HIDE DEF SaidOnce
    <3> QED BY <1>1, <3>1 DEF PageOK
  <2> HIDE DEF PageOK
  <2> QED BY <1>1, <1>2, <2>1 DEF WalkOK, MoreTasks
<1>5. InHand'
  <2> SUFFICES ASSUME NEW v \in Workers, NEW g \in Held(v)', NEW c \in DOMAIN g.docs
               PROVE  EventsOf(c) # {}
    <3> HIDE DEF EventsOf
    <3> QED BY <1>1 DEF InHand
  <2> HIDE DEF EventsOf
  <2> QED BY <1>1 DEF InHand, Shape
<1>6. ASSUME NEW c \in Cards PROVE CardOK(c)'
  <2>1. CardOK(c) /\ (Watched(c)' <=> Watched(c))
    BY <1>1 DEF ReindexInv, Watched, Walking
  <2>2. \A s \in DOMAIN tasks : Done(s) => Done(s)'
    BY <1>2 DEF Done, MoreTasks
  <2>3. ASSUME EventsOf(c) = {}, Watched(c) PROVE Covered(c)'
    <3>1. PICK s \in DOMAIN tasks : Done(s) /\ Settles(c, s)
      BY <2>1, <2>3 DEF CardOK, Covered
    <3>2. \A v \in Workers : \A g \in Held(v) : c \notin DOMAIN g.docs
      BY <1>1, <2>3 DEF InHand
    <3>3. s \in DOMAIN tasks' /\ Settles(c, s)' BY <1>1, <3>1, <3>2, SettlesStill
    <3> QED BY <2>2, <3>1, <3>3 DEF Covered
  <2>4. ASSUME NEW e \in EventsOf(c), LastSeen(e, c) PROVE LastSeen(e, c)'
    <3>1. e \in EventIds /\ Last(e, c) /\ Caught(e, c) BY <2>4 DEF LastSeen, EventsOf
    <3>2. Last(e, c)' BY <3>1 DEF Quiet
    <3>3. Caught(e, c)' BY <1>1, <3>1 DEF Caught, Shape
    <3>4. ASSUME Seen(e), NEW s \in DOMAIN tasks, Settles(c, s)
          PROVE  s \in DOMAIN tasks' /\ Settles(c, s)'
      BY <1>1, <3>1, <3>4, SettlesStill DEF Caught
    <3>5. ASSUME Watched(c), NEW t \in DOMAIN tasks', Carries(e, t)'
          PROVE  CoveredFrom(c, t)'
      <4>1. CASE Carries(e, t)
        <5>1. t # NoTask BY <1>3, <3>5
        <5>2. t \in DOMAIN tasks /\ Seen(e) BY <1>1, <3>1, <4>1, <5>1, CarriesTask
        <5>3. PICK s \in DOMAIN tasks : s >= t /\ (s = t \/ Done(s)) /\ Settles(c, s)
          BY <2>4, <3>5, <4>1, <5>2 DEF LastSeen, CoveredFrom
        <5>4. s \in DOMAIN tasks' /\ Settles(c, s)' BY <3>4, <5>2, <5>3
        <5> QED BY <2>2, <5>3, <5>4 DEF CoveredFrom
      <4>2. CASE t \notin DOMAIN tasks /\ Current(tasks'[t].docs, c)
        <5>1. \A u \in DOMAIN tasks' : u <= t BY <4>2, <1>2 DEF MoreTasks
        <5>2. \A u \in DOMAIN tasks' : u \in Nat BY DEF OutboxInv, Types
        <5>3. \A u \in DOMAIN tasks' : ~(u > t) /\ t >= t BY <5>1, <5>2
        <5>4. Settles(c, t)' BY <1>1, <4>2, <5>3 DEF Settles, Current
        <5> QED BY <5>3, <5>4 DEF CoveredFrom
      <4> QED BY <3>1, <3>5, <4>1, <4>2 DEF Shape
    <3>6. ASSUME Watched(c), event'[e].status = "succeeded" PROVE Covered(c)'
      <4>1. CASE event[e].status = "succeeded"
        <5>1. Seen(e) BY <4>1 DEF Seen
        <5>2. PICK s \in DOMAIN tasks : Done(s) /\ Settles(c, s)
          BY <2>4, <3>6, <4>1 DEF LastSeen, Covered
        <5> QED BY <2>2, <3>4, <5>1, <5>2 DEF Covered
      <4>2. ASSUME NEW t \in DOMAIN tasks, Carries(e, t), tasks[t].status = "succeeded"
            PROVE  Covered(c)'
        <5>1. t # NoTask BY <1>2, <1>3 DEF MoreTasks
        <5>2. Seen(e) BY <1>1, <3>1, <4>2, <5>1, CarriesTask
        <5>3. PICK s \in DOMAIN tasks : s >= t /\ (s = t \/ Done(s)) /\ Settles(c, s)
          BY <2>4, <3>6, <4>2 DEF LastSeen, CoveredFrom
        <5>4. Done(s) BY <4>2, <5>3 DEF Done
        <5> QED BY <2>2, <3>4, <5>2, <5>3, <5>4 DEF Covered
      <4> QED BY <3>1, <3>6, <4>1, <4>2 DEF Shape
    <3> QED BY <2>1, <3>2, <3>3, <3>5, <3>6 DEF LastSeen
  <2> HIDE DEF EventsOf, LastSeen, Watched, Covered
  <2> QED BY <1>1, <2>1, <2>3, <2>4 DEF CardOK
<1> HIDE DEF OutboxInv, InHand, WalkOK, CardOK
<1> QED BY <1>4, <1>5, <1>6 DEF ReindexInv

(* A card that is written while the command runs is crossed; written after *)
(* it, or before, it has an event that nothing was done about yet.         *)
LEMMA WriteReindex ==
    ASSUME ReindexInv, NEW card \in Cards, NEW f \in EventIds, NEW n \in Nat,
           Writes(card, f, n), walk' = walk,
           crossed' = IF Walking THEN crossed \cup {c \in Cards : db'[c] # db[c]}
                      ELSE crossed
    PROVE  ReindexInv'
<1>1. /\ OutboxInv /\ InHand /\ WalkOK /\ OutboxInv'
      /\ worker' = worker /\ tasks' = tasks
      /\ \A e \in EventIds : event'[e].task = event[e].task
      /\ \A e \in EventIds \ {f} : event'[e].status = event[e].status
      /\ f \in EventsOf(card)'
      /\ \A c : c # card => EventsOf(c)' = EventsOf(c)
      /\ db'[card] = n /\ \A c \in Cards \ {card} : db'[c] = db[c]
  BY WriteShape, WriteHolds DEF ReindexInv
<1>2. n # db[card] BY DEF Writes
<1>3. InHand'
  <2>1. \A v \in Workers : Held(v)' = Held(v) BY <1>1 DEF Held
  <2> HIDE DEF EventsOf
  <2> QED BY <1>1, <2>1 DEF InHand
<1>4. WalkOK'
  <2>1. ASSUME walk.phase \in {"submit", "wait"} PROVE PageOK'
    <3>1. PageOK /\ walk.docs \in Documents BY <1>1, <2>1 DEF WalkOK, Walks
    <3>2. PICK docs \in Documents : docs = walk.docs BY <3>1
    <3>3. SaidOnce(docs)
      <4> HIDE DEF EventsOf, Newer
      <4> QED BY <3>1, <3>2 DEF PageOK, SaidOnce
    <3>4. SaidOnce(docs)' BY <1>1, <3>3, WriteSaid
    <3>5. SaidOnce(walk.docs)'
      <4> HIDE DEF EventsOf, Newer
      <4> QED BY <3>2, <3>4 DEF SaidOnce
    <3>6. crossed' = crossed \cup {c \in Cards : db'[c] # db[c]}
      BY <2>1 DEF Walking
    <3>7. \A c \in Cards \ crossed' : c # card /\ c \notin crossed /\ db'[c] = db[c]
      BY <1>1, <1>2, <3>6
    <3> HIDE DEF SaidOnce
    <3> QED BY <3>1, <3>5, <3>7 DEF PageOK
  <2> HIDE DEF PageOK
  <2> QED BY <1>1, <2>1 DEF WalkOK
<1>5. ASSUME NEW c \in Cards PROVE CardOK(c)'
  <2>1. CASE c = card
    <3>1. /\ Last(f, card)'
          /\ event'[f].task = NoTask /\ event'[f].status = "pending"
          /\ \A w \in Workers :
                /\ f \notin DOMAIN worker'[w].known
                /\ \A i \in DOMAIN worker'[w].groups : f \notin worker'[w].groups[i].events
      BY <1>1, WriteNew
    <3>2. ~Seen(f)' BY <3>1 DEF Seen, Held
    <3>3. \A t \in DOMAIN tasks' : t # NoTask
      <4>1. Types' BY <1>1 DEF OutboxInv
      <4> QED BY <4>1, OutboxAssumption DEF Types
    <3>4. \A t \in DOMAIN tasks' : ~Carries(f, t)'
      <4>1. ASSUME NEW w \in Workers, worker'[w].phase \in {"save", "wait"}
            PROVE  f \notin Head(worker'[w].groups).events
        <5>1. worker[w].phase \in {"save", "wait"} BY <1>1, <4>1
        <5>2. /\ 1 \in DOMAIN worker[w].groups
              /\ Head(worker[w].groups) = worker[w].groups[1]
          BY <1>1, <5>1, FirstGroup
        <5> QED BY <1>1, <3>1, <5>2
      <4> QED BY <3>1, <3>3, <4>1 DEF Carries
    <3>5. LastSeen(f, card)' BY <3>1, <3>2, <3>4 DEF LastSeen, Caught
    <3> HIDE DEF EventsOf, LastSeen, Watched, Covered
    <3> QED BY <1>1, <2>1, <3>5 DEF CardOK
  <2>2. CASE c # card
    <3>1. db'[c] = db[c] /\ EventsOf(c)' = EventsOf(c) /\ CardOK(c)
      BY <1>1, <2>2 DEF ReindexInv
    <3>2. Watched(c)' => Watched(c) BY <3>1 DEF Watched, Walking
    <3>3. /\ \A s : Settles(c, s)' <=> Settles(c, s)
          /\ \A s : Done(s)' <=> Done(s)
      BY <1>1, <3>1 DEF Settles, Current, Done
    <3>4. /\ Covered(c) => Covered(c)'
          /\ \A t : CoveredFrom(c, t) => CoveredFrom(c, t)'
      <4> HIDE DEF Done, Settles
      <4> QED BY <1>1, <3>3 DEF Covered, CoveredFrom
    <3>5. ASSUME NEW e \in EventsOf(c), LastSeen(e, c) PROVE LastSeen(e, c)'
      <4>1. e \in EventIds /\ Last(e, c) /\ c \in Cards \ {card}
        BY <2>2, <3>5 DEF LastSeen, EventsOf
      <4>2. Last(e, c)' /\ e # f BY <1>1, <4>1, WriteLast
      <4>3. event'[e].task = event[e].task /\ event'[e].status = event[e].status
        BY <1>1, <4>1, <4>2
      <4>4. \A v \in Workers : Held(v)' = Held(v) BY <1>1 DEF Held
      <4>5. (Seen(e)' <=> Seen(e)) /\ \A t : Carries(e, t)' <=> Carries(e, t)
        BY <1>1, <4>3, <4>4 DEF Seen, Carries
      <4>6. Caught(e, c)' BY <3>1, <3>5, <4>4, <4>5 DEF LastSeen, Caught
      <4> HIDE DEF Last, Caught, Carries, Watched, Covered, CoveredFrom
      <4> QED BY <1>1, <3>2, <3>4, <3>5, <4>2, <4>3, <4>5, <4>6 DEF LastSeen
    <3> HIDE DEF EventsOf, LastSeen, Watched, Covered
    <3> QED BY <3>1, <3>2, <3>4, <3>5 DEF CardOK
  <2> QED BY <2>1, <2>2
<1> HIDE DEF OutboxInv, InHand, WalkOK, CardOK
<1> QED BY <1>1, <1>3, <1>4, <1>5 DEF ReindexInv

LEMMA OutboxBeside ==
    ASSUME ReindexInv, SingleWorker, OutboxStep
    PROVE  ReindexInv'
<1>1. /\ [Next]_vars /\ walk' = walk /\ OutboxInv
      /\ crossed' = IF Walking THEN crossed \cup {c \in Cards : db'[c] # db[c]}
                    ELSE crossed
  BY DEF OutboxStep, ReindexInv
<1>2. ASSUME NEW c \in Cards, NEW e \in EventIds, Write(c, e) PROVE ReindexInv'
  <2>1. PICK n \in Nat : Writes(c, e, n) BY <1>1, <1>2, AllWrites
  <2> QED BY <1>1, <2>1, WriteReindex
<1>3. CASE ~\E c \in Cards, e \in EventIds : Write(c, e)
  <2>1. OutboxInv' /\ Quiet /\ Shape BY <1>1, <1>3, OtherSteps, StepShape
  <2>2. crossed' = crossed BY <1>1, <2>1 DEF Quiet, Steady
  <2> QED BY <1>1, <2>1, <2>2, QuietReindex
<1> QED BY <1>2, <1>3

-----------------------------------------------------------------------------
(* The steps of the command.                                               *)

(* Events, groups and what the index was told stay as they are; the new    *)
(* task, if any, is a page.                                                *)
LEMMA CommandHolds ==
    ASSUME OutboxInv,
           db' = db, event' = event, worker' = worker, index' = index,
           tasks' = tasks \/ (/\ tasks' = Accepted(walk.docs) /\ walk.docs \in Documents
                              /\ SaidOnce(walk.docs))
    PROVE  OutboxInv' /\ Quiet
<1>1. Types BY DEF OutboxInv
<1>2. Steady /\ Grown BY <1>1, TasksStay, AcceptedGrows DEF Steady
<1>3. event' \in [EventIds -> Rows] /\ worker' \in [Workers -> Records]
  BY <1>1 DEF Types
<1> DEFINE S == {}
<1>4. /\ S \in SUBSET Workers /\ \A v \in Workers \ S : worker'[v] = worker[v]
      /\ \A v \in S : FALSE
  OBVIOUS
<1>5. \A e \in EventIds : event'[e].task = event[e].task /\ event'[e].status = event[e].status
  OBVIOUS
<1> HIDE DEF S
<1> QED BY <1>2, <1>3, <1>4, <1>5, WorkerStepHolds

(* A card that the command had not passed, or has not passed any more.     *)
LEMMA Unwatched ==
    ASSUME ReindexInv, OutboxInv', Quiet, worker' = worker, event' = event,
           NEW c \in Cards, ~Watched(c)'
    PROVE  CardOK(c)'
<1>1. CardOK(c) /\ db' = db /\ EventsOf(c)' = EventsOf(c)
  BY SteadySays DEF ReindexInv, Quiet, Steady
<1>2. ASSUME NEW e \in EventsOf(c), LastSeen(e, c) PROVE LastSeen(e, c)'
  <2>1. Last(e, c)' BY <1>2 DEF LastSeen, Quiet, EventsOf
  <2>2. Caught(e, c)' BY <1>1, <1>2 DEF LastSeen, Caught, Seen, Held
  <2> QED BY <2>1, <2>2 DEF LastSeen
<1> HIDE DEF EventsOf, LastSeen, Watched
<1> QED BY <1>1, <1>2 DEF CardOK

(* A card that was passed stays covered if what settles it does.           *)
LEMMA StillWatched ==
    ASSUME ReindexInv, OutboxInv', Quiet, worker' = worker, event' = event,
           NEW c \in Cards, Watched(c),
           \A t \in DOMAIN tasks : t \in DOMAIN tasks',
           \A s \in DOMAIN tasks : Done(s) => Done(s)',
           \A s \in DOMAIN tasks : Settles(c, s) => Settles(c, s)'
    PROVE  CardOK(c)'
<1>1. OutboxInv /\ CardOK(c) /\ db' = db /\ EventsOf(c)' = EventsOf(c)
  BY SteadySays DEF ReindexInv, Quiet, Steady
<1>2. Covered(c) => Covered(c)' BY DEF Covered
<1>3. \A t \in DOMAIN tasks : CoveredFrom(c, t) => CoveredFrom(c, t)'
  BY DEF CoveredFrom
<1>4. \A t \in DOMAIN tasks' : t # NoTask
  <2>1. Types' BY DEF OutboxInv
  <2> QED BY <2>1, OutboxAssumption DEF Types
<1>5. ASSUME NEW e \in EventsOf(c), LastSeen(e, c) PROVE LastSeen(e, c)'
  <2>1. e \in EventIds BY DEF EventsOf
  <2>2. Last(e, c)' BY <1>5, <2>1 DEF LastSeen, Quiet
  <2>3. Caught(e, c)' BY <1>1, <1>5 DEF LastSeen, Caught, Seen, Held
  <2>4. ASSUME NEW t \in DOMAIN tasks', Carries(e, t)' PROVE CoveredFrom(c, t)'
    <3>1. Carries(e, t) BY <2>4 DEF Carries
    <3>2. t \in DOMAIN tasks BY <1>1, <1>4, <2>1, <3>1, CarriesTask
    <3> QED BY <1>3, <1>5, <3>1, <3>2 DEF LastSeen
  <2>5. event'[e].status = "succeeded" => Covered(c)' BY <1>2, <1>5 DEF LastSeen
  <2> QED BY <2>2, <2>3, <2>4, <2>5 DEF LastSeen
<1> HIDE DEF EventsOf, LastSeen, Watched, Covered
<1> QED BY <1>1, <1>2, <1>5 DEF CardOK

(* A card that a page says what it is.                                     *)
LEMMA NewlyCovered ==
    ASSUME ReindexInv, OutboxInv', Quiet, worker' = worker, event' = event,
           NEW c \in Cards, NEW s \in DOMAIN tasks',
           \A t \in DOMAIN tasks' : t <= s, Done(s)', Current(tasks[s].docs, c)'
    PROVE  CardOK(c)'
<1>1. CardOK(c) /\ db' = db /\ EventsOf(c)' = EventsOf(c)
  BY SteadySays DEF ReindexInv, Quiet, Steady
<1>2. \A t \in DOMAIN tasks' : t \in Nat
  <2>1. Types' BY DEF OutboxInv
  <2> QED BY <2>1 DEF Types
<1>3. \A t \in DOMAIN tasks' : ~(t > s) /\ s >= t BY <1>2
<1>4. Settles(c, s)' BY <1>3 DEF Settles, Current
<1>5. Covered(c)' /\ \A t \in DOMAIN tasks' : CoveredFrom(c, t)'
  BY <1>3, <1>4 DEF Covered, CoveredFrom
<1>6. ASSUME NEW e \in EventsOf(c), LastSeen(e, c) PROVE LastSeen(e, c)'
  <2>1. Last(e, c)' BY <1>6 DEF LastSeen, Quiet, EventsOf
  <2>2. Caught(e, c)' BY <1>1, <1>6 DEF LastSeen, Caught, Seen, Held
  <2> QED BY <1>5, <2>1, <2>2 DEF LastSeen
<1> HIDE DEF EventsOf, LastSeen, Watched, Covered
<1> QED BY <1>1, <1>5, <1>6 DEF CardOK

LEMMA InHandKept ==
    ASSUME InHand, Quiet, worker' = worker
    PROVE  InHand'
<1>1. \A c : EventsOf(c)' = EventsOf(c) BY SteadySays DEF Quiet
<1>2. \A v \in Workers : Held(v)' = Held(v) BY DEF Held
<1> HIDE DEF EventsOf
<1> QED BY <1>1, <1>2 DEF InHand

LEMMA NoWalk == NotWalking \in Walks
<1>1. << >> \in [{} -> Nat] OBVIOUS
<1>2. << >> \in Documents BY <1>1 DEF Documents
<1> QED BY <1>2 DEF NotWalking, Walks

LEMMA StartWalkHolds ==
    ASSUME ReindexInv, StartWalk
    PROVE  ReindexInv'
<1>1. /\ walk' = [NotWalking EXCEPT !.phase = "read"]
      /\ db' = db /\ event' = event /\ worker' = worker /\ tasks' = tasks /\ index' = index
      /\ OutboxInv /\ InHand
  BY DEF StartWalk, vars, ReindexInv
<1>2. walk' \in Walks /\ walk'.phase = "read" /\ walk'.last = 0
  BY <1>1, NoWalk DEF Walks, NotWalking
<1>3. OutboxInv' /\ Quiet BY <1>1, CommandHolds
<1>4. InHand' BY <1>1, <1>3, InHandKept
<1>5. WalkOK' BY <1>2 DEF WalkOK
<1>6. ASSUME NEW c \in Cards PROVE CardOK(c)'
  <2>1. ~(c <= 0) BY ReindexAssumption
  <2>2. ~Watched(c)' BY <1>2, <2>1 DEF Watched
  <2> QED BY <1>1, <1>3, <2>2, Unwatched
<1> HIDE DEF OutboxInv, InHand, WalkOK, CardOK
<1> QED BY <1>3, <1>4, <1>5, <1>6 DEF ReindexInv

LEMMA EndsEarlyHolds ==
    ASSUME ReindexInv, EndsEarly
    PROVE  ReindexInv'
<1>1. /\ walk' = NotWalking
      /\ db' = db /\ event' = event /\ worker' = worker /\ index' = index
      /\ OutboxInv /\ InHand /\ WalkOK
      /\ tasks' = tasks \/ (walk.phase = "submit" /\ tasks' = Accepted(walk.docs))
  BY DEF EndsEarly, ReindexInv
<1>2. walk' \in Walks /\ walk'.phase = "off" BY <1>1, NoWalk DEF NotWalking
<1>3. walk.phase = "submit" => walk.docs \in Documents /\ SaidOnce(walk.docs)
  <2> HIDE DEF SaidOnce
  <2> QED BY <1>1 DEF WalkOK, PageOK, Walks
<1>4. OutboxInv' /\ Quiet BY <1>1, <1>3, CommandHolds
<1>5. InHand' BY <1>1, <1>4, InHandKept
<1>6. WalkOK' BY <1>2 DEF WalkOK
<1>7. ASSUME NEW c \in Cards PROVE CardOK(c)'
  <2>1. ~Watched(c)' BY <1>2 DEF Watched, Walking
  <2> QED BY <1>1, <1>4, <2>1, Unwatched
<1> HIDE DEF OutboxInv, InHand, WalkOK, CardOK
<1> QED BY <1>4, <1>5, <1>6, <1>7 DEF ReindexInv

LEMMA SubmitPageHolds ==
    ASSUME ReindexInv, SubmitPage
    PROVE  ReindexInv'
<1> DEFINE docs == walk.docs
<1>1. /\ walk.phase = "submit" /\ tasks' = Accepted(walk.docs)
      /\ walk' = [walk EXCEPT !.phase = "wait", !.task = Len(tasks')]
      /\ db' = db /\ event' = event /\ worker' = worker /\ index' = index
      /\ crossed' = crossed /\ OutboxInv /\ InHand /\ WalkOK
  BY DEF SubmitPage, ReindexInv
<1>2. PageOK /\ walk \in Walks /\ docs \in Documents BY <1>1 DEF WalkOK, Walks
<1>3. SaidOnce(walk.docs) BY <1>2 DEF PageOK
<1>4. OutboxInv' /\ Quiet BY <1>1, <1>2, <1>3, CommandHolds
<1>5. /\ MoreTasks /\ Len(tasks') \in DOMAIN tasks' \ DOMAIN tasks /\ Len(tasks') \in Nat
      /\ \A u \in DOMAIN tasks' \ DOMAIN tasks : u = Len(tasks') /\ tasks'[u].docs = docs
      /\ \A u \in DOMAIN tasks : tasks'[u] = tasks[u]
  BY <1>1, <1>2, AcceptedMore
<1>6. PICK s \in DOMAIN tasks' \ DOMAIN tasks : s = Len(tasks') BY <1>5
<1>7. /\ walk' \in Walks /\ walk'.phase = "wait" /\ walk'.task = s
      /\ walk'.docs = docs /\ walk'.last = walk.last
  BY <1>1, <1>2, <1>5, <1>6 DEF Walks
<1>8. InHand' BY <1>1, <1>4, InHandKept
<1>9. WalkOK'
  <2>1. SaidOnce(walk.docs)'
    <3>1. \A c : EventsOf(c)' = EventsOf(c) BY <1>4, SteadySays DEF Quiet
    <3> HIDE DEF EventsOf
    <3> QED BY <1>1, <1>3, <1>7, <3>1 DEF SaidOnce, Newer
  <2>2. PageOK'
    <3> HIDE DEF SaidOnce
    <3> QED BY <1>1, <1>2, <1>7, <2>1 DEF PageOK
  <2> HIDE DEF PageOK
  <2> QED BY <1>5, <1>6, <1>7, <2>2 DEF WalkOK
<1>10. ASSUME NEW c \in Cards PROVE CardOK(c)'
  <2>1. CASE ~Watched(c)' BY <1>1, <1>4, <2>1, Unwatched
  <2>2. CASE Watched(c)' /\ c \in DOMAIN docs
    <3>1. c \notin crossed BY <1>1, <2>2 DEF Watched
    <3>2. docs[c] = db[c] BY <1>2, <2>2, <3>1 DEF PageOK
    <3>3. Current(tasks[s].docs, c)' BY <1>1, <1>5, <2>2, <3>2 DEF Current
    <3>4. Done(s)' BY <1>7 DEF Done
    <3>5. \A t \in DOMAIN tasks' : t <= s BY <1>5 DEF MoreTasks
    <3> QED BY <1>1, <1>4, <3>3, <3>4, <3>5, NewlyCovered
  <2>3. CASE Watched(c)' /\ c \notin DOMAIN docs
    <3>1. Watched(c) BY <1>1, <1>7, <2>3 DEF Watched, Walking
    <3>2. \A t \in DOMAIN tasks : Done(t) => Done(t)'
      BY <1>1, <1>5 DEF Done
    <3>3. ASSUME NEW t \in DOMAIN tasks, Settles(c, t) PROVE Settles(c, t)'
      <4>1. \A u \in DOMAIN tasks' : c \in DOMAIN tasks'[u].docs => u \in DOMAIN tasks
        BY <1>5, <2>3
      <4> QED BY <1>1, <1>5, <3>3, <4>1 DEF Settles, Current
    <3>4. \A t \in DOMAIN tasks : t \in DOMAIN tasks' BY <1>5 DEF MoreTasks
    <3> QED BY <1>1, <1>4, <3>1, <3>2, <3>3, <3>4, StillWatched
  <2> QED BY <2>1, <2>2, <2>3
<1> HIDE DEF OutboxInv, InHand, WalkOK, CardOK
<1> QED BY <1>4, <1>8, <1>9, <1>10 DEF ReindexInv

(* A step of the command that sends nothing.                               *)
LEMMA Watching ==
    ASSUME ReindexInv, OutboxInv', Quiet, worker' = worker, event' = event, tasks' = tasks,
           db' = db, NEW c \in Cards, Watched(c)' => Watched(c),
           \A s \in DOMAIN tasks : Done(s) => Done(s)'
    PROVE  CardOK(c)'
<1>1. CASE ~Watched(c)' BY <1>1, Unwatched
<1>2. CASE Watched(c)
  <2>1. \A s \in DOMAIN tasks : Settles(c, s) => Settles(c, s)'
    BY DEF Settles, Current
  <2>2. \A t \in DOMAIN tasks : t \in DOMAIN tasks' OBVIOUS
  <2> QED BY <1>2, <2>1, <2>2, StillWatched
<1> QED BY <1>1, <1>2

LEMMA WaitPageHolds ==
    ASSUME ReindexInv, WaitPage
    PROVE  ReindexInv'
<1>1. /\ walk.phase = "wait" /\ Answer(walk.task) = "succeeded" /\ Onward
      /\ db' = db /\ event' = event /\ worker' = worker /\ index' = index
      /\ tasks' = tasks /\ crossed' = crossed /\ OutboxInv /\ InHand /\ WalkOK
  BY DEF WaitPage, vars, ReindexInv
<1>2. PageOK /\ walk \in Walks /\ walk.docs \in Documents BY <1>1 DEF WalkOK, Walks
<1>3. PICK m \in DOMAIN walk.docs : \A d \in DOMAIN walk.docs : d <= m
  BY <1>2 DEF PageOK
<1>4. DOMAIN walk.docs \subseteq Cards /\ \A d \in DOMAIN walk.docs : d \in Nat
  BY <1>2, ReindexAssumption DEF Documents
<1>5. m = CHOOSE c \in DOMAIN walk.docs : \A d \in DOMAIN walk.docs : d <= c
  <2>1. PICK k : k = CHOOSE c \in DOMAIN walk.docs : \A d \in DOMAIN walk.docs : d <= c
    OBVIOUS
  <2>2. k \in DOMAIN walk.docs /\ \A d \in DOMAIN walk.docs : d <= k
    BY <1>3, <2>1
  <2>3. k <= m /\ m <= k /\ k \in Nat /\ m \in Nat BY <1>3, <1>4, <2>2
  <2> QED BY <2>1, <2>3
<1>6. walk' = [NotWalking EXCEPT !.phase = "read", !.last = m]
  BY <1>1, <1>5 DEF Onward
<1>7. walk' \in Walks /\ walk'.phase = "read" /\ walk'.last = m
  BY <1>3, <1>4, <1>6, NoWalk DEF Walks, NotWalking
<1>8. OutboxInv' /\ Quiet BY <1>1, CommandHolds
<1>9. InHand' BY <1>1, <1>8, InHandKept
<1>10. WalkOK' BY <1>7 DEF WalkOK
<1>11. tasks[walk.task].status = "succeeded" BY <1>1 DEF Answer
<1>12. \A s \in DOMAIN tasks : Done(s) => Done(s)'
  BY <1>1, <1>11 DEF Done
<1>13. ASSUME NEW c \in Cards PROVE CardOK(c)'
  <2>1. ASSUME Watched(c)' PROVE Watched(c)
    <3>1. c \notin crossed /\ db[c] # NoDoc /\ c <= m
      BY <1>1, <1>7, <2>1 DEF Watched
    <3>2. CASE c \in DOMAIN walk.docs BY <1>1, <3>1, <3>2 DEF Watched
    <3>3. CASE c <= walk.last BY <1>1, <3>1, <3>3 DEF Watched, Walking
    <3>4. ~(m < c) BY <1>3, <1>4, <3>1, ReindexAssumption
    <3> QED BY <1>2, <1>3, <3>1, <3>2, <3>3, <3>4 DEF PageOK
  <2> QED BY <1>1, <1>8, <1>12, <2>1, Watching
<1> HIDE DEF OutboxInv, InHand, WalkOK, CardOK
<1> QED BY <1>8, <1>9, <1>10, <1>13 DEF ReindexInv

(* The rows a page is taken from, and how many of them come before a row.  *)
RowsAfter == {c \in Cards : db[c] # NoDoc /\ c > walk.last}
Rank(c) == Cardinality({d \in RowsAfter : d < c})

LEMMA Ranks ==
    ASSUME WalkOK
    PROVE  /\ \A c \in RowsAfter : Rank(c) \in Nat
           /\ \A c, d \in RowsAfter : c < d => Rank(c) < Rank(d)
           /\ Page = {c \in RowsAfter : Rank(c) < PageSize}
<1>1. \A c \in RowsAfter : c \in Nat BY ReindexAssumption DEF RowsAfter
<1>2. ASSUME NEW c \in RowsAfter
      PROVE  IsFiniteSet({d \in RowsAfter : d < c}) /\ Rank(c) \in Nat
  <2>1. {d \in RowsAfter : d < c} \subseteq 0 .. c
    <3>1. ASSUME NEW d \in RowsAfter, d < c PROVE d \in 0 .. c
      <4>1. d \in Nat /\ c \in Nat BY <1>1
      <4> QED BY <3>1, <4>1
    <3> QED BY <3>1
  <2>2. IsFiniteSet(0 .. c)
    <3>1. 0 \in Int /\ c \in Int BY <1>1
    <3> QED BY <3>1, FS_Interval
  <2>3. IsFiniteSet({d \in RowsAfter : d < c}) BY <2>1, <2>2, FS_Subset
  <2> QED BY <2>3, FS_CardinalityType DEF Rank
<1>3. ASSUME NEW c \in RowsAfter, NEW d \in RowsAfter, c < d
      PROVE  Rank(c) < Rank(d)
  <2> DEFINE below == {x \in RowsAfter : x < c}
             more == below \cup {c}
             all == {x \in RowsAfter : x < d}
  <2>1. IsFiniteSet(below) /\ IsFiniteSet(all) BY <1>2
  <2>2. c \notin below /\ more \subseteq all
    <3>1. c \in Nat /\ d \in Nat BY <1>1
    <3>2. \A x \in RowsAfter : x < c => x < d
      <4> TAKE x \in RowsAfter
      <4>1. x \in Nat BY <1>1
      <4> QED BY <1>3, <3>1, <4>1
    <3>3. ~(c < c) BY <3>1
    <3> QED BY <1>3, <3>2, <3>3
  <2>3. Cardinality(more) = Cardinality(below) + 1
    <3> HIDE DEF below
    <3> QED BY <2>1, <2>2, FS_AddElement
  <2>4. Cardinality(more) <= Cardinality(all)
    <3> HIDE DEF more, all
    <3> QED BY <2>1, <2>2, FS_Subset
  <2>5. Cardinality(below) = Rank(c) /\ Cardinality(all) = Rank(d) BY DEF Rank
  <2>6. Rank(c) \in Nat /\ Rank(d) \in Nat BY <1>2
  <2> HIDE DEF below, more, all
  <2> QED BY <2>3, <2>4, <2>5, <2>6
<1>4. Page = {c \in RowsAfter : Rank(c) < PageSize} BY DEF Page, RowsAfter, Rank
<1> QED BY <1>2, <1>3, <1>4

LEMMA NatMin ==
    ASSUME NEW S \in SUBSET Nat, S # {}
    PROVE  \E m \in S : \A n \in S : m <= n
<1> DEFINE R == OpToRel(<, Nat)
<1>1. PICK m \in S : \A n \in S : <<n, m>> \notin R
  BY NatLessThanWellFounded, WFMin
<1>2. \A n \in S : n < m => <<n, m>> \in R BY DEF OpToRel
<1>3. \A n \in S : ~(n < m) /\ n \in Nat /\ m \in Nat BY <1>1, <1>2
<1> QED BY <1>3

(* A page is empty only if no row is left, has a last row, and leaves out  *)
(* only rows beyond it.                                                    *)
LEMMA Pages ==
    ASSUME WalkOK
    PROVE  /\ Page \subseteq RowsAfter
           /\ Page = {} => RowsAfter = {}
           /\ Page # {} => \E m \in Page : \A d \in Page : d <= m
           /\ \A c \in RowsAfter \ Page : \A d \in Page : d < c
<1>1. /\ \A c \in RowsAfter : Rank(c) \in Nat
      /\ \A c, d \in RowsAfter : c < d => Rank(c) < Rank(d)
      /\ Page = {c \in RowsAfter : Rank(c) < PageSize}
  BY Ranks
<1>2. RowsAfter \subseteq Nat /\ PageSize \in Nat /\ PageSize > 0
  <2>1. RowsAfter \subseteq Cards BY DEF RowsAfter
  <2>2. Cards \subseteq Nat /\ PageSize \in Nat \ {0} BY ReindexAssumption
  <2> QED BY <2>1, <2>2
<1> HIDE DEF Page, Rank
<1>3. ASSUME RowsAfter # {} PROVE Page # {}
  <2>1. PICK m \in RowsAfter : \A n \in RowsAfter : m <= n BY <1>2, <1>3, NatMin
  <2>2. {d \in RowsAfter : d < m} = {}
    <3>1. \A n \in RowsAfter : n \in Nat /\ m \in Nat /\ ~(n < m) BY <1>2, <2>1
    <3> QED BY <3>1
  <2>3. Rank(m) = 0 BY <2>2, FS_EmptySet DEF Rank
  <2> QED BY <1>1, <1>2, <2>3
<1>4. ASSUME Page # {} PROVE \E m \in Page : \A d \in Page : d <= m
  <2> DEFINE left(c) == PageSize - Rank(c)
             lefts == {left(c) : c \in Page}
  <2>1. \A c \in Page : left(c) \in Nat BY <1>1, <1>2
  <2>2. lefts \in SUBSET Nat /\ lefts # {} BY <1>4, <2>1
  <2> HIDE DEF lefts
  <2>3. PICK n \in lefts : \A k \in lefts : n <= k BY <2>2, NatMin
  <2>4. PICK m \in Page : n = left(m) BY <2>3 DEF lefts
  <2>5. \A d \in Page : left(m) <= left(d) BY <2>3, <2>4 DEF lefts
  <2>6. ASSUME NEW d \in Page PROVE d <= m
    <3>1. ~(Rank(m) < Rank(d)) BY <1>1, <1>2, <2>5
    <3>2. ~(m < d) BY <1>1, <3>1
    <3> QED BY <1>1, <1>2, <3>2
  <2> QED BY <2>6
<1>5. ASSUME NEW c \in RowsAfter \ Page, NEW d \in Page PROVE d < c
  <2>1. ~(Rank(c) < PageSize) /\ Rank(d) < PageSize BY <1>1
  <2>2. d \in RowsAfter /\ ~(Rank(c) < Rank(d)) /\ c # d BY <1>1, <1>2, <2>1
  <2>3. ~(c < d) BY <1>1, <2>2
  <2> QED BY <1>2, <2>2, <2>3
<1> QED BY <1>1, <1>3, <1>4, <1>5

LEMMA ReadPageHolds ==
    ASSUME ReindexInv, ReadPage
    PROVE  ReindexInv'
<1>1. /\ walk.phase = "read"
      /\ walk' = IF Page = {} THEN [NotWalking EXCEPT !.phase = "done"]
                 ELSE [walk EXCEPT !.phase = "submit", !.docs = Docs(Page)]
      /\ db' = db /\ event' = event /\ worker' = worker /\ index' = index
      /\ tasks' = tasks /\ crossed' = crossed /\ OutboxInv /\ InHand /\ WalkOK
  BY DEF ReadPage, vars, ReindexInv
<1>2. /\ Page \subseteq RowsAfter
      /\ Page = {} => RowsAfter = {}
      /\ Page # {} => \E m \in Page : \A d \in Page : d <= m
      /\ \A c \in RowsAfter \ Page : \A d \in Page : d < c
  BY <1>1, Pages
<1>3. PICK page \in SUBSET RowsAfter : page = Page BY <1>2
<1> HIDE DEF Page
<1>4. /\ Docs(page) \in [page -> Nat] /\ page \in SUBSET Cards
      /\ \A c \in page : Docs(page)[c] = db[c] /\ db[c] # NoDoc
  BY <1>1 DEF OutboxInv, Types, Docs, RowsAfter
<1>5. Docs(page) \in Documents /\ DOMAIN Docs(page) = page
  BY <1>4 DEF Documents
<1>6. walk \in Walks /\ walk.last \in Nat BY <1>1 DEF WalkOK, Walks
<1>7. OutboxInv' /\ Quiet BY <1>1, CommandHolds
<1>8. InHand' BY <1>1, <1>7, InHandKept
<1>9. CASE page = {}
  <2>1. walk' \in Walks /\ walk'.phase = "done"
    BY <1>1, <1>3, <1>9, NoWalk DEF Walks, NotWalking
  <2>2. WalkOK' BY <2>1 DEF WalkOK
  <2>3. ASSUME NEW c \in Cards PROVE CardOK(c)'
    <3>1. \A s \in DOMAIN tasks : Done(s) => Done(s)' BY <1>1 DEF Done
    <3>2. ASSUME Watched(c)' PROVE Watched(c)
      <4>1. c \notin crossed /\ db[c] # NoDoc BY <1>1, <3>2 DEF Watched
      <4>2. c \notin RowsAfter BY <1>2, <1>3, <1>9
      <4>3. c <= walk.last BY <1>6, <4>1, <4>2, ReindexAssumption DEF RowsAfter
      <4> QED BY <1>1, <4>1, <4>3 DEF Watched, Walking
    <3> QED BY <1>1, <1>7, <3>1, <3>2, Watching
  <2> HIDE DEF OutboxInv, InHand, WalkOK, CardOK
  <2> QED BY <1>7, <1>8, <2>2, <2>3 DEF ReindexInv
<1>10. CASE page # {}
  <2>1. walk' = [walk EXCEPT !.phase = "submit", !.docs = Docs(page)]
    BY <1>1, <1>3, <1>10
  <2>2. /\ walk' \in Walks /\ walk'.phase = "submit" /\ walk'.docs = Docs(page)
        /\ walk'.last = walk.last
    BY <1>5, <1>6, <2>1 DEF Walks
  <2>3. PageOK'
    <3>1. SaidOnce(walk.docs)'
      <4> HIDE DEF EventsOf
      <4> QED BY <1>1, <1>4, <1>5, <2>2 DEF SaidOnce
    <3>2. \E m \in DOMAIN walk'.docs : \A d \in DOMAIN walk'.docs : d <= m
      BY <1>2, <1>3, <1>5, <1>10, <2>2
    <3>3. ASSUME NEW c \in Cards, db[c] # NoDoc, c \notin page
          PROVE  c <= walk.last \/ \A d \in page : d < c
      <4>1. CASE c \in RowsAfter BY <1>2, <1>3, <3>3, <4>1
      <4>2. CASE c \notin RowsAfter BY <1>6, <3>3, <4>2, ReindexAssumption DEF RowsAfter
      <4> QED BY <4>1, <4>2
    <3> HIDE DEF SaidOnce
    <3> QED BY <1>1, <1>4, <1>5, <2>2, <3>1, <3>2, <3>3 DEF PageOK
  <2>4. WalkOK' BY <2>2, <2>3 DEF WalkOK
  <2>5. ASSUME NEW c \in Cards PROVE CardOK(c)'
    <3>1. \A s \in DOMAIN tasks : Done(s) => Done(s)' BY <1>1 DEF Done
    <3>2. Watched(c)' => Watched(c) BY <1>1, <2>2 DEF Watched, Walking
    <3> QED BY <1>1, <1>7, <3>1, <3>2, Watching
  <2> HIDE DEF OutboxInv, InHand, WalkOK, CardOK
  <2> QED BY <1>7, <1>8, <2>4, <2>5 DEF ReindexInv
<1> QED BY <1>9, <1>10

-----------------------------------------------------------------------------
LEMMA ReindexBeginning == InitReindex => ReindexInv
<1> SUFFICES ASSUME InitReindex PROVE ReindexInv OBVIOUS
<1>1. /\ db \in [Cards -> {NoDoc, 1}] /\ index = [c \in Cards |-> NoDoc]
      /\ event \in [EventIds -> {[status |-> "none", card |-> c, task |-> NoTask,
                                  leased |-> FALSE] : c \in Cards}]
      /\ worker = [w \in Workers |-> Idle] /\ tasks = << >> /\ walk = NotWalking
  BY DEF InitReindex
<1>2. db \in [Cards -> Nat] BY <1>1 DEF NoDoc
<1>3. index \in [Cards -> Nat] BY <1>1 DEF NoDoc
<1>4. OutboxInv BY <1>1, <1>2, <1>3, BeginningFrom
<1>5. /\ \A v \in Workers : DOMAIN worker[v].groups = {}
      /\ walk.phase = "off" /\ \A c \in Cards : EventsOf(c) = {}
  <2>1. \A e \in EventIds : event[e].status = "none" BY <1>1
  <2> QED BY <1>1, <2>1 DEF Idle, NotWalking, EventsOf
<1>6. InHand BY <1>5 DEF InHand, Held
<1>7. WalkOK BY <1>1, <1>5, NoWalk DEF WalkOK
<1>8. \A c \in Cards : ~Watched(c) BY <1>5 DEF Watched, Walking
<1> HIDE DEF OutboxInv, InHand, WalkOK, EventsOf
<1> QED BY <1>4, <1>5, <1>6, <1>7, <1>8 DEF ReindexInv, CardOK

LEMMA ReindexStep ==
    SingleWorker /\ ReindexInv /\ [NextReindex]_reindexVars => ReindexInv'
<1> SUFFICES ASSUME SingleWorker, ReindexInv, [NextReindex]_reindexVars PROVE ReindexInv'
  OBVIOUS
<1>1. CASE StartWalk BY <1>1, StartWalkHolds
<1>2. CASE ReadPage BY <1>2, ReadPageHolds
<1>3. CASE SubmitPage BY <1>3, SubmitPageHolds
<1>4. CASE WaitPage BY <1>4, WaitPageHolds
<1>5. CASE EndsEarly BY <1>5, EndsEarlyHolds
<1>6. CASE OutboxStep BY <1>6, OutboxBeside
<1>7. CASE UNCHANGED reindexVars
  <2>1. UNCHANGED vars /\ walk' = walk /\ crossed' = crossed /\ OutboxInv
    BY <1>7 DEF reindexVars, ReindexInv
  <2>2. OutboxInv' /\ Quiet BY <2>1, StutterHolds
  <2>3. Shape
    <3>1. Types' BY <2>2 DEF OutboxInv
    <3> QED BY <2>1, <3>1, StutterShape
  <2> QED BY <2>1, <2>2, <2>3, QuietReindex
<1> QED BY <1>1, <1>2, <1>3, <1>4, <1>5, <1>6, <1>7 DEF NextReindex

(* With a single worker, for any number of cards, pages and runs, and any  *)
(* crashes, failures and writes beside it: a reindex command that returned *)
(* leaves every row that was not written under it in the index as it is,   *)
(* or with an event that will be worked on.                                *)
THEOREM Covers ==
    ASSUME SingleWorker
    PROVE  SpecReindex => []ReindexCovers
<1>1. ReindexInv => ReindexCovers
  <2> SUFFICES ASSUME ReindexInv, walk.phase = "done", NEW c \in Cards \ crossed,
                      db[c] # NoDoc, \A e \in EventsOf(c) : event[e].status \notin Unsettled
               PROVE  index[c] = db[c]
    BY DEF ReindexCovers
  <2>1. OutboxInv /\ Types /\ TasksOK /\ CardOK(c) /\ IndexOK(c)
    BY DEF ReindexInv, OutboxInv
  <2>2. Watched(c) BY DEF Watched
  <2>3. Covered(c)
    <3>1. ASSUME NEW e \in EventsOf(c), LastSeen(e, c) PROVE Covered(c)
      <4>1. e \in EventIds /\ event[e].status # "none" BY DEF EventsOf
      <4>2. event[e].status \in Statuses BY <2>1, <4>1 DEF Types, Rows
      <4>3. event[e].status = "succeeded" BY <4>1, <4>2 DEF Statuses, Unsettled
      <4> QED BY <2>2, <3>1, <4>3 DEF LastSeen
    <3> HIDE DEF EventsOf, LastSeen, Covered, Watched
    <3> QED BY <2>1, <2>2, <3>1 DEF CardOK
  <2>4. PICK s \in DOMAIN tasks : tasks[s].status = "succeeded" /\ Settles(c, s)
    BY <2>3 DEF Covered, Done
  <2>5. s \in Made(c) BY <2>4 DEF Made, Settles, Current
  <2>6. PICK v \in Made(c) : index[c] = tasks[v].docs[c] /\ \A u \in Made(c) : u <= v
    <3> HIDE DEF Made
    <3> QED BY <2>1, <2>5 DEF IndexOK
  <2>7. v \in DOMAIN tasks /\ c \in DOMAIN tasks[v].docs BY DEF Made
  <2>8. s \in Nat /\ v \in Nat /\ s <= v BY <2>1, <2>5, <2>6, <2>7, TaskTypes
  <2>9. CASE s = v BY <2>4, <2>6, <2>9 DEF Settles, Current
  <2>10. CASE s # v
    <3>1. v > s BY <2>8, <2>10
    <3> QED BY <2>4, <2>6, <2>7, <3>1 DEF Settles
  <2> QED BY <2>9, <2>10
<1> QED BY <1>1, ReindexBeginning, ReindexStep, PTL DEF SpecReindex
=============================================================================
