------------------------------ MODULE Backfill ------------------------------
(***************************************************************************)
(* The schedule commands (backfill-missing, refresh-all): they walk the    *)
(* catalogue in batches, give the jobs of each batch one available_at, and *)
(* keep their progress in a checkpoint file so that an interrupted run can *)
(* be resumed.                                                             *)
(*                                                                         *)
(*   src/src/core/services/scraper/backfill.py   run_scrape_schedule       *)
(*                                                                         *)
(* The enqueue is a database transaction and the checkpoint an atomic file *)
(* replacement: two steps, and the process may die between them.           *)
(***************************************************************************)
EXTENDS Integers, FiniteSets, FiniteSetsExt

CONSTANTS
    Catalogue,    \* number of cards; their ids are 1 .. Catalogue
    BatchSize,    \* config.batch_size
    MinGap,       \* config.min_interval_minutes
    MaxGap,       \* config.max_interval_minutes
    Modes,        \* options a run may be given
    MaxTime,      \* bound on the clock
    MaxRuns,      \* bound on fresh walks of the catalogue
    MaxErrors,    \* bound on exceptions inside a run
    MaxCrashes    \* bound on deaths of the process

ASSUME BackfillAssumption ==
    /\ {Catalogue, MaxTime, MaxErrors, MaxCrashes} \subseteq Nat
    /\ {BatchSize, MaxRuns} \subseteq Nat \ {0}
    /\ MinGap \in Nat \ {0}
    /\ MaxGap \in Nat
    /\ MinGap <= MaxGap
    /\ Modes \subseteq {"missing", "all", "all_disabled"}

VARIABLES
    now,       \* the clock
    card,      \* what PostgreSQL knows of each card
    file,      \* the checkpoint on disk
    proc,      \* the running command: its phase and its copy of the state
    latest,    \* the latest batch that created jobs: its run, its available_at,
               \* and whether a checkpoint was written since
    excused,   \* cards some batch took, or a query could leave out
    errors,
    crashes

vars == <<now, card, file, proc, latest, excused, errors, crashes>>

Cards == 1 .. Catalogue

(* missing: enabled, no listing, no active job; listed: the same, with     *)
(* listings or a refresh in the future.                                    *)
CardStates == {"missing", "listed", "active", "disabled"}

NoTime == -1

NoFile == [version |-> 4, status |-> "none", run |-> 0, mode |-> "none",
           last |-> 0, next |-> 0]

(* A checkpoint that version 2 of the command left: where the others keep  *)
(* the time of the next batch it keeps that of its latest job, if any.     *)
OldFile(last, latestJob) ==
    [version |-> 2, status |-> "failed", run |-> 1, mode |-> "missing",
     last |-> last, next |-> latestJob]

NoBatch == [run |-> 0, at |-> 0, saved |-> TRUE]

Off == [phase |-> "off", state |-> NoFile, found |-> {}, at |-> 0]

(* WHERE of build_cards_statement.                                         *)
Wanted(mode) == CASE mode = "missing" -> {"missing"}
                  [] mode = "all" -> {"missing", "listed"}
                  [] OTHER -> CardStates \ {"active"}

Eligible(mode) == {c \in Cards : card[c] \in Wanted(mode)}

Init ==
    /\ now = 0
    /\ card \in [Cards -> CardStates]
    /\ proc = Off
    /\ \/ /\ file = NoFile
          /\ latest = NoBatch
          /\ excused = {}
       \/ \E last \in Cards, latestJob \in {NoTime, MaxTime} :
             /\ file = OldFile(last, latestJob)
             /\ latest = IF latestJob = NoTime THEN NoBatch
                         ELSE [run |-> 1, at |-> latestJob, saved |-> TRUE]
             /\ excused = (1 .. last) \cup (Cards \ Eligible("missing"))
    /\ errors = 0
    /\ crashes = 0

(* BackfillState.new, written at once; the run has nobody excused yet but  *)
(* the cards its query would leave out now.                                *)
NewRun(mode) ==
    LET state == [version |-> 4, status |-> "running", run |-> file.run + 1, mode |-> mode,
                  last |-> 0, next |-> now] IN
    /\ file.run < MaxRuns
    /\ file' = state
    /\ proc' = [Off EXCEPT !.phase = "find", !.state = state]
    /\ excused' = Cards \ Eligible(mode)

(* Mutant: the time of the latest job is taken for that of the next batch. *)
FromDictUnspaced(state) ==
    IF state.version = 2 /\ state.next # NoTime
    THEN [state EXCEPT !.version = 4]
    ELSE [state EXCEPT !.version = 4, !.next = IF @ = NoTime THEN 0 ELSE @]

(* from_dict: an old checkpoint goes on after its latest job, or from when *)
(* it was written.                                                         *)
FromDict(state) ==
    [state EXCEPT !.version = 4,
                  !.next = IF state.version = 4 THEN @
                           ELSE IF @ = NoTime THEN 0
                           ELSE @ + MaxGap]

Resumed == [FromDict(file) EXCEPT !.status = "running"]

(* _load_or_create_state under the file lock, which lets one command run.  *)
(* Different options without --restart raise before anything is written.   *)
Start(mode, restart) ==
    /\ proc.phase = "off"
    /\ \/ /\ file.status \in {"none", "completed"} \/ restart
          /\ NewRun(mode)
       \/ /\ file.status \notin {"none", "completed"}
          /\ ~restart
          /\ file.mode = mode
          /\ file' = Resumed
          /\ proc' = [Off EXCEPT !.phase = "find", !.state = Resumed]
          /\ UNCHANGED excused
    /\ UNCHANGED <<now, card, latest, errors, crashes>>

(* ORDER BY id LIMIT batch_size, after the cursor.                         *)
NextCards(state) ==
    LET ahead == {c \in Eligible(state.mode) : c > state.last} IN
    {c \in ahead : Cardinality({d \in ahead : d < c}) < BatchSize}

FindCards ==
    LET found == NextCards(proc.state) IN
    /\ proc.phase = "find"
    /\ IF found = {}
       THEN /\ file' = [proc.state EXCEPT !.status = "completed"]
            /\ proc' = Off
       ELSE /\ proc' = [proc EXCEPT !.phase = "enqueue", !.found = found,
                                    !.at = Max({now, proc.state.next})]
            /\ UNCHANGED file
    /\ UNCHANGED <<now, card, latest, excused, errors, crashes>>

(* enqueue_card_batch and its commit: a card that got an active job        *)
(* meanwhile keeps it, a target disabled meanwhile is skipped.             *)
Enqueue ==
    LET created == {c \in proc.found :
                      \/ card[c] \in {"missing", "listed"}
                      \/ card[c] = "disabled" /\ proc.state.mode = "all_disabled"}
    IN
    /\ proc.phase = "enqueue"
    /\ card' = [c \in Cards |-> IF c \in created THEN "active" ELSE card[c]]
    /\ latest' = IF created = {} THEN latest
                 ELSE [run |-> proc.state.run, at |-> proc.at, saved |-> FALSE]
    /\ excused' = excused \cup proc.found
    /\ proc' = [proc EXCEPT !.phase = "save"]
    /\ UNCHANGED <<now, file, errors, crashes>>

(* Mutant: the next batch is counted from now.                             *)
AdvancedFromNow(gap) ==
    [proc.state EXCEPT !.last = Max(proc.found), !.next = now + gap]

(* Mutant: the cursor is left on the card after the batch.                 *)
AdvancedPast(gap) ==
    [proc.state EXCEPT !.last = Max(proc.found) + 1, !.next = proc.at + gap]

(* Mutant: the checkpoint is left as it was: cards with an active job are  *)
(* skipped anyway.                                                         *)
AdvancedNowhere(gap) == proc.state

Advanced(gap) ==
    [proc.state EXCEPT !.last = Max(proc.found), !.next = proc.at + gap]

SaveCheckpoint(gap) ==
    /\ proc.phase = "save"
    /\ file' = Advanced(gap)
    /\ proc' = [Off EXCEPT !.phase = "find", !.state = Advanced(gap)]
    /\ latest' = [latest EXCEPT !.saved = TRUE]
    /\ UNCHANGED <<now, card, excused, errors, crashes>>

(* An exception before the commit, or a write of the checkpoint that fails *)
(* once: the handler writes the state it has in memory.                    *)
Fail ==
    /\ proc.phase # "off"
    /\ errors < MaxErrors
    /\ errors' = errors + 1
    /\ IF proc.phase = "save"
       THEN /\ \E gap \in MinGap .. MaxGap :
                  file' = [Advanced(gap) EXCEPT !.status = "failed"]
            /\ latest' = [latest EXCEPT !.saved = TRUE]
       ELSE /\ file' = [proc.state EXCEPT !.status = "failed"]
            /\ UNCHANGED latest
    /\ proc' = Off
    /\ UNCHANGED <<now, card, excused, crashes>>

(* What separates the commit from the checkpoint: the process dies and no  *)
(* handler runs, or an exception (closing the session, a cancellation, an  *)
(* answer to COMMIT that is lost) comes before the state is advanced, and  *)
(* the handler writes the old one. The system drops the lock.              *)
Crash ==
    /\ proc.phase # "off"
    /\ crashes < MaxCrashes
    /\ crashes' = crashes + 1
    /\ proc' = Off
    /\ \E status \in {"failed", file.status} :
          file' = [file EXCEPT !.status = status]
    /\ UNCHANGED <<now, card, latest, excused, errors>>

(* Searches, the worker, operators and the other command, which has a      *)
(* checkpoint and a lock of its own, change cards meanwhile. A card a      *)
(* query could have left out is excused from the run.                      *)
CardChanges(c) ==
    /\ \E state \in CardStates :
        /\ <<card[c], state>> \in {<<"missing", "active">>, <<"listed", "active">>,
                                   <<"listed", "missing">>, <<"active", "missing">>,
                                   <<"active", "listed">>, <<"active", "disabled">>,
                                   <<"disabled", "missing">>, <<"disabled", "active">>}
        /\ card' = [card EXCEPT ![c] = state]
        /\ excused' = IF state \in Wanted(file.mode) THEN excused
                      ELSE excused \cup {c}
    /\ UNCHANGED <<now, file, proc, latest, errors, crashes>>

Tick ==
    /\ now < MaxTime
    /\ now' = now + 1
    /\ UNCHANGED <<card, file, proc, latest, excused, errors, crashes>>

CommandStep ==
    \/ FindCards
    \/ Enqueue
    \/ \E gap \in MinGap .. MaxGap : SaveCheckpoint(gap)

Next ==
    \/ \E mode \in Modes, restart \in BOOLEAN : Start(mode, restart)
    \/ CommandStep
    \/ Fail
    \/ Crash
    \/ \E c \in Cards : CardChanges(c)
    \/ Tick

Spec == Init /\ [][Next]_vars

(* A command that runs goes on; whoever started it does not give up on it. *)
FairSpec == Spec /\ WF_vars(CommandStep)
                 /\ WF_vars(\E mode \in Modes : mode = file.mode /\ Start(mode, FALSE))

(***************************************************************************)
(* Properties                                                              *)
(***************************************************************************)
(* Every variable has its type.                                            *)
Checkpoint == [version : {2, 4}, status : {"none", "running", "failed", "completed"},
               run : 0 .. MaxRuns, mode : Modes \cup {"missing", "none"},
               last : 0 .. Catalogue, next : Nat \cup {NoTime}]

TypeOK ==
    /\ now \in 0 .. MaxTime
    /\ card \in [Cards -> CardStates]
    /\ file \in Checkpoint
    /\ proc \in [phase : {"off", "find", "enqueue", "save"},
                 state : Checkpoint, found : SUBSET Cards, at : Nat]
    /\ latest \in [run : 0 .. MaxRuns, at : Nat, saved : BOOLEAN]
    /\ excused \subseteq Cards
    /\ errors \in 0 .. MaxErrors /\ crashes \in 0 .. MaxCrashes

(* The checkpoint never runs ahead of the database: a card behind the      *)
(* cursor was in a committed batch of the run, or there was a moment of    *)
(* the run at which its query could leave it out.                          *)
NothingPassedOver ==
    \A c \in Cards : c <= file.last => c \in excused

(* Batches of one run that create jobs are at least the minimum interval   *)
(* apart: the store is visited spread over time, whatever fails and is     *)
(* resumed in between. A process that dies after a batch is committed and  *)
(* before the checkpoint says so costs the batch after that one, and no    *)
(* later one, its distance, and even that one does not come before it.    *)
BatchesSpaced ==
    [][ /\ proc.phase = "enqueue"
        /\ proc'.phase = "save"
        /\ card' # card
        /\ latest.run = proc.state.run
        => latest'.at >= latest.at + (IF latest.saved THEN MinGap ELSE 0) ]_vars

(* A run that keeps being resumed comes to its end.                        *)
RunEnds == (file.status = "running") ~> (file.status = "completed")
=============================================================================
