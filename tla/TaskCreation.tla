----------------------------- MODULE TaskCreation -----------------------------
(***************************************************************************)
(* TaskService.Create over the SQLite store, and the abort that undoes it: *)
(* failCreate of internal/core/service.go and the two Delete methods of    *)
(* sqlitestore/store.go and fsstore/store.go.                              *)
(*                                                                         *)
(* The task is visible to other processes from the first write of Create   *)
(* on, so the processes of TaskService are at work while it goes on.  The  *)
(* planning of the contract (routing, NewContract, Start) and a dry run    *)
(* touch nothing shared and end before the first step here.                *)
(***************************************************************************)
EXTENDS TaskService

VARIABLES
    creator,    \* the step Create is at; its abort's snapshot and first error
    briefing,   \* whether BRIEFING.md is in the task's directory
    outcome,    \* what Create answered
    touched     \* history: another process has changed the task

creation == <<creator, briefing, outcome, touched>>
everything == <<vars, creation>>

\* What Create leaves alone of the other processes.
workers == <<proc, clock, requested, granted, acked>>

CreatorSteps ==
    {"save", "copy", "prune", "briefing", "created", "started",
     "snapshot", "buckets", "artifacts", "transaction", "restore", "tidy", "over"}

TaskCreated == [kind |-> "task.created", key |-> {}]
TaskStarted == [kind |-> "task.started", key |-> {}]

Doing(label) == creator.pc = label
Proceed(label) == creator' = [creator EXCEPT !.pc = label] /\ UNCHANGED outcome
Answer(result) == creator' = [creator EXCEPT !.pc = "over"] /\ outcome' = result

-------------------------------------------------------------------------------
\* A fresh task_id: no row, no file, no event carries it.
CreationInit ==
    /\ row = Absent /\ mirror = [b \in Buckets |-> Absent]
    /\ timeline = {} /\ opinions = {} /\ granted = {} /\ acked = {}
    /\ proc = [p \in Procs |-> Resting]
    /\ clock = 0 /\ requested = 0
    /\ creator = [pc |-> "save", snapshot |-> Absent, failed |-> FALSE]
    /\ briefing = FALSE /\ outcome = "none" /\ touched = FALSE

\* sqlitestore.Save: the row, then the mirror as best it can.
SaveRow ==
    /\ Doing("save")
    /\ row' = Started
    /\ Proceed("copy")
    /\ UNCHANGED <<mirror, timeline, opinions, workers, briefing, touched>>

SaveCopy ==
    /\ Doing("copy")
    /\ mirror' = [mirror EXCEPT !["active"] = Started]
    /\ Proceed("prune")
    /\ UNCHANGED <<row, timeline, opinions, workers, briefing, touched>>

\* fsstore.Save removes the other buckets' copies, failures ignored.
SavePrune ==
    /\ Doing("prune")
    /\ \E kept \in (IF MayFail THEN SUBSET Buckets ELSE {{}}) :
         mirror' = [b \in Buckets |->
            IF b = "active" \/ b \in kept THEN mirror[b] ELSE Absent]
    /\ Proceed("briefing")
    /\ UNCHANGED <<row, timeline, opinions, workers, briefing, touched>>

WriteBriefing ==
    /\ Doing("briefing")
    /\ briefing' = TRUE
    /\ Proceed("created")
    /\ UNCHANGED <<stored, workers, touched>>

EmitCreated ==
    /\ Doing("created")
    /\ timeline' = timeline \cup {TaskCreated}
    /\ Proceed("started")
    /\ UNCHANGED <<row, mirror, opinions, workers, briefing, touched>>

EmitStarted ==
    /\ Doing("started")
    /\ timeline' = timeline \cup {TaskStarted}
    /\ Answer("created")
    /\ UNCHANGED <<row, mirror, opinions, workers, briefing, touched>>

-------------------------------------------------------------------------------
(* failCreate: Store.Delete. *)

\* The contract Delete could put back: the row, or else the first file.
TakeSnapshot ==
    /\ Doing("snapshot")
    /\ creator' = [creator EXCEPT !.pc = "buckets",
                                  !.snapshot = IF Exists(row) THEN row ELSE FirstCopy]
    /\ UNCHANGED <<stored, workers, briefing, outcome, touched>>

\* fsstore.Delete, first half: the file of every bucket; a remove may fail.
DeleteCopies ==
    /\ Doing("buckets")
    /\ \E stuck \in (IF MayFail THEN SUBSET {b \in Buckets : Exists(mirror[b])} ELSE {{}}) :
         /\ mirror' = [b \in Buckets |-> IF b \in stuck THEN mirror[b] ELSE Absent]
         /\ creator' = [creator EXCEPT !.pc = "artifacts", !.failed = stuck # {}]
    /\ UNCHANGED <<row, timeline, opinions, workers, briefing, outcome, touched>>

\* Mutant of AfterFiles: a file that cannot be removed is passed over.
AfterFilesBestEffort(failed) == Proceed("transaction")

\* The first error is kept, and returned when the whole tree has been tried.
AfterFiles(failed) == IF failed THEN Answer("abort failed") ELSE Proceed("transaction")

\* fsstore.Delete, second half: RemoveAll of the task's directory.
DeleteArtifacts ==
    /\ Doing("artifacts")
    /\ \E left \in (IF MayFail THEN SUBSET opinions ELSE {{}}),
         kept \in (IF MayFail THEN {FALSE, briefing} ELSE {FALSE}) :
         /\ opinions' = left /\ briefing' = kept
         /\ AfterFiles(creator.failed \/ left # {} \/ kept)
    /\ UNCHANGED <<row, mirror, timeline, workers, touched>>

\* Mutant of DeletedRow: a soft delete.
MarkedRow == [row EXCEPT !.state = "deleted"]

DeletedRow == Absent

\* Mutant of DeleteRows: the events go in a transaction of their own.
DeleteEventsFirst ==
    /\ Doing("transaction")
    /\ timeline' = {}
    /\ IF timeline = {} THEN row' = Absent /\ Answer("aborted")
                        ELSE UNCHANGED <<row, creator, outcome>>
    /\ UNCHANGED <<mirror, opinions, workers, briefing, touched>>

\* The events and the row in one transaction.
DeleteRows ==
    /\ Doing("transaction")
    /\ timeline' = {} /\ row' = DeletedRow
    /\ Answer("aborted")
    /\ UNCHANGED <<mirror, opinions, workers, briefing, touched>>

\* restoreFSMirror: fsstore.Save of the snapshot, when there is one.
Restore ==
    /\ Doing("restore")
    /\ IF Exists(creator.snapshot)
         THEN /\ mirror' = [mirror EXCEPT ![BucketOf(creator.snapshot.state)] = creator.snapshot]
              /\ Proceed("tidy")
         ELSE Answer("abort failed") /\ UNCHANGED mirror
    /\ UNCHANGED <<row, timeline, opinions, workers, briefing, touched>>

Tidy ==
    /\ Doing("tidy")
    /\ \E kept \in (IF MayFail THEN SUBSET Buckets ELSE {{}}) :
         mirror' = [b \in Buckets |->
            IF b = BucketOf(creator.snapshot.state) \/ b \in kept THEN mirror[b] ELSE Absent]
    /\ Answer("abort failed")
    /\ UNCHANGED <<row, timeline, opinions, workers, briefing, touched>>

-------------------------------------------------------------------------------
\* Mutant of OnFailure: a task without its briefing is good enough.
OnFailureNoBriefing ==
    CASE Doing("copy") \/ Doing("briefing") -> Proceed("created")
      [] Doing("created") \/ Doing("started") -> Proceed("snapshot")
      [] Doing("transaction") -> Proceed("restore")
      [] Doing("save") -> Answer("refused")
      [] OTHER -> Answer("abort failed")

\* Where a write that fails leads: a mirror that cannot be written is ignored,
\* a briefing or an event that cannot be written aborts the creation, and a
\* delete that cannot be committed puts the mirror back.
OnFailure ==
    CASE Doing("copy") -> Proceed("briefing")
      [] Doing("briefing") \/ Doing("created") \/ Doing("started") -> Proceed("snapshot")
      [] Doing("transaction") -> Proceed("restore")
      [] Doing("save") -> Answer("refused")
      [] OTHER -> Answer("abort failed")

WriteFails ==
    /\ MayFail
    /\ creator.pc \in {"save", "copy", "briefing", "created", "started",
                       "snapshot", "artifacts", "transaction", "restore"}
    /\ OnFailure
    /\ UNCHANGED <<stored, workers, briefing, touched>>

\* The creating process dies: nobody is answered and nothing is undone.
CreatorDies ==
    /\ MayFail /\ ~Doing("over")
    /\ Answer("none")
    /\ UNCHANGED <<stored, workers, briefing, touched>>

CreatorStep ==
    \/ SaveRow \/ SaveCopy \/ SavePrune \/ WriteBriefing \/ EmitCreated \/ EmitStarted
    \/ TakeSnapshot \/ DeleteCopies \/ DeleteArtifacts \/ DeleteRows \/ Restore \/ Tidy
    \/ WriteFails \/ CreatorDies

WorkerStep ==
    /\ \E p \in Procs : Step(p)
    /\ touched' = (touched \/ stored' # stored)
    /\ UNCHANGED <<creator, briefing, outcome>>

CreationNext == CreatorStep \/ WorkerStep

CreationSpec == CreationInit /\ [][CreationNext]_everything

-------------------------------------------------------------------------------
\* Types of the creator's state and of what it stores.
CreationTypeOK ==
    /\ creator \in [pc: CreatorSteps, snapshot: Contract, failed: BOOLEAN]
    /\ outcome \in {"none", "created", "refused", "aborted", "abort failed"}
    /\ briefing \in BOOLEAN /\ touched \in BOOLEAN
    /\ row \in Contract /\ mirror \in [Buckets -> Contract]
    /\ timeline \subseteq EventIds \cup {TaskCreated, TaskStarted}

\* A task whose creation was reported as successful is whole, whatever writes
\* failed on the way and whoever already works on it: the row, the briefing and
\* the two events that open its timeline.
CreationComplete ==
    outcome = "created" =>
        /\ Exists(row) /\ briefing
        /\ {TaskCreated, TaskStarted} \subseteq timeline

\* A creation reported as failed for its first error leaves nothing behind that a
\* lookup could find, as long as no other process has changed the task; when
\* something may be left, the answer is STATE.CREATE_ABORT_FAILED instead.
AbortLeavesNothing ==
    outcome = "aborted" /\ ~touched =>
        /\ ~Exists(row) /\ \A b \in Buckets : ~Exists(mirror[b])
        /\ timeline = {} /\ opinions = {} /\ ~briefing

\* A verdict given to a task while it is being created is in its row together with
\* its event, for as long as no abort has taken the task away: a process that loaded
\* the task before that may still write its copy of the verdict back afterwards.
VerdictHasEvent == outcome # "aborted" => TimelineMatchesRow
===============================================================================
