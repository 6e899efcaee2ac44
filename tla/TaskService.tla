------------------------------ MODULE TaskService ------------------------------
(***************************************************************************)
(* The application service of internal/core/service.go and consultation.go *)
(* over the SQLite store of internal/adapters/sqlitestore, for one task.   *)
(*                                                                         *)
(* Every CLI invocation and the MCP server is a process of its own over    *)
(* one runtime.db and one .arah/local/execution tree, so a request is a    *)
(* sequence of steps that other processes interleave with.  The steps are  *)
(* the accesses to what is shared: one SQLite statement or transaction, or *)
(* one write under execution/.  What a handler computes between two of     *)
(* them touches only its own copy of the contract.                         *)
(*                                                                         *)
(* The task exists when the model starts, in the database and its mirror   *)
(* or, when the PowerShell runtime created it, in the mirror alone.        *)
(* Creating and deleting it is the subject of TaskCreation.                *)
(***************************************************************************)
EXTENDS ExecutionContract

CONSTANTS
    Procs,         \* CLI invocations and MCP servers
    Requests,      \* the requests callers make
    Opinions,      \* consultation ids (newConsultationID)
    NoOpinion,     \* no consultation id drawn yet
    MayFail,       \* whether a store access may fail and a process may die
    MaxRequests    \* bound on the requests of one behaviour

Buckets == {"active", "completed", "blocked"}

Request ==
    [kind: {"complete", "block", "consult", "status", "list"},
     evidence: SUBSET Evidence, reason: Reasons \cup {NoReason},
     agent: Agents, bucket: Buckets, dryRun: BOOLEAN]

\* Only Complete and Block can be rehearsed.
ASSUME ServiceAssumption ==
    /\ Requests \subseteq Request
    /\ \A r \in Requests : r.dryRun => r.kind \in {"complete", "block"}
    /\ NoOpinion \notin Opinions
    /\ MayFail \in BOOLEAN
    /\ MaxRequests \in Nat

VARIABLES
    row,        \* the tasks row: a contract, or Absent
    mirror,     \* the YAML files: a contract, or Absent, in each bucket
    timeline,   \* task_events, by event id (INSERT OR IGNORE on a unique id)
    opinions,   \* consultation files under <task>/consultations
    proc,       \* what each process is doing
    clock,      \* logical time of the last history entry
    requested,  \* requests made so far
    granted,    \* history: consultation slots taken and not given back
    acked       \* history: mutations whose caller was told they succeeded

vars == <<row, mirror, timeline, opinions, proc, clock, requested, granted, acked>>
stored == <<row, mirror, timeline, opinions>>

-------------------------------------------------------------------------------
Labels == {"idle", "row", "mirror", "reconcile", "decide", "ensure", "apply",
           "copy", "prune", "reply", "reserve", "opinion", "emit", "remove", "release"}

\* What a process holds: where it is, what it was asked, its copy of the
\* contract, its consultation id and where to go once the mirror is written.
Process ==
    [pc: Labels, req: Requests, con: Contract, opn: Opinions \cup {NoOpinion}, ret: Labels]

Resting == [pc |-> "idle"]

At(p, label) == proc[p].pc = label
Goto(p, label) == proc' = [proc EXCEPT ![p].pc = label]
GotoWith(p, label, c) == proc' = [proc EXCEPT ![p].pc = label, ![p].con = c]
Return(p) == proc' = [proc EXCEPT ![p] = Resting]

\* The stable ids of mutationEventID, and the event of one consultation.
Completed(evidence) == [kind |-> "task.completed", key |-> evidence]
Blocked(reason) == [kind |-> "task.blocked", key |-> reason]
Submitted(o) == [kind |-> "consultation.submitted", key |-> o]

EventOf(r) == IF r.kind = "complete" THEN Completed(r.evidence) ELSE Blocked(r.reason)

BucketOf(state) ==
    CASE state = "done" -> "completed" [] state = "blocked" -> "blocked" [] OTHER -> "active"

\* fsstore.Get scans active, completed and blocked in that order.
FirstCopy ==
    CASE Exists(mirror["active"]) -> mirror["active"]
      [] Exists(mirror["completed"]) -> mirror["completed"]
      [] OTHER -> mirror["blocked"]

-------------------------------------------------------------------------------
Init ==
    /\ row \in {Started, Absent}
    /\ mirror = [b \in Buckets |-> IF b = "active" THEN Started ELSE Absent]
    /\ timeline = {} /\ opinions = {} /\ granted = {} /\ acked = {}
    /\ proc = [p \in Procs |-> Resting]
    /\ clock = 0 /\ requested = 0

Begin(p) ==
    /\ At(p, "idle") /\ requested < MaxRequests
    /\ requested' = requested + 1
    /\ \E r \in Requests :
         proc' = [proc EXCEPT ![p] =
            [pc |-> "row", req |-> r, con |-> Absent, opn |-> NoOpinion, ret |-> "idle"]]
    /\ UNCHANGED <<row, mirror, timeline, opinions, clock, granted, acked>>

\* sqlitestore.get, first half: the row; List only sees the rows of its bucket.
LoadRow(p) ==
    /\ At(p, "row")
    /\ LET r == proc[p].req
           seen == IF r.kind = "list" /\ BucketOf(row.state) # r.bucket THEN Absent ELSE row
       IN  GotoWith(p, "mirror", seen)
    /\ UNCHANGED <<stored, clock, requested, granted, acked>>

\* Mutant of OnMirror: Peek reconciles like Get.
AlwaysReconcile(r) == "reconcile"

\* Get puts a fresher mirror copy back into the row, Peek does not.
OnMirror(r) == IF r.dryRun THEN "decide" ELSE "reconcile"

\* sqlitestore.get, second half: the mirror, and the choice between the copies.
\* A mirror that cannot be read is treated as missing.
LoadMirror(p) ==
    /\ At(p, "mirror")
    /\ LET r  == proc[p].req
           db == proc[p].con
           mine == IF r.kind = "list" THEN mirror[r.bucket] ELSE FirstCopy
       IN  \E fs \in {mine} \cup (IF MayFail THEN {Absent} ELSE {}) :
             \/ /\ ~Exists(db) /\ (~Exists(fs) \/ r.kind = "list")
                /\ Return(p)
             \/ /\ ~Exists(db) /\ Exists(fs) /\ r.kind # "list"
                /\ GotoWith(p, "decide", fs)
             \/ /\ Exists(db) /\ PreferMirror(db, fs)
                /\ GotoWith(p, OnMirror(r), fs)
             \/ /\ Exists(db) /\ ~PreferMirror(db, fs)
                /\ GotoWith(p, "decide", db)
    /\ UNCHANGED <<stored, clock, requested, granted, acked>>

\* The fresher mirror copy goes back into the row by an unconditional upsert.
Reconcile(p) ==
    /\ At(p, "reconcile")
    /\ row' = proc[p].con
    /\ Goto(p, "decide")
    /\ UNCHANGED <<mirror, timeline, opinions, clock, requested, granted, acked>>

-------------------------------------------------------------------------------
\* The handlers of TaskService, on the copy they loaded.
AlreadyDone(p) ==
    LET r == proc[p].req
    IN  \/ r.kind = "complete" /\ AlreadyCompleted(proc[p].con, r.evidence)
        \/ r.kind = "block" /\ AlreadyBlocked(proc[p].con, r.reason)

MayApply(p) ==
    LET r == proc[p].req
    IN  \/ r.kind = "complete" /\ MayComplete(proc[p].con, r.evidence)
        \/ r.kind = "block" /\ MayBlock(proc[p].con, r.reason)

Planned(p) ==
    LET r == proc[p].req
    IN  IF r.kind = "complete" THEN Complete(proc[p].con, r.evidence, clock + 1)
                               ELSE Block(proc[p].con, r.reason, clock + 1)

MayAsk(p) == proc[p].req.kind = "consult" /\ MayConsult(proc[p].con, proc[p].req.agent)

\* Complete or Block of a task that already has this verdict.
Recognise(p) ==
    /\ At(p, "decide") /\ AlreadyDone(p) /\ ~proc[p].req.dryRun
    /\ Goto(p, "ensure")
    /\ UNCHANGED <<stored, clock, requested, granted, acked>>

\* Mutant of Plan: the mirror is written before the transaction.
PlanMirrorFirst(p) ==
    /\ At(p, "decide") /\ ~AlreadyDone(p) /\ MayApply(p) /\ ~proc[p].req.dryRun
    /\ clock' = clock + 1
    /\ proc' = [proc EXCEPT ![p].pc = "copy", ![p].con = Planned(p), ![p].ret = "apply"]
    /\ UNCHANGED <<stored, requested, granted, acked>>

\* Complete or Block: the new contract is computed on the handler's own copy.
Plan(p) ==
    /\ At(p, "decide") /\ ~AlreadyDone(p) /\ MayApply(p) /\ ~proc[p].req.dryRun
    /\ clock' = clock + 1
    /\ GotoWith(p, "apply", Planned(p))
    /\ UNCHANGED <<stored, requested, granted, acked>>

\* SubmitConsultation: the checks made before the slot is reserved.
Admit(p) ==
    /\ At(p, "decide") /\ MayAsk(p)
    /\ Goto(p, "reserve")
    /\ UNCHANGED <<stored, clock, requested, granted, acked>>

\* A status or list request, a dry run, and every refusal, end here.
Conclude(p) ==
    /\ At(p, "decide")
    /\ ~MayAsk(p)
    /\ proc[p].req.dryRun \/ ~(AlreadyDone(p) \/ MayApply(p))
    /\ Return(p)
    /\ UNCHANGED <<stored, clock, requested, granted, acked>>

-------------------------------------------------------------------------------
\* Mutant of Ensure: a retry is answered without looking at the timeline.
EnsureNothing(p) ==
    /\ At(p, "ensure")
    /\ acked' = acked \cup {EventOf(proc[p].req)}
    /\ Return(p)
    /\ UNCHANGED <<stored, clock, requested, granted>>

\* ensureMutationEvent on a retry.
Ensure(p) ==
    /\ At(p, "ensure")
    /\ timeline' = timeline \cup {EventOf(proc[p].req)}
    /\ acked' = acked \cup {EventOf(proc[p].req)}
    /\ Return(p)
    /\ UNCHANGED <<row, mirror, opinions, clock, requested, granted>>

\* Mutant of Apply: the event is left for later.
ApplyWithoutEvent(p) ==
    /\ At(p, "apply")
    /\ row' = proc[p].con
    /\ proc' = [proc EXCEPT ![p].pc = "copy", ![p].ret = "reply"]
    /\ UNCHANGED <<mirror, timeline, opinions, clock, requested, granted, acked>>

\* ApplyTerminal: the row and the event in one transaction, whatever the row is now.
Apply(p) ==
    /\ At(p, "apply")
    /\ row' = proc[p].con
    /\ timeline' = timeline \cup {EventOf(proc[p].req)}
    /\ proc' = [proc EXCEPT ![p].pc = "copy", ![p].ret = "reply"]
    /\ UNCHANGED <<mirror, opinions, clock, requested, granted, acked>>

\* fsstore.Save, first half: the copy is renamed into the bucket of its state.
Copy(p) ==
    /\ At(p, "copy")
    /\ mirror' = [mirror EXCEPT ![BucketOf(proc[p].con.state)] = proc[p].con]
    /\ Goto(p, "prune")
    /\ UNCHANGED <<row, timeline, opinions, clock, requested, granted, acked>>

\* fsstore.Save, second half: the other buckets lose theirs; a failed remove is ignored.
Prune(p) ==
    /\ At(p, "prune")
    /\ \E kept \in (IF MayFail THEN SUBSET Buckets ELSE {{}}) :
         mirror' = [b \in Buckets |->
            IF b = BucketOf(proc[p].con.state) \/ b \in kept THEN mirror[b] ELSE Absent]
    /\ IF proc[p].ret = "idle" THEN Return(p) ELSE Goto(p, proc[p].ret)
    /\ UNCHANGED <<row, timeline, opinions, clock, requested, granted, acked>>

Reply(p) ==
    /\ At(p, "reply")
    /\ acked' = acked \cup {EventOf(proc[p].req)}
    /\ Return(p)
    /\ UNCHANGED <<stored, clock, requested, granted>>

-------------------------------------------------------------------------------
\* Mutant of Reserve: the copy loaded before the lock is counted up and saved.
ReserveFromCopy(p) ==
    /\ At(p, "reserve")
    /\ Exists(row) /\ SlotFree(row)
    /\ row' = TakeSlot(proc[p].con)
    /\ \E o \in Opinions \ (granted \cup opinions) :
         /\ granted' = granted \cup {o}
         /\ proc' = [proc EXCEPT ![p].pc = "copy", ![p].con = TakeSlot(proc[p].con),
                                 ![p].opn = o, ![p].ret = "opinion"]
    /\ UNCHANGED <<mirror, timeline, opinions, clock, requested, acked>>

\* ReserveConsultationSlot: read, check and write under BEGIN IMMEDIATE.
Reserve(p) ==
    /\ At(p, "reserve")
    /\ Exists(row) /\ SlotFree(row)
    /\ row' = TakeSlot(row)
    /\ \E o \in Opinions \ (granted \cup opinions) :
         /\ granted' = granted \cup {o}
         /\ proc' = [proc EXCEPT ![p].pc = "copy", ![p].con = TakeSlot(row),
                                 ![p].opn = o, ![p].ret = "opinion"]
    /\ UNCHANGED <<mirror, timeline, opinions, clock, requested, acked>>

\* Not found, terminal, or over the limit by the time the lock is held.
RefuseSlot(p) ==
    /\ At(p, "reserve")
    /\ ~(Exists(row) /\ SlotFree(row))
    /\ Return(p)
    /\ UNCHANGED <<stored, clock, requested, granted, acked>>

\* WriteConsultation: an exclusive create.
WriteOpinion(p) ==
    /\ At(p, "opinion")
    /\ opinions' = opinions \cup {proc[p].opn}
    /\ Goto(p, "emit")
    /\ UNCHANGED <<row, mirror, timeline, clock, requested, granted, acked>>

Emit(p) ==
    /\ At(p, "emit")
    /\ timeline' = timeline \cup {Submitted(proc[p].opn)}
    /\ Return(p)
    /\ UNCHANGED <<row, mirror, opinions, clock, requested, granted, acked>>

\* RemoveConsultation, after the event could not be appended.
RemoveOpinion(p) ==
    /\ At(p, "remove")
    /\ opinions' = opinions \ {proc[p].opn}
    /\ Goto(p, "release")
    /\ UNCHANGED <<row, mirror, timeline, clock, requested, granted, acked>>

\* Mutant of Release: the handler's own copy is counted down and saved.
ReleaseFromCopy(p) ==
    /\ At(p, "release")
    /\ Exists(row)
    /\ row' = ReturnSlot(proc[p].con)
    /\ granted' = granted \ {proc[p].opn}
    /\ proc' = [proc EXCEPT ![p].pc = "copy", ![p].con = ReturnSlot(proc[p].con), ![p].ret = "idle"]
    /\ UNCHANGED <<mirror, timeline, opinions, clock, requested, acked>>

\* ReleaseConsultationSlot: the compensation, under the same lock as the reservation.
Release(p) ==
    /\ At(p, "release")
    /\ Exists(row)
    /\ row' = ReturnSlot(row)
    /\ granted' = granted \ {proc[p].opn}
    /\ proc' = [proc EXCEPT ![p].pc = "copy", ![p].con = ReturnSlot(row), ![p].ret = "idle"]
    /\ UNCHANGED <<mirror, timeline, opinions, clock, requested, acked>>

-------------------------------------------------------------------------------
\* Mutant of AfterFailure: an opinion that cannot be written is announced all the same.
AfterFailureBestEffort(p) ==
    CASE At(p, "reconcile") -> "decide"
      [] At(p, "copy")      -> proc[p].ret
      [] At(p, "opinion")   -> "emit"
      [] At(p, "emit")      -> "remove"
      [] At(p, "remove")    -> "release"
      [] OTHER              -> "idle"

\* A store access that fails: where each handler goes on from.
AfterFailure(p) ==
    CASE At(p, "reconcile") -> "decide"
      [] At(p, "copy")      -> proc[p].ret
      [] At(p, "opinion")   -> "release"
      [] At(p, "emit")      -> "remove"
      [] At(p, "remove")    -> "release"
      [] OTHER              -> "idle"

Fail(p) ==
    /\ MayFail
    /\ proc[p].pc \notin {"idle", "mirror", "decide", "prune", "reply"}
    /\ IF AfterFailure(p) = "idle" THEN Return(p) ELSE Goto(p, AfterFailure(p))
    /\ UNCHANGED <<stored, clock, requested, granted, acked>>

\* A process killed between two steps: what it wrote stays, nothing is compensated.
Crash(p) ==
    /\ MayFail /\ ~At(p, "idle")
    /\ Return(p)
    /\ UNCHANGED <<stored, clock, requested, granted, acked>>

Step(p) ==
    \/ Begin(p) \/ LoadRow(p) \/ LoadMirror(p) \/ Reconcile(p)
    \/ Recognise(p) \/ Plan(p) \/ Admit(p) \/ Conclude(p)
    \/ Ensure(p) \/ Apply(p) \/ Copy(p) \/ Prune(p) \/ Reply(p)
    \/ Reserve(p) \/ RefuseSlot(p) \/ WriteOpinion(p) \/ Emit(p)
    \/ RemoveOpinion(p) \/ Release(p)
    \/ Fail(p) \/ Crash(p)

Next == \E p \in Procs : Step(p)

Spec == Init /\ [][Next]_vars
-------------------------------------------------------------------------------
EventIds ==
    {Completed(e) : e \in SUBSET Evidence}
        \cup {Blocked(r) : r \in Reasons \cup {NoReason}} \cup {Submitted(o) : o \in Opinions}

\* Types of the stored records and of each process's working copy.
TypeOK ==
    /\ row \in Contract
    /\ mirror \in [Buckets -> Contract]
    /\ timeline \subseteq EventIds
    /\ opinions \subseteq Opinions
    /\ proc \in [Procs -> Process \cup {Resting}]
    /\ clock \in Nat /\ requested \in Nat
    /\ granted \subseteq Opinions
    /\ acked \subseteq EventIds

OnTimeline(c) ==
    /\ c.state = "done" => Completed(c.evidence) \in timeline
    /\ c.state = "blocked" => Blocked(c.reason) \in timeline

SubmittedOpinions == {o \in Opinions : Submitted(o) \in timeline}

\* The verdict in the row always has its event on the timeline: ApplyTerminal
\* commits both or neither, and a mirror copy that is put back by Get or List
\* was committed with its event before it was mirrored.
TimelineMatchesRow == OnTimeline(row)

\* The YAML mirror never shows a verdict the database has not committed, however
\* late a process writes it and wherever it dies in between.
MirrorNeverAhead ==
    \A b \in Buckets : IsTerminal(mirror[b].state) => IsTerminal(row.state)

\* No more consultations reach the timeline than MaxConsultations, whatever
\* processes race for the slots, fail half way and compensate.
ConsultationLimit == Cardinality(SubmittedOpinions) <= MaxConsultations

\* While the task is live its counter is the number of slots taken and not given
\* back: no write of a copy loaded earlier loses or doubles one.
SlotsAccounted ==
    Exists(row) /\ ~IsTerminal(row.state) => row.used = Cardinality(granted)

\* An opinion the timeline announces is on disk: the compensations of
\* SubmitConsultation never take away a file whose event was appended.
SubmittedOpinionOnDisk == SubmittedOpinions \subseteq opinions

\* No stale copy, put back by a reader or written by a mutation planned earlier,
\* brings a finished task back to life.
TerminalStaysTerminal == [][IsTerminal(row.state) => IsTerminal(row'.state)]_vars

\* A caller who was told that Complete or Block succeeded finds its event.
AckedOnTimeline == acked \subseteq timeline

\* A verdict, once recorded, is final ("task is terminal", domain.go): the row
\* keeps the state it ended in.
TerminalStateImmutable == [][IsTerminal(row.state) => row'.state = row.state]_vars

-------------------------------------------------------------------------------
(* The ledger this service implements, as long as one process works at a time. *)

VerdictOf(c) ==
    CASE c.state = "done" -> Completed(c.evidence)
      [] c.state = "blocked" -> Blocked(c.reason)
      [] OTHER -> [kind |-> "live", key |-> {}]

Ledger == INSTANCE TaskLedger WITH verdict <- VerdictOf(row), slots <- granted, log <- timeline

\* One process at a time, dying and failing wherever it may, gives every task one
\* verdict, recorded together with its event, and keeps the consultation slots:
\* the whole service is the atomic ledger of TaskLedger.
ImplementsLedger == Ledger!Spec
===============================================================================
