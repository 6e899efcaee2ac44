-------------------------------- MODULE EventLog --------------------------------
(***************************************************************************)
(* The operational events of .arah/local/<bus or audit>, for one kind:     *)
(* scripts/agents/arah-event-io.ps1, compact-state.ps1, migrate-state.ps1  *)
(* and the recorders and readers that use them.                            *)
(*                                                                         *)
(* An event is a file of its own under pending/ until a compaction appends *)
(* it to the archive of its month; a legacy JSONL file is migrated into    *)
(* pending/ first.  Every hook and command is a process, nothing is        *)
(* locked, and all of them run with $ErrorActionPreference = 'Stop': the   *)
(* first access that fails ends the process where it is, as a kill does.   *)
(* Contents other than an event's identity and day are left out.           *)
(***************************************************************************)
EXTENDS Naturals, FiniteSets

CONSTANTS
    Procs,        \* hooks and commands
    Events,       \* the events of one behaviour, legacy ones included
    RetainDays,   \* -RetainDays; 0 keeps every archive
    DaysPerMonth,
    MaxDays,      \* bound on the days that pass
    MaxRuns,      \* bound on the processes started
    MaxMigrations \* bound on those that are migrations

ASSUME EventLogAssumption ==
    /\ IsFiniteSet(Events)
    /\ RetainDays \in Nat /\ DaysPerMonth \in Nat \ {0}
    /\ MaxDays \in Nat /\ MaxRuns \in Nat /\ MaxMigrations \in Nat

VARIABLES
    pending,   \* files of pending/: an event and the migration that wrote it, or 0
    archive,   \* how often each event is in the archive of its month
    legacy,    \* the lines of the legacy file; none when it has been renamed
    day,       \* the day an event was recorded
    today,
    proc,      \* what each process is doing
    lines,     \* history: what the legacy file held at first
    recorded,  \* history: the events that have been written
    cutShort,  \* history: a process has ended before its last step
    disturbed, \* history: processes whose read overlapped a move of events
    runs       \* processes and migrations started

events == <<pending, archive, legacy>>
clockwork == <<day, today>>
history == <<lines, recorded, cutShort>>
vars == <<events, clockwork, proc, history, disturbed, runs>>

-------------------------------------------------------------------------------
File(e, migration) == [event |-> e, migration |-> migration]
None == [e \in Events |-> 0]

MonthStart(d) == d - (d % DaysPerMonth)
MonthOf(e) == MonthStart(day[e])
Months == {MonthOf(e) : e \in {f \in Events : archive[f] > 0}}

Stored(e) == archive[e] > 0 \/ e \in legacy \/ \E f \in pending : f.event = e

Copies(e) ==
    archive[e] + Cardinality({f \in pending : f.event = e}) + (IF e \in legacy THEN 1 ELSE 0)

\* What a process holds: the number of its migration, the file it is at, what it
\* has still to do, the files it listed, and, for a reader, what it has seen of
\* the events that were recorded when it began.
Resting == [pc |-> "idle", op |-> "read", migration |-> 0, at |-> {}, todo |-> {},
            listed |-> {}, seen |-> None, began |-> {}]

At(p, label) == proc[p].pc = label
Goto(p, label) == proc' = [proc EXCEPT ![p].pc = label]
Walk(p, label, todo) == proc' = [proc EXCEPT ![p].pc = label, ![p].todo = todo]
Ended(p) == proc[p].pc \in {"idle", "done"}

Init ==
    /\ pending = {} /\ archive = None
    /\ legacy \in SUBSET Events /\ lines = legacy
    /\ day = [e \in Events |-> 0] /\ today = 0
    /\ proc = [p \in Procs |-> Resting]
    /\ recorded = legacy /\ cutShort = FALSE /\ disturbed = {}
    /\ runs = [all |-> 0, migrate |-> 0]

\* Where each command starts.
Start == [record |-> "write", compact |-> "list", migrate |-> "legacy", read |-> "see"]

\* A migration's files have names of their own (New-ArahUlid): its number.
Migration(op) == IF op = "migrate" THEN runs.migrate + 1 ELSE 0

Begin(p) ==
    /\ Ended(p) /\ runs.all < MaxRuns
    /\ \E op \in DOMAIN Start :
         /\ Migration(op) <= MaxMigrations
         /\ runs' = [all |-> runs.all + 1,
                     migrate |-> IF op = "migrate" THEN Migration(op) ELSE runs.migrate]
         /\ proc' = [proc EXCEPT ![p] = [Resting EXCEPT !.pc = Start[op], !.op = op,
                                                       !.migration = Migration(op)]]
    /\ UNCHANGED <<events, clockwork, history, disturbed>>

\* A kill, or an access that fails.
Die(p) ==
    /\ ~Ended(p)
    /\ proc' = [proc EXCEPT ![p] = Resting]
    /\ cutShort' = TRUE
    /\ UNCHANGED <<events, clockwork, lines, recorded, disturbed, runs>>

NextDay ==
    /\ today < MaxDays /\ today' = today + 1
    /\ UNCHANGED <<events, day, proc, history, disturbed, runs>>

\* A recorder's file appears by a rename; it then counts all events.
WriteEventFile(p) ==
    /\ At(p, "write")
    /\ \E e \in Events \ recorded :
         /\ pending' = pending \cup {File(e, 0)}
         /\ day' = [day EXCEPT ![e] = today]
         /\ recorded' = recorded \cup {e}
    /\ Goto(p, "see")
    /\ UNCHANGED <<archive, legacy, today, lines, cutShort, disturbed, runs>>

-------------------------------------------------------------------------------
(* Migrate-LegacyJsonl: every line becomes a file of pending, then the legacy  *)
(* file is renamed.  A compaction and a count follow in the same process.      *)

\* Without a legacy file there is nothing to migrate.
ReadLegacyLines(p) ==
    /\ At(p, "legacy")
    /\ IF legacy = {} THEN Goto(p, "list") ELSE Walk(p, "lines", legacy)
    /\ UNCHANGED <<events, clockwork, history, disturbed, runs>>

\* Mutant of MigrateLine: the line is taken out of the legacy file at once.
MigrateLineAway(p, e) ==
    /\ At(p, "lines") /\ e \in proc[p].todo
    /\ pending' = pending \cup {File(e, proc[p].migration)}
    /\ legacy' = legacy \ {e}
    /\ Walk(p, "lines", proc[p].todo \ {e})
    /\ disturbed' = Procs
    /\ UNCHANGED <<archive, clockwork, history, runs>>

MigrateLine(p, e) ==
    /\ At(p, "lines") /\ e \in proc[p].todo
    /\ pending' = pending \cup {File(e, proc[p].migration)}
    /\ Walk(p, "lines", proc[p].todo \ {e})
    /\ disturbed' = Procs
    /\ UNCHANGED <<archive, legacy, clockwork, history, runs>>

\* Another migration may have renamed it: that is an error.
RenameLegacy(p) ==
    /\ At(p, "lines") /\ proc[p].todo = {}
    /\ legacy # {}
    /\ legacy' = {}
    /\ Goto(p, "list")
    /\ disturbed' = Procs
    /\ UNCHANGED <<pending, archive, clockwork, history, runs>>

-------------------------------------------------------------------------------
(* Compact-Kind: the listed files one by one, each read, appended to the       *)
(* archive of its month, and removed.                                          *)

ListPending(p) ==
    /\ At(p, "list")
    /\ proc' = [proc EXCEPT ![p].pc = "files", ![p].todo = pending, ![p].listed = pending]
    /\ UNCHANGED <<events, clockwork, history, disturbed, runs>>

\* Mutant of ReadPending: the file is removed as it is read.
TakePending(p, f) ==
    /\ At(p, "files") /\ f \in proc[p].todo \cap pending
    /\ pending' = pending \ {f}
    /\ proc' = [proc EXCEPT ![p].pc = "append", ![p].at = {f}, ![p].todo = @ \ {f}]
    /\ UNCHANGED <<archive, legacy, clockwork, history, disturbed, runs>>

ReadPending(p, f) ==
    /\ At(p, "files") /\ f \in proc[p].todo \cap pending
    /\ proc' = [proc EXCEPT ![p].pc = "append", ![p].at = {f}, ![p].todo = @ \ {f}]
    /\ UNCHANGED <<events, clockwork, history, disturbed, runs>>

AppendArchive(p) ==
    /\ At(p, "append")
    /\ \E f \in proc[p].at : archive' = [archive EXCEPT ![f.event] = @ + 1]
    /\ Goto(p, "remove")
    /\ disturbed' = Procs
    /\ UNCHANGED <<pending, legacy, clockwork, history, runs>>

\* Mutant of RemovePending: a file that another compaction has removed is no error.
RemovePendingIfThere(p) ==
    /\ At(p, "remove")
    /\ pending' = pending \ proc[p].at
    /\ proc' = [proc EXCEPT ![p].pc = "files", ![p].at = {}]
    /\ disturbed' = Procs
    /\ UNCHANGED <<archive, legacy, clockwork, history, runs>>

RemovePending(p) ==
    /\ At(p, "remove") /\ proc[p].at \subseteq pending
    /\ pending' = pending \ proc[p].at
    /\ proc' = [proc EXCEPT ![p].pc = "files", ![p].at = {}]
    /\ disturbed' = Procs
    /\ UNCHANGED <<archive, legacy, clockwork, history, runs>>

\* Retention goes by the first day of a month.
Outdated(month) == RetainDays > 0 /\ month + RetainDays < today

ListOutdated(p) ==
    /\ At(p, "files") /\ proc[p].todo = {}
    /\ Walk(p, "retain", {m \in Months : Outdated(m)})
    /\ UNCHANGED <<events, clockwork, history, disturbed, runs>>

RemoveArchive(p, month) ==
    /\ At(p, "retain") /\ month \in proc[p].todo \cap Months
    /\ archive' = [e \in Events |-> IF MonthOf(e) = month THEN 0 ELSE archive[e]]
    /\ Walk(p, "retain", proc[p].todo \ {month})
    /\ disturbed' = Procs
    /\ UNCHANGED <<pending, legacy, clockwork, history, runs>>

\* The end of a compaction; a migration goes on to count.
Compacted(p) ==
    /\ At(p, "retain") /\ proc[p].todo = {}
    /\ Goto(p, IF proc[p].op = "compact" THEN "done" ELSE "see")
    /\ UNCHANGED <<events, clockwork, history, disturbed, runs>>

-------------------------------------------------------------------------------
(* Read-ArahEvents: the legacy file, the archives, then the pending files.     *)

\* Mutant of SeeLegacy: with a legacy file, the archives are passed over.
SeeLegacyOnly(p) ==
    /\ At(p, "see")
    /\ proc' = [proc EXCEPT ![p].pc = "archives", ![p].began = recorded,
            ![p].seen = [e \in Events |-> IF e \in legacy THEN 1 ELSE 0],
            ![p].todo = IF legacy = {} THEN Months ELSE {}]
    /\ disturbed' = disturbed \ {p}
    /\ UNCHANGED <<events, clockwork, history, runs>>

SeeLegacy(p) ==
    /\ At(p, "see")
    /\ proc' = [proc EXCEPT ![p].pc = "months", ![p].began = recorded,
            ![p].seen = [e \in Events |-> IF e \in legacy THEN 1 ELSE 0]]
    /\ disturbed' = disturbed \ {p}
    /\ UNCHANGED <<events, clockwork, history, runs>>

ListArchives(p) ==
    /\ At(p, "months")
    /\ Walk(p, "archives", Months)
    /\ UNCHANGED <<events, clockwork, history, disturbed, runs>>

SeeArchive(p, month) ==
    /\ At(p, "archives") /\ month \in proc[p].todo \cap Months
    /\ LET found == [e \in Events |-> IF MonthOf(e) = month THEN archive[e] ELSE 0]
       IN  proc' = [proc EXCEPT ![p].todo = @ \ {month},
                                ![p].seen = [e \in Events |-> @[e] + found[e]]]
    /\ UNCHANGED <<events, clockwork, history, disturbed, runs>>

ListFiles(p) ==
    /\ At(p, "archives") /\ proc[p].todo = {}
    /\ Walk(p, "pending", pending)
    /\ UNCHANGED <<events, clockwork, history, disturbed, runs>>

SeeFile(p, f) ==
    /\ At(p, "pending") /\ f \in proc[p].todo \cap pending
    /\ proc' = [proc EXCEPT ![p].todo = @ \ {f}, ![p].seen[f.event] = @ + 1]
    /\ UNCHANGED <<events, clockwork, history, disturbed, runs>>

\* The read is over, and with it the command.
Counted(p) ==
    /\ At(p, "pending") /\ proc[p].todo = {}
    /\ Goto(p, "done")
    /\ UNCHANGED <<events, clockwork, history, disturbed, runs>>

Move(p) ==
    \/ ReadLegacyLines(p) \/ RenameLegacy(p) \/ \E e \in Events : MigrateLine(p, e)
    \/ ListPending(p) \/ AppendArchive(p) \/ RemovePending(p)
    \/ \E f \in pending : ReadPending(p, f)
    \/ ListOutdated(p) \/ Compacted(p) \/ \E month \in Months : RemoveArchive(p, month)

Read(p) ==
    \/ SeeLegacy(p) \/ ListArchives(p) \/ ListFiles(p) \/ Counted(p)
    \/ \E month \in Months : SeeArchive(p, month)
    \/ \E f \in pending : SeeFile(p, f)

Step(p) == Begin(p) \/ Die(p) \/ WriteEventFile(p) \/ Move(p) \/ Read(p)

Next == NextDay \/ \E p \in Procs : Step(p)

Spec == Init /\ [][Next]_vars
-------------------------------------------------------------------------------
Files == {File(e, m) : e \in Events, m \in 0..MaxMigrations}

\* Types of the event files, the archives and the history.
EventTypeOK ==
    /\ pending \subseteq Files
    /\ archive \in [Events -> Nat]
    /\ lines \subseteq Events /\ legacy \in {{}, lines}
    /\ day \in [Events -> Nat] /\ today \in Nat
    /\ recorded \subseteq Events /\ cutShort \in BOOLEAN /\ disturbed \subseteq Procs

\* An event that was written is still there, in pending, in its archive or in the
\* legacy file, until its archive's month is older than the retention: whatever
\* compacts and migrates at once, and wherever it dies between two steps.
NothingLost == \A e \in recorded : Stored(e) \/ Outdated(MonthOf(e))

\* When all processes have ended, and none before its last step, every event is
\* there once: of two compactions or migrations that take the same event, the
\* slower one fails.
ExactlyOnce ==
    ~cutShort /\ (\A p \in Procs : Ended(p)) =>
        \A e \in recorded : Copies(e) = 1 \/ (Copies(e) = 0 /\ Outdated(MonthOf(e)))

\* A read during which no event was moved has every event written before it began
\* as often as it is stored, whichever of the three places it is in.
QuietReadSeesAll ==
    \A p \in Procs \ disturbed : At(p, "done") /\ proc[p].op # "compact" =>
        \A e \in proc[p].began : proc[p].seen[e] = Copies(e)
===============================================================================
