------------------------------- MODULE StoreOpen -------------------------------
(***************************************************************************)
(* Opening the runtime database: EnsureLayout and importFilesystemIfEmpty  *)
(* of internal/adapters/sqlitestore/store.go, migrate and RollbackTo of    *)
(* migrate.go.  Every process opens the same file, and an older binary may *)
(* be among them.  Each migration is a transaction of its own, the version *)
(* is read once before the first of them, and the import is one statement  *)
(* per task.                                                               *)
(*                                                                         *)
(* A task is live or done here, and its file is in the bucket of the one,  *)
(* of the other, of both (a save that could not remove the old copy) or of *)
(* neither.  Once open, a process may finish a task (TaskService), and the *)
(* PowerShell runtime finishes tasks in the files alone (MixedRuntime).    *)
(***************************************************************************)
EXTENDS Naturals, FiniteSets, Sequences

CONSTANTS
    Procs,       \* processes that open the store
    Supports,    \* the schemaVersion each one was compiled with
    Tasks,       \* tasks with a contract under .arah/local/execution
    MaxOpens,    \* bound on the opens of one behaviour
    MaxRollbacks \* bound on the uses of RollbackTo

ASSUME OpenAssumption ==
    /\ Supports \in [Procs -> 1..3]
    /\ MaxOpens \in Nat /\ MaxRollbacks \in Nat

VARIABLES
    version,   \* schema_meta: the recorded version
    objects,   \* tables, columns and indexes that exist
    rows,      \* the tasks table
    files,     \* the YAML files: the buckets that hold a copy of each task
    opener,    \* what each process is doing
    initial,   \* history: the files before anyone opened the store
    moved,     \* history: the tasks PowerShell has saved
    broken,    \* history: an import has failed or been cut short
    count      \* opens and rollbacks so far

schema == <<version, objects>>
history == <<initial, moved>>
vars == <<schema, rows, files, opener, history, broken, count>>

-------------------------------------------------------------------------------
\* What migrations 1, 2 and 3 create.
Creates == <<{"tables"}, {"kind index"}, {"columns", "correlation indexes"}>>

ObjectsOf(v) == UNION {Creates[w] : w \in 1..v}

Status == {"absent", "live", "done"}
NoRows == [t \in Tasks |-> "absent"]

\* Mutant of ImportOrder: the finished tasks are listed first.
ImportDoneFirst == <<"done", "live">>

\* The buckets in the order they are listed: active before completed.
ImportOrder == <<"live", "done">>

\* What a process holds: the migration or bucket it is at, and a set of tasks.
Closed == [pc |-> "closed", at |-> 0, list |-> {}]

At(p, label) == opener[p].pc = label
Becomes(p, label, at, list) ==
    opener' = [opener EXCEPT ![p] = [pc |-> label, at |-> at, list |-> list]]
Goto(p, label, at) == Becomes(p, label, at, {})

Init ==
    /\ version = 0 /\ objects = {}
    /\ rows = NoRows
    /\ files \in [Tasks -> SUBSET {"live", "done"}]
    /\ opener = [p \in Procs |-> Closed]
    /\ initial = files /\ moved = {}
    /\ broken = FALSE
    /\ count = [opens |-> 0, rollbacks |-> 0]

Alone(p) == \A q \in Procs \ {p} : At(q, "closed")
RollingBack == \E p \in Procs : At(p, "down")

-------------------------------------------------------------------------------
\* The version is read, and a newer schema is refused.
Open(p) ==
    /\ At(p, "closed") /\ ~RollingBack
    /\ count.opens < MaxOpens
    /\ count' = [count EXCEPT !.opens = @ + 1]
    /\ IF version > Supports[p] THEN UNCHANGED opener ELSE Goto(p, "up", version + 1)
    /\ UNCHANGED <<schema, rows, files, history, broken>>

\* The objects a migration works on: columns and indexes need their table.
MayMigrate(v) == v = 1 \/ "tables" \in objects

\* Mutant of Migrated: a column that exists ends the migration.
MigratedUnlessColumns(v) ==
    IF v = 3 /\ "columns" \in objects THEN objects ELSE objects \cup Creates[v]

\* IF NOT EXISTS, and a duplicate column is passed over.
Migrated(v) == objects \cup Creates[v]

\* Mutant of Recorded: the last version is recorded from the start.
RecordedLast(p, v) == Supports[p]

\* Mutant of Recorded: the next version is recorded.
RecordedNext(p, v) == v + 1

Recorded(p, v) == v

\* One migration, with its version, in one transaction; whoever has migrated
\* further meanwhile, the version read at first decides.
Up(p) ==
    /\ At(p, "up") /\ opener[p].at <= Supports[p]
    /\ LET v == opener[p].at
       IN  /\ MayMigrate(v)
           /\ objects' = Migrated(v) /\ version' = Recorded(p, v)
           /\ Goto(p, "up", v + 1)
    /\ UNCHANGED <<rows, files, history, broken, count>>

\* The import is skipped when there is any row.
CountRows(p) ==
    /\ At(p, "up") /\ opener[p].at > Supports[p]
    /\ IF rows = NoRows THEN Goto(p, "list", 1) ELSE Goto(p, "ready", 0)
    /\ UNCHANGED <<schema, rows, files, history, broken, count>>

\* One bucket is read into memory.
ListBucket(p) ==
    /\ At(p, "list") /\ opener[p].at \in DOMAIN ImportOrder
    /\ Becomes(p, "import", opener[p].at,
               {t \in Tasks : ImportOrder[opener[p].at] \in files[t]})
    /\ UNCHANGED <<schema, rows, files, history, broken, count>>

\* saveDB of one listed contract: an upsert, whatever the row is by now.
ImportTask(p, t) ==
    /\ At(p, "import") /\ t \in opener[p].list
    /\ rows' = [rows EXCEPT ![t] = ImportOrder[opener[p].at]]
    /\ Becomes(p, "import", opener[p].at, opener[p].list \ {t})
    /\ UNCHANGED <<schema, files, history, broken, count>>

NextBucket(p) ==
    /\ At(p, "import") /\ opener[p].list = {}
    /\ Goto(p, "list", opener[p].at + 1)
    /\ UNCHANGED <<schema, rows, files, history, broken, count>>

Opened(p) ==
    /\ At(p, "list") /\ opener[p].at \notin DOMAIN ImportOrder
    /\ Goto(p, "ready", 0)
    /\ UNCHANGED <<schema, rows, files, history, broken, count>>

\* A statement fails and the store stays closed, the process dies, or, once
\* ready, it has done its work.  What it committed stays.
Close(p) ==
    /\ ~At(p, "closed")
    /\ opener' = [opener EXCEPT ![p] = Closed]
    /\ broken' = (broken \/ opener[p].pc \in {"list", "import"})
    /\ UNCHANGED <<schema, rows, files, history, count>>

-------------------------------------------------------------------------------
\* Complete by an open store: the row first, ...
Finish(p, t) ==
    /\ At(p, "ready") /\ rows[t] = "live"
    /\ rows' = [rows EXCEPT ![t] = "done"]
    /\ Becomes(p, "mirror", 0, {t})
    /\ UNCHANGED <<schema, files, history, broken, count>>

\* ... then the file of the new bucket, then the removal of the old one.
MirrorFinish(p, t) ==
    /\ At(p, "mirror") /\ t \in opener[p].list
    /\ IF "done" \in files[t]
         THEN /\ files' = [files EXCEPT ![t] = {"done"}]
              /\ Goto(p, "ready", 0)
         ELSE /\ files' = [files EXCEPT ![t] = @ \cup {"done"}]
              /\ UNCHANGED opener
    /\ UNCHANGED <<schema, rows, history, broken, count>>

\* Save-EcpContract of PowerShell: the copy in the old bucket is removed first ...
PsRemove(t) ==
    /\ "live" \in files[t] /\ t \notin moved
    /\ files' = [files EXCEPT ![t] = @ \ {"live"}]
    /\ moved' = moved \cup {t}
    /\ UNCHANGED <<schema, rows, opener, initial, broken, count>>

\* ... and then the new one is written.
PsWrite(t) ==
    /\ t \in moved /\ "done" \notin files[t]
    /\ files' = [files EXCEPT ![t] = @ \cup {"done"}]
    /\ UNCHANGED <<schema, rows, opener, history, broken, count>>

\* RollbackTo is for tests and controlled recovery: nobody else has the store open.
RollBack(p) ==
    /\ At(p, "ready") /\ Alone(p)
    /\ count.rollbacks < MaxRollbacks
    /\ count' = [count EXCEPT !.rollbacks = @ + 1]
    /\ Goto(p, "down", version)
    /\ UNCHANGED <<schema, rows, files, history, broken>>

\* One down migration in one transaction; the columns of migration 3 remain, and
\* what hangs on the tables goes with them.
Down(p) ==
    /\ At(p, "down") /\ opener[p].at > 0
    /\ LET v == opener[p].at
       IN  /\ objects' = IF v = 1 THEN {} ELSE objects \ (Creates[v] \ {"columns"})
           /\ rows' = IF v = 1 THEN NoRows ELSE rows
           /\ version' = v - 1
           /\ Goto(p, "down", v - 1)
    /\ UNCHANGED <<files, history, broken, count>>

Step(p) ==
    \/ Open(p) \/ Up(p) \/ CountRows(p) \/ ListBucket(p) \/ NextBucket(p) \/ Opened(p)
    \/ Close(p) \/ RollBack(p) \/ Down(p)
    \/ \E t \in Tasks : ImportTask(p, t) \/ Finish(p, t) \/ MirrorFinish(p, t)

Next == (\E p \in Procs : Step(p)) \/ (\E t \in Tasks : PsRemove(t) \/ PsWrite(t))

Spec == Init /\ [][Next]_vars
-------------------------------------------------------------------------------
\* Types of the schema, the tasks and the openers.
OpenTypeOK ==
    /\ version \in 0..3 /\ objects \subseteq ObjectsOf(3)
    /\ rows \in [Tasks -> Status]
    /\ files \in [Tasks -> SUBSET {"live", "done"}]
    /\ \A p \in Procs : opener[p].at \in 0..4 /\ opener[p].list \subseteq Tasks
    /\ broken \in BOOLEAN

\* The recorded version never promises more than there is, whichever processes
\* migrate at once and wherever they or a rollback stop.
SchemaBacksVersion == ObjectsOf(version) \subseteq objects

\* A store that is open finds everything its own migrations create, even when a
\* slower or older process has put the recorded version back since.
ReadyFindsSchema ==
    \A p \in Procs : opener[p].pc \in {"list", "import", "ready", "mirror"} =>
        ObjectsOf(Supports[p]) \subseteq objects

\* Once the imports are over, and none was cut short, every task that was on disk
\* has its row, and one that was finished there is finished in its row even when
\* an older copy of it lay in another bucket and several processes imported both.
ImportComplete ==
    (/\ ~broken /\ count.rollbacks = 0
     /\ \E p \in Procs : At(p, "ready")
     /\ \A p \in Procs : opener[p].pc \notin {"list", "import"})
    => \A t \in Tasks \ moved :
         /\ initial[t] # {} => rows[t] # "absent"
         /\ "done" \in initial[t] => rows[t] = "done"
===============================================================================
