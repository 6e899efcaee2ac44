---------------------------- MODULE StoreOpenProofs ----------------------------
(***************************************************************************)
(* What holds of StoreOpen for every set of processes, every version they  *)
(* were compiled with and every set of tasks.                              *)
(*                                                                         *)
(* SchemaBacksVersion alone is not inductive: a migration of a process     *)
(* that read the version long ago records its own number, so the objects   *)
(* of every lower one have to be there already.  Promised says so of each  *)
(* migrating process, and that a rollback has the store to itself.  The    *)
(* import has an invariant of its own, further down.                       *)
(***************************************************************************)
EXTENDS StoreOpen, TLAPS

Labels == {"closed", "up", "list", "import", "ready", "mirror", "down"}

OpenTypes ==
    /\ version \in 0..3 /\ objects \subseteq ObjectsOf(3)
    /\ rows \in [Tasks -> Status]
    /\ files \in [Tasks -> SUBSET {"live", "done"}]
    /\ opener \in [Procs -> [pc : Labels, at : 0..4, list : SUBSET Tasks]]
    /\ broken \in BOOLEAN

\* What a process at each place of the code relies on.
Promised(p) ==
    /\ At(p, "up") => /\ opener[p].at \in 1..(Supports[p] + 1)
                      /\ ObjectsOf(opener[p].at - 1) \subseteq objects
    /\ At(p, "list") => opener[p].at \in 1..3
    /\ At(p, "import") => opener[p].at \in 1..2
    /\ opener[p].pc \in {"list", "import", "ready", "mirror"} =>
           ObjectsOf(Supports[p]) \subseteq objects
    /\ At(p, "down") => Alone(p) /\ version = opener[p].at

SchemaInv == SchemaBacksVersion /\ \A p \in Procs : Promised(p)

OpenInv == OpenTypes /\ SchemaInv

-------------------------------------------------------------------------------
\* The migrations, each with what the database has after it (migrate.go, migrations).
LEMMA ObjectsByVersion ==
    /\ Creates[1] = {"tables"} /\ Creates[2] = {"kind index"}
    /\ Creates[3] = {"columns", "correlation indexes"}
    /\ ObjectsOf(0) = {}
    /\ ObjectsOf(1) = {"tables"}
    /\ ObjectsOf(2) = {"tables", "kind index"}
    /\ ObjectsOf(3) = {"tables", "kind index", "columns", "correlation indexes"}
<1>1. /\ Creates[1] = {"tables"} /\ Creates[2] = {"kind index"}
      /\ Creates[3] = {"columns", "correlation indexes"}
  BY DEF Creates
<1>2. 1..0 = {} /\ 1..1 = {1} /\ 1..2 = {1, 2} /\ 1..3 = {1, 2, 3}
  OBVIOUS
<1>3. ObjectsOf(0) = {}
  BY <1>2 DEF ObjectsOf
<1>4. ObjectsOf(1) = Creates[1]
  BY <1>2 DEF ObjectsOf
<1>5. ObjectsOf(2) = Creates[1] \cup Creates[2]
  BY <1>2 DEF ObjectsOf
<1>6. ObjectsOf(3) = Creates[1] \cup Creates[2] \cup Creates[3]
  BY <1>2 DEF ObjectsOf
<1>7. ObjectsOf(2) = {"tables", "kind index"}
  BY <1>1, <1>5
<1>8. ObjectsOf(3) = {"tables", "kind index", "columns", "correlation indexes"}
  BY <1>1, <1>6
<1> QED  BY <1>1, <1>3, <1>4, <1>7, <1>8

\* A migration adds to what the versions below it have, and a down migration
\* takes away nothing they need.
LEMMA ObjectsGrow ==
    ASSUME NEW v \in 1..3
    PROVE  /\ ObjectsOf(v) = ObjectsOf(v - 1) \cup Creates[v]
           /\ ObjectsOf(v) \subseteq ObjectsOf(3)
           /\ ObjectsOf(v - 1) \cap (Creates[v] \ {"columns"}) = {}
<1>1. v = 1 \/ v = 2 \/ v = 3
  OBVIOUS
<1>2. CASE v = 1
  <2>1. v - 1 = 0
    BY <1>2
  <2> QED  BY <1>2, <2>1, ObjectsByVersion
<1>3. CASE v = 2
  <2>1. v - 1 = 1
    BY <1>3
  <2> QED  BY <1>3, <2>1, ObjectsByVersion
<1>4. CASE v = 3
  <2>1. v - 1 = 2
    BY <1>4
  <2> QED  BY <1>4, <2>1, ObjectsByVersion
<1> QED  BY <1>1, <1>2, <1>3, <1>4

LEMMA InitOpen == Init => OpenInv
<1> SUFFICES ASSUME Init PROVE OpenInv
  OBVIOUS
<1>1. OpenTypes
  <2>1. Closed \in [pc : Labels, at : 0..4, list : SUBSET Tasks]
    BY DEF Closed, Labels
  <2>2. rows \in [Tasks -> Status]
    BY DEF Init, NoRows, Status
  <2>3. opener \in [Procs -> [pc : Labels, at : 0..4, list : SUBSET Tasks]]
    BY <2>1 DEF Init
  <2>4. version \in 0..3 /\ objects \subseteq ObjectsOf(3)
    BY DEF Init
  <2>5. files \in [Tasks -> SUBSET {"live", "done"}] /\ broken \in BOOLEAN
    BY DEF Init
  <2> QED  BY <2>2, <2>3, <2>4, <2>5 DEF OpenTypes
<1>2. SchemaInv
  BY ObjectsByVersion DEF Init, SchemaInv, SchemaBacksVersion, Promised, At, Closed
<1> QED  BY <1>1, <1>2 DEF OpenInv

\* Every step keeps the types.
LEMMA NextTypes == OpenInv /\ [Next]_vars => OpenTypes'
<1> SUFFICES ASSUME OpenInv, [Next]_vars PROVE OpenTypes'
  OBVIOUS
<1> USE DEF OpenInv, OpenTypes, Goto, Becomes, At, schema, history
<1>s. \A p \in Procs : Supports[p] \in 1..3
  BY OpenAssumption
<1>1. CASE UNCHANGED vars
  BY <1>1 DEF vars
<1>2. ASSUME NEW p \in Procs, Open(p) PROVE OpenTypes'
  BY <1>2 DEF Open, Labels
<1>3. ASSUME NEW p \in Procs, Up(p) PROVE OpenTypes'
  <2>1. opener[p].at \in 1..3
    BY <1>3, <1>s DEF Up, SchemaInv, Promised
  <2>2. Creates[opener[p].at] \subseteq ObjectsOf(3)
    BY <2>1, ObjectsGrow
  <2> QED  BY <1>3, <2>1, <2>2 DEF Up, Migrated, Recorded, Labels
<1>4. ASSUME NEW p \in Procs, CountRows(p) PROVE OpenTypes'
  BY <1>4 DEF CountRows, Labels
<1>5. ASSUME NEW p \in Procs, ListBucket(p) PROVE OpenTypes'
  BY <1>5 DEF ListBucket, Labels
<1>6. ASSUME NEW p \in Procs, NextBucket(p) PROVE OpenTypes'
  <2>1. opener[p].at \in 1..3
    BY <1>6 DEF NextBucket, SchemaInv, Promised
  <2> QED  BY <1>6, <2>1 DEF NextBucket, Labels
<1>7. ASSUME NEW p \in Procs, Opened(p) PROVE OpenTypes'
  BY <1>7 DEF Opened, Labels
<1>8. ASSUME NEW p \in Procs, Close(p) PROVE OpenTypes'
  BY <1>8 DEF Close, Closed, Labels
<1>9. ASSUME NEW p \in Procs, RollBack(p) PROVE OpenTypes'
  BY <1>9 DEF RollBack, Labels
<1>10. ASSUME NEW p \in Procs, Down(p) PROVE OpenTypes'
  BY <1>10 DEF Down, SchemaInv, Promised, NoRows, Status, Labels
<1>11. ASSUME NEW p \in Procs, NEW t \in Tasks, ImportTask(p, t) PROVE OpenTypes'
  <2>1. opener[p].at \in DOMAIN ImportOrder
    BY <1>11 DEF ImportTask, SchemaInv, Promised, ImportOrder
  <2> QED  BY <1>11, <2>1 DEF ImportTask, ImportOrder, Status, Labels
<1>12. ASSUME NEW p \in Procs, NEW t \in Tasks, Finish(p, t) PROVE OpenTypes'
  BY <1>12 DEF Finish, Status, Labels
<1>13. ASSUME NEW p \in Procs, NEW t \in Tasks, MirrorFinish(p, t) PROVE OpenTypes'
  BY <1>13 DEF MirrorFinish, Labels
<1>14. ASSUME NEW t \in Tasks, PsRemove(t) \/ PsWrite(t) PROVE OpenTypes'
  BY <1>14 DEF PsRemove, PsWrite
<1> QED
  BY <1>1, <1>2, <1>3, <1>4, <1>5, <1>6, <1>7, <1>8, <1>9, <1>10, <1>11, <1>12, <1>13, <1>14
  DEF Next, Step


\* A step that only moves one process keeps the promises of the others, unless
\* one of them holds the store alone.
LEMMA NextSchema == OpenInv /\ [Next]_vars => SchemaInv'
<1> SUFFICES ASSUME OpenInv, [Next]_vars PROVE SchemaInv'
  OBVIOUS
<1> USE DEF OpenInv, OpenTypes, SchemaInv, SchemaBacksVersion, Promised, At, Alone, schema
<1>s. \A p \in Procs : Supports[p] \in 1..3
  BY OpenAssumption
<1>1. CASE UNCHANGED vars
  BY <1>1 DEF vars
<1>2. ASSUME NEW p \in Procs, Open(p) PROVE SchemaInv'
  <2>1. version \in 0..3 /\ (version + 1) - 1 = version
    OBVIOUS
  <2>2. CASE version > Supports[p]
    BY <1>2, <2>2 DEF Open, RollingBack
  <2>3. CASE ~(version > Supports[p])
    <3>1. version + 1 \in 1..(Supports[p] + 1)
      BY <1>s, <2>1, <2>3
    <3> QED  BY <1>2, <2>1, <2>3, <3>1 DEF Open, RollingBack, Goto, Becomes
  <2> QED  BY <2>2, <2>3
<1>3. ASSUME NEW p \in Procs, Up(p) PROVE SchemaInv'
  <2> DEFINE v == opener[p].at
  <2>1. v \in 1..3 /\ (v + 1) - 1 = v /\ v + 1 \in 1..(Supports[p] + 1)
    BY <1>3, <1>s DEF Up
  <2>2. ObjectsOf(v) = ObjectsOf(v - 1) \cup Creates[v]
    BY <2>1, ObjectsGrow
  <2>3. ObjectsOf(v) \subseteq objects' /\ objects \subseteq objects' /\ version' = v
    BY <1>3, <2>1, <2>2 DEF Up, Migrated, Recorded
  <2>4. \A q \in Procs \ {p} : ~At(q, "down")
    BY <1>3 DEF Up
  <2> QED  BY <1>3, <2>1, <2>3, <2>4 DEF Up, Goto, Becomes
<1>4. ASSUME NEW p \in Procs, CountRows(p) PROVE SchemaInv'
  <2>1. opener[p].at = Supports[p] + 1 /\ (Supports[p] + 1) - 1 = Supports[p]
    BY <1>4, <1>s DEF CountRows
  <2>2. ObjectsOf(Supports[p]) \subseteq objects
    BY <1>4, <2>1 DEF CountRows
  <2> QED  BY <1>4, <2>2 DEF CountRows, Goto, Becomes
<1>5. ASSUME NEW p \in Procs, ListBucket(p) PROVE SchemaInv'
  <2>1. opener[p].at \in 1..2
    BY <1>5 DEF ListBucket, ImportOrder
  <2> QED  BY <1>5, <2>1 DEF ListBucket, Becomes
<1>6. ASSUME NEW p \in Procs, NextBucket(p) PROVE SchemaInv'
  BY <1>6 DEF NextBucket, Goto, Becomes
<1>7. ASSUME NEW p \in Procs, Opened(p) PROVE SchemaInv'
  BY <1>7 DEF Opened, Goto, Becomes
<1>8. ASSUME NEW p \in Procs, Close(p) PROVE SchemaInv'
  BY <1>8 DEF Close, Closed
<1>9. ASSUME NEW p \in Procs, RollBack(p) PROVE SchemaInv'
  BY <1>9 DEF RollBack, Goto, Becomes
<1>10. ASSUME NEW p \in Procs, Down(p) PROVE SchemaInv'
  <2> DEFINE v == opener[p].at
  <2>1. v \in 1..3 /\ version = v
    BY <1>10 DEF Down
  <2>2. ObjectsOf(v - 1) \subseteq objects'
    <3>1. CASE v = 1
      <4>1. v - 1 = 0
        BY <3>1
      <4> QED  BY <4>1, ObjectsByVersion
    <3>2. CASE v # 1
      <4>1. ObjectsOf(v - 1) \subseteq objects \ (Creates[v] \ {"columns"})
        BY <2>1, ObjectsGrow
      <4> QED  BY <1>10, <3>2, <4>1 DEF Down
    <3> QED  BY <3>1, <3>2
  <2>3. version' = v - 1 /\ \A q \in Procs \ {p} : At(q, "closed") /\ At(q, "closed")'
    BY <1>10 DEF Down, Goto, Becomes
  <2>4. opener'[p] = [pc |-> "down", at |-> v - 1, list |-> {}]
    BY <1>10 DEF Down, Goto, Becomes
  <2> QED  BY <2>2, <2>3, <2>4
<1>11. ASSUME NEW p \in Procs, NEW t \in Tasks, ImportTask(p, t) PROVE SchemaInv'
  BY <1>11 DEF ImportTask, Becomes
<1>12. ASSUME NEW p \in Procs, NEW t \in Tasks, Finish(p, t) PROVE SchemaInv'
  BY <1>12 DEF Finish, Becomes
<1>13. ASSUME NEW p \in Procs, NEW t \in Tasks, MirrorFinish(p, t) PROVE SchemaInv'
  BY <1>13 DEF MirrorFinish, Goto, Becomes
<1>14. ASSUME NEW t \in Tasks, PsRemove(t) \/ PsWrite(t) PROVE SchemaInv'
  BY <1>14 DEF PsRemove, PsWrite
<1> QED
  BY <1>1, <1>2, <1>3, <1>4, <1>5, <1>6, <1>7, <1>8, <1>9, <1>10, <1>11, <1>12, <1>13, <1>14
  DEF Next, Step

LEMMA OpenInvariant == Spec => []OpenInv
<1>1. Init => OpenInv
  BY InitOpen
<1>2. OpenInv /\ [Next]_vars => OpenInv'
  BY NextTypes, NextSchema DEF OpenInv
<1> QED  BY <1>1, <1>2, PTL DEF Spec

\* The schema, the tasks and the processes keep their types (EnsureLayout, migrate,
\* importFilesystemIfEmpty, RollbackTo), for any processes, versions and tasks.
THEOREM OpenTypeCorrect == Spec => []OpenTypeOK
<1>1. OpenInv => OpenTypeOK
  BY DEF OpenInv, OpenTypes, OpenTypeOK
<1> QED  BY <1>1, OpenInvariant, PTL

\* The version recorded in schema_meta never exceeds the objects that exist, however
\* many processes migrate at once, whatever their versions, and wherever one stops.
THEOREM VersionBacked == Spec => []SchemaBacksVersion
<1>1. OpenInv => SchemaBacksVersion
  BY DEF OpenInv, SchemaInv
<1> QED  BY <1>1, OpenInvariant, PTL

\* A process that has opened the store finds every table, column and index its own
\* version creates, although a slower one may have recorded a lower version since.
THEOREM ReadyHasSchema == Spec => []ReadyFindsSchema
<1>1. OpenInv => ReadyFindsSchema
  BY DEF OpenInv, SchemaInv, Promised, ReadyFindsSchema
<1> QED  BY <1>1, OpenInvariant, PTL

-------------------------------------------------------------------------------
(***************************************************************************)
(* The import.  Once somebody has got as far as it, every task on disk has *)
(* its row or a process that has yet to write it: the buckets are listed   *)
(* in an order in which a finished copy comes last, so that the process    *)
(* that imported a stale copy of a task still owes it the finished one.    *)
(***************************************************************************)

\* Process q has yet to put the contract of t that lies in the i-th bucket into its row.
Owes(q, t, i) ==
    \/ At(q, "list") /\ opener[q].at <= i
    \/ At(q, "import") /\ (opener[q].at < i \/ (opener[q].at = i /\ t \in opener[q].list))

\* Somebody has got as far as the import.
Underway ==
    \/ rows # NoRows
    \/ \E p \in Procs : opener[p].pc \in {"list", "import", "ready", "mirror"}

CountTypes == count \in [opens : Nat, rollbacks : Nat]

\* The files only PowerShell may take away.
FilesKept ==
    \A t \in Tasks \ moved :
        /\ initial[t] # {} => files[t] # {}
        /\ "done" \in initial[t] => "done" \in files[t]

\* Every task on disk has its row, or a process that will write it.
RowOrImporter ==
    Underway => \A t \in Tasks \ moved :
        /\ initial[t] # {} =>
             \/ rows[t] # "absent"
             \/ \E q \in Procs, i \in 1..2 : ImportOrder[i] \in files[t] /\ Owes(q, t, i)
        /\ "done" \in initial[t] => rows[t] = "done" \/ \E q \in Procs : Owes(q, t, 2)

Undisturbed == ~broken /\ count.rollbacks = 0

ImportInv ==
    /\ CountTypes /\ FilesKept
    /\ \A p \in Procs : At(p, "down") => count.rollbacks > 0
    /\ Undisturbed =>
         /\ \A p \in Procs : At(p, "mirror") => \A t \in opener[p].list : rows[t] # "absent"
         /\ RowOrImporter

LEMMA BecomesEffect ==
    ASSUME OpenTypes, NEW p \in Procs, NEW label, NEW at, NEW list, Becomes(p, label, at, list)
    PROVE  /\ opener'[p].pc = label /\ opener'[p].at = at /\ opener'[p].list = list
           /\ \A q \in Procs \ {p} : opener'[q] = opener[q]
  BY DEF Becomes, OpenTypes

LEMMA Buckets12 == ImportOrder[1] = "live" /\ ImportOrder[2] = "done" /\ DOMAIN ImportOrder = 1..2
  BY DEF ImportOrder

LEMMA ImportInit == Init => ImportInv
<1> SUFFICES ASSUME Init PROVE ImportInv
  OBVIOUS
<1>1. CountTypes /\ FilesKept
  BY DEF Init, CountTypes, FilesKept
<1>2. \A p \in Procs : opener[p].pc = "closed"
  BY DEF Init, Closed
<1>3. ~Underway
  BY <1>2 DEF Init, Underway
<1> QED  BY <1>1, <1>2, <1>3 DEF ImportInv, RowOrImporter, At

\* A step that moves no process past a task it owes, and takes no row away.
LEMMA DebtsKept ==
    ASSUME RowOrImporter, Underway, UNCHANGED <<files, initial, moved>>,
           \A t \in Tasks : rows[t] # "absent" => rows'[t] # "absent",
           \A t \in Tasks : rows[t] = "done" =>
               rows'[t] = "done" \/ \E q \in Procs : Owes(q, t, 2)',
           \A q \in Procs, t \in Tasks, i \in 1..2 :
               ImportOrder[i] \in files[t] /\ Owes(q, t, i) =>
                   \/ Owes(q, t, i)'
                   \/ rows'[t] # "absent" /\ (i = 2 => rows'[t] = "done"),
           FilesKept
    PROVE  RowOrImporter'
<1> SUFFICES ASSUME NEW t \in Tasks \ moved
             PROVE  /\ initial[t] # {} =>
                         \/ rows'[t] # "absent"
                         \/ \E q \in Procs, i \in 1..2 :
                               ImportOrder[i] \in files[t] /\ Owes(q, t, i)'
                    /\ "done" \in initial[t] =>
                         rows'[t] = "done" \/ \E q \in Procs : Owes(q, t, 2)'
  BY DEF RowOrImporter
<1>1. ASSUME initial[t] # {}, rows[t] = "absent"
      PROVE  \/ rows'[t] # "absent"
             \/ \E q \in Procs, i \in 1..2 : ImportOrder[i] \in files[t] /\ Owes(q, t, i)'
  <2>1. PICK q \in Procs, i \in 1..2 : ImportOrder[i] \in files[t] /\ Owes(q, t, i)
    BY <1>1 DEF RowOrImporter
  <2> QED  BY <2>1
<1>2. ASSUME "done" \in initial[t]
      PROVE  rows'[t] = "done" \/ \E q \in Procs : Owes(q, t, 2)'
  <2>1. ImportOrder[2] \in files[t]
    BY <1>2, Buckets12 DEF FilesKept
  <2>2. rows[t] = "done" \/ \E q \in Procs : Owes(q, t, 2)
    BY <1>2 DEF RowOrImporter
  <2>3. 2 \in 1..2
    OBVIOUS
  <2> QED  BY <2>1, <2>2, <2>3
<1>3. initial[t] # {} =>
        \/ rows'[t] # "absent"
        \/ \E q \in Procs, i \in 1..2 : ImportOrder[i] \in files[t] /\ Owes(q, t, i)'
  BY <1>1
<1> QED  BY <1>2, <1>3

\* The same for a step of one process that leaves rows and files alone.
LEMMA MoveKeepsDebts ==
    ASSUME RowOrImporter, Underway, FilesKept, NEW p \in Procs,
           UNCHANGED <<rows, files, initial, moved>>,
           \A q \in Procs \ {p} : opener'[q] = opener[q],
           \A t \in Tasks, i \in 1..2 :
               ImportOrder[i] \in files[t] /\ Owes(p, t, i) => Owes(p, t, i)'
    PROVE  RowOrImporter'
<1>1. ASSUME NEW q \in Procs, NEW t \in Tasks, NEW i \in 1..2,
             ImportOrder[i] \in files[t], Owes(q, t, i)
      PROVE  Owes(q, t, i)'
  BY <1>1 DEF Owes, At
<1> QED  BY <1>1, DebtsKept

LEMMA ImportNext == OpenInv /\ ImportInv /\ [Next]_vars => ImportInv'
<1> SUFFICES ASSUME OpenInv, ImportInv, [Next]_vars PROVE ImportInv'
  OBVIOUS
<1>0. /\ OpenTypes /\ CountTypes /\ FilesKept
      /\ opener \in [Procs -> [pc : Labels, at : 0..4, list : SUBSET Tasks]]
      /\ rows \in [Tasks -> Status] /\ files \in [Tasks -> SUBSET {"live", "done"}]
      /\ broken \in BOOLEAN
      /\ \A p \in Procs : Promised(p)
      /\ \A p \in Procs : At(p, "down") => count.rollbacks > 0
      /\ count \in [opens : Nat, rollbacks : Nat]
  BY DEF OpenInv, OpenTypes, SchemaInv, ImportInv, CountTypes
<1>m. Undisturbed => \A p \in Procs : At(p, "mirror") => \A t \in opener[p].list : rows[t] # "absent"
  BY DEF ImportInv
<1>i. Undisturbed => RowOrImporter
  BY DEF ImportInv
<1> USE DEF schema, history
\* What is left to show of a step of one process that rolls nothing back.
<1>p. ASSUME NEW p \in Procs, UNCHANGED <<files, initial, moved>>, CountTypes',
             \A q \in Procs \ {p} : opener'[q] = opener[q],
             opener'[p].pc \notin {"down", "mirror"},
             \A t \in Tasks : rows[t] # "absent" => rows'[t] # "absent",
             count'.rollbacks = count.rollbacks, broken => broken',
             Undisturbed /\ Undisturbed' => RowOrImporter'
      PROVE  ImportInv'
  <2>1. FilesKept'
    BY <1>0, <1>p DEF FilesKept
  <2>2. \A q \in Procs : At(q, "down")' => count'.rollbacks > 0
    BY <1>0, <1>p DEF At
  <2>3. Undisturbed' => Undisturbed
    BY <1>0, <1>p DEF Undisturbed
  <2>4. ASSUME Undisturbed', NEW q \in Procs, At(q, "mirror")', NEW t \in opener'[q].list
        PROVE  rows'[t] # "absent"
    <3>1. q # p /\ opener'[q] = opener[q]
      BY <1>p, <2>4 DEF At
    <3>2. t \in opener[q].list /\ At(q, "mirror") /\ t \in Tasks
      BY <1>0, <2>4, <3>1 DEF At
    <3> QED  BY <1>m, <1>p, <2>3, <2>4, <3>2
  <2> QED  BY <1>p, <2>1, <2>2, <2>3, <2>4 DEF ImportInv
<1>1. CASE UNCHANGED vars
  <2>1. UNCHANGED <<rows, files, opener, initial, moved, broken, count>>
    BY <1>1 DEF vars
  <2> QED
    BY <2>1 DEF ImportInv, CountTypes, FilesKept, RowOrImporter, Underway, Owes, At, Undisturbed
<1>2. ASSUME NEW p \in Procs, Open(p) PROVE ImportInv'
  <2>1. /\ UNCHANGED <<rows, files, initial, moved, broken>>
        /\ count'.rollbacks = count.rollbacks /\ CountTypes' /\ At(p, "closed")
    BY <1>0, <1>2 DEF Open, CountTypes
  <2>2. /\ opener'[p].pc \in {"closed", "up"}
        /\ \A q \in Procs \ {p} : opener'[q] = opener[q]
    BY <1>0, <1>2, BecomesEffect DEF Open, Goto, At
  <2>3. Underway' => Underway
    BY <2>1, <2>2 DEF Underway
  <2>4. \A t \in Tasks, i \in 1..2 : ~Owes(p, t, i)
    BY <2>1 DEF Owes, At
  <2>5. Undisturbed => RowOrImporter'
    <3>1. CASE Underway
      BY <1>0, <1>i, <2>1, <2>2, <2>4, <3>1, MoveKeepsDebts
    <3>2. CASE ~Underway
      BY <2>3, <3>2 DEF RowOrImporter
    <3> QED  BY <3>1, <3>2
  <2> QED  BY <1>p, <2>1, <2>2, <2>5
<1>3. ASSUME NEW p \in Procs, Up(p) PROVE ImportInv'
  <2>1. UNCHANGED <<rows, files, initial, moved, broken, count>> /\ At(p, "up")
    BY <1>3 DEF Up
  <2>2. /\ opener'[p].pc = "up"
        /\ \A q \in Procs \ {p} : opener'[q] = opener[q]
    BY <1>0, <1>3, BecomesEffect DEF Up, Goto
  <2>3. Underway' => Underway
    BY <2>1, <2>2 DEF Underway, At
  <2>4. \A t \in Tasks, i \in 1..2 : ~Owes(p, t, i)
    BY <2>1 DEF Owes, At
  <2>5. Undisturbed => RowOrImporter'
    <3>1. CASE Underway
      BY <1>0, <1>i, <2>1, <2>2, <2>4, <3>1, MoveKeepsDebts
    <3>2. CASE ~Underway
      BY <2>3, <3>2 DEF RowOrImporter
    <3> QED  BY <3>1, <3>2
  <2>6. CountTypes'
    BY <1>0, <2>1 DEF CountTypes
  <2> QED  BY <1>p, <2>1, <2>2, <2>5, <2>6
<1>4. ASSUME NEW p \in Procs, CountRows(p) PROVE ImportInv'
  <2>1. UNCHANGED <<rows, files, initial, moved, broken, count>> /\ At(p, "up")
    BY <1>4 DEF CountRows
  <2>2. CountTypes' /\ \A t \in Tasks, i \in 1..2 : ~Owes(p, t, i)
    BY <1>0, <2>1 DEF CountTypes, Owes, At
  <2>3. CASE rows = NoRows
    <3>1. Becomes(p, "list", 1, {})
      BY <1>4, <2>3 DEF CountRows, Goto
    <3>2. /\ opener'[p].pc = "list" /\ opener'[p].at = 1
          /\ \A q \in Procs \ {p} : opener'[q] = opener[q]
      BY <1>0, <3>1, BecomesEffect
    <3>3. \A t \in Tasks, i \in 1..2 : Owes(p, t, i)'
      BY <3>2 DEF Owes, At
    <3>4. RowOrImporter'
      <4> SUFFICES ASSUME NEW t \in Tasks \ moved
                   PROVE  /\ initial[t] # {} => \E i \in 1..2 : ImportOrder[i] \in files[t]
                          /\ Owes(p, t, 2)'
        BY <2>1, <3>3 DEF RowOrImporter
      <4>1. initial[t] # {} => "live" \in files[t] \/ "done" \in files[t]
        BY <1>0 DEF FilesKept
      <4>2. 1 \in 1..2 /\ 2 \in 1..2
        OBVIOUS
      <4> QED  BY <3>3, <4>1, <4>2, Buckets12
    <3> QED  BY <1>p, <2>1, <2>2, <3>2, <3>4
  <2>4. CASE rows # NoRows
    <3>1. Becomes(p, "ready", 0, {})
      BY <1>4, <2>4 DEF CountRows, Goto
    <3>2. /\ opener'[p].pc = "ready"
          /\ \A q \in Procs \ {p} : opener'[q] = opener[q]
      BY <1>0, <3>1, BecomesEffect
    <3>3. Underway
      BY <2>4 DEF Underway
    <3>4. Undisturbed => RowOrImporter'
      BY <1>0, <1>i, <2>1, <2>2, <3>2, <3>3, MoveKeepsDebts
    <3> QED  BY <1>p, <2>1, <2>2, <3>2, <3>4
  <2> QED  BY <2>3, <2>4
<1>5. ASSUME NEW p \in Procs, ListBucket(p) PROVE ImportInv'
  <2> DEFINE at == opener[p].at
  <2>1. UNCHANGED <<rows, files, initial, moved, broken, count>> /\ At(p, "list") /\ at \in 1..2
    BY <1>5, Buckets12 DEF ListBucket
  <2>2. /\ opener'[p].pc = "import" /\ opener'[p].at = at
        /\ opener'[p].list = {t \in Tasks : ImportOrder[at] \in files[t]}
        /\ \A q \in Procs \ {p} : opener'[q] = opener[q]
    BY <1>0, <1>5, BecomesEffect DEF ListBucket
  <2>3. ASSUME NEW t \in Tasks, NEW i \in 1..2, ImportOrder[i] \in files[t], Owes(p, t, i)
        PROVE  Owes(p, t, i)'
    <3>1. at <= i
      BY <2>1, <2>3 DEF Owes, At
    <3> QED  BY <2>1, <2>2, <2>3, <3>1 DEF Owes, At
  <2>4. Underway
    BY <2>1 DEF Underway, At
  <2>5. Undisturbed => RowOrImporter'
    BY <1>0, <1>i, <2>1, <2>2, <2>3, <2>4, MoveKeepsDebts
  <2>6. CountTypes'
    BY <1>0, <2>1 DEF CountTypes
  <2> QED  BY <1>p, <2>1, <2>2, <2>5, <2>6
<1>6. ASSUME NEW p \in Procs, NextBucket(p) PROVE ImportInv'
  <2> DEFINE at == opener[p].at
  <2>1. /\ UNCHANGED <<rows, files, initial, moved, broken, count>> /\ At(p, "import")
        /\ opener[p].list = {} /\ at \in 1..2
    BY <1>0, <1>6 DEF NextBucket, Promised
  <2>2. /\ opener'[p].pc = "list" /\ opener'[p].at = at + 1
        /\ \A q \in Procs \ {p} : opener'[q] = opener[q]
    BY <1>0, <1>6, BecomesEffect DEF NextBucket, Goto
  <2>3. ASSUME NEW t \in Tasks, NEW i \in 1..2, ImportOrder[i] \in files[t], Owes(p, t, i)
        PROVE  Owes(p, t, i)'
    BY <2>1, <2>2, <2>3 DEF Owes, At
  <2>4. Underway
    BY <2>1 DEF Underway, At
  <2>5. Undisturbed => RowOrImporter'
    BY <1>0, <1>i, <2>1, <2>2, <2>3, <2>4, MoveKeepsDebts
  <2>6. CountTypes'
    BY <1>0, <2>1 DEF CountTypes
  <2> QED  BY <1>p, <2>1, <2>2, <2>5, <2>6
<1>7. ASSUME NEW p \in Procs, Opened(p) PROVE ImportInv'
  <2>1. /\ UNCHANGED <<rows, files, initial, moved, broken, count>> /\ At(p, "list")
        /\ opener[p].at = 3
    BY <1>0, <1>7, Buckets12 DEF Opened, Promised
  <2>2. /\ opener'[p].pc = "ready"
        /\ \A q \in Procs \ {p} : opener'[q] = opener[q]
    BY <1>0, <1>7, BecomesEffect DEF Opened, Goto
  <2>3. \A t \in Tasks, i \in 1..2 : ~Owes(p, t, i)
    BY <2>1 DEF Owes, At
  <2>4. Underway
    BY <2>1 DEF Underway, At
  <2>5. Undisturbed => RowOrImporter'
    BY <1>0, <1>i, <2>1, <2>2, <2>3, <2>4, MoveKeepsDebts
  <2>6. CountTypes'
    BY <1>0, <2>1 DEF CountTypes
  <2> QED  BY <1>p, <2>1, <2>2, <2>5, <2>6
<1>8. ASSUME NEW p \in Procs, Close(p) PROVE ImportInv'
  <2>1. /\ UNCHANGED <<rows, files, initial, moved, count>>
        /\ broken' = (broken \/ opener[p].pc \in {"list", "import"})
    BY <1>8 DEF Close
  <2>2. /\ opener'[p].pc = "closed"
        /\ \A q \in Procs \ {p} : opener'[q] = opener[q]
    BY <1>0, <1>8 DEF Close, Closed
  <2>3. CountTypes'
    BY <1>0, <2>1 DEF CountTypes
  <2>4. Undisturbed /\ Undisturbed' => RowOrImporter'
    <3> SUFFICES ASSUME Undisturbed, Undisturbed' PROVE RowOrImporter'
      OBVIOUS
    <3>1. opener[p].pc \notin {"list", "import"}
      BY <1>0, <2>1 DEF Undisturbed
    <3>2. \A t \in Tasks, i \in 1..2 : ~Owes(p, t, i)
      BY <3>1 DEF Owes, At
    <3>3. Underway' => Underway
      BY <2>1, <2>2 DEF Underway
    <3>4. CASE Underway
      BY <1>0, <1>i, <2>1, <2>2, <3>2, <3>4, MoveKeepsDebts
    <3>5. CASE ~Underway
      BY <3>3, <3>5 DEF RowOrImporter
    <3> QED  BY <3>4, <3>5
  <2> QED  BY <1>p, <2>1, <2>2, <2>3, <2>4
<1>9. ASSUME NEW p \in Procs, RollBack(p) \/ Down(p) PROVE ImportInv'
  <2>1. /\ UNCHANGED <<files, initial, moved, broken>>
        /\ count' = count \/ count' = [count EXCEPT !.rollbacks = @ + 1]
        /\ count'.rollbacks > 0
    BY <1>0, <1>9 DEF RollBack, Down
  <2>2. CountTypes' /\ ~Undisturbed'
    BY <1>0, <2>1 DEF CountTypes, Undisturbed
  <2> QED  BY <1>0, <2>1, <2>2 DEF ImportInv, FilesKept
<1>10. ASSUME NEW p \in Procs, NEW t \in Tasks, ImportTask(p, t) PROVE ImportInv'
  <2> DEFINE at == opener[p].at
  <2>1. /\ UNCHANGED <<files, initial, moved, broken, count>> /\ At(p, "import")
        /\ t \in opener[p].list /\ at \in 1..2
        /\ rows' = [rows EXCEPT ![t] = ImportOrder[at]]
    BY <1>0, <1>10 DEF ImportTask, Promised
  <2>2. /\ opener'[p].pc = "import" /\ opener'[p].at = at
        /\ opener'[p].list = opener[p].list \ {t}
        /\ \A q \in Procs \ {p} : opener'[q] = opener[q]
    BY <1>0, <1>10, BecomesEffect DEF ImportTask
  <2>3. /\ rows'[t] \in {"live", "done"} /\ (at = 2 => rows'[t] = "done")
        /\ \A u \in Tasks \ {t} : rows'[u] = rows[u]
    BY <1>0, <2>1, Buckets12
  <2>4. ASSUME NEW q \in Procs, NEW u \in Tasks, NEW i \in 1..2, Owes(q, u, i)
        PROVE  \/ Owes(q, u, i)'
               \/ rows'[u] # "absent" /\ (i = 2 => rows'[u] = "done")
    <3>1. CASE q # p
      BY <2>2, <2>4, <3>1 DEF Owes, At
    <3>2. CASE q = p
      <4>1. at < i \/ (at = i /\ u \in opener[p].list)
        BY <2>1, <2>4, <3>2 DEF Owes, At
      <4>2. CASE at < i \/ u # t
        BY <2>2, <3>2, <4>1, <4>2 DEF Owes, At
      <4>3. CASE u = t /\ at = i
        BY <2>3, <4>3
      <4> QED  BY <4>1, <4>2, <4>3
    <3> QED  BY <3>1, <3>2
  <2>5. rows'[t] = "done" \/ Owes(p, t, 2)'
    <3>1. CASE at = 2
      BY <2>3, <3>1
    <3>2. CASE at = 1
      BY <2>2, <3>2 DEF Owes, At
    <3> QED  BY <2>1, <3>1, <3>2
  <2>6. Underway
    BY <2>1 DEF Underway, At
  <2>7. /\ \A u \in Tasks : rows[u] # "absent" => rows'[u] # "absent"
        /\ \A u \in Tasks : rows[u] = "done" =>
               rows'[u] = "done" \/ \E q \in Procs : Owes(q, u, 2)'
    BY <2>3, <2>5
  <2>8. Undisturbed => RowOrImporter'
    BY <1>0, <1>i, <2>1, <2>4, <2>6, <2>7, DebtsKept
  <2>9. CountTypes'
    BY <1>0, <2>1 DEF CountTypes
  <2> QED  BY <1>p, <2>1, <2>2, <2>7, <2>8, <2>9
<1>11. ASSUME NEW p \in Procs, NEW t \in Tasks, Finish(p, t) PROVE ImportInv'
  <2>1. /\ UNCHANGED <<files, initial, moved, broken, count>> /\ At(p, "ready")
        /\ rows' = [rows EXCEPT ![t] = "done"]
    BY <1>11 DEF Finish
  <2>2. /\ opener'[p].pc = "mirror" /\ opener'[p].list = {t}
        /\ \A q \in Procs \ {p} : opener'[q] = opener[q]
    BY <1>0, <1>11, BecomesEffect DEF Finish
  <2>3. rows'[t] = "done" /\ \A u \in Tasks \ {t} : rows'[u] = rows[u]
    BY <1>0, <2>1
  <2>4. \A q \in Procs, u \in Tasks, i \in 1..2 : Owes(q, u, i) => Owes(q, u, i)'
    BY <2>1, <2>2 DEF Owes, At
  <2>5. Underway
    BY <2>1 DEF Underway, At
  <2>6. Undisturbed => RowOrImporter'
    BY <1>0, <1>i, <2>1, <2>3, <2>4, <2>5, DebtsKept
  <2>7. ASSUME Undisturbed, NEW q \in Procs, At(q, "mirror")', NEW u \in opener'[q].list
        PROVE  rows'[u] # "absent"
    <3>1. CASE q = p
      BY <2>2, <2>3, <2>7, <3>1
    <3>2. CASE q # p
      <4>1. At(q, "mirror") /\ u \in opener[q].list /\ u \in Tasks
        BY <1>0, <2>2, <2>7, <3>2 DEF At
      <4> QED  BY <1>m, <2>3, <2>7, <4>1
    <3> QED  BY <3>1, <3>2
  <2>8. \A q \in Procs : ~At(q, "down")' \/ At(q, "down")
    BY <2>2 DEF At
  <2> QED
    BY <1>0, <2>1, <2>6, <2>7, <2>8 DEF ImportInv, CountTypes, FilesKept, Undisturbed
<1>12. ASSUME NEW p \in Procs, NEW t \in Tasks, MirrorFinish(p, t) PROVE ImportInv'
  <2>1. /\ UNCHANGED <<rows, initial, moved, broken, count>> /\ At(p, "mirror")
        /\ t \in opener[p].list
    BY <1>12 DEF MirrorFinish
  <2>2. /\ opener'[p] = opener[p] \/ opener'[p].pc = "ready"
        /\ \A q \in Procs \ {p} : opener'[q] = opener[q]
    BY <1>0, <1>12, BecomesEffect DEF MirrorFinish, Goto
  <2>3. /\ \A u \in Tasks \ {t} : files'[u] = files[u]
        /\ "done" \in files'[t]
    BY <1>0, <1>12 DEF MirrorFinish
  <2>4. FilesKept'
    BY <1>0, <2>1, <2>3 DEF FilesKept
  <2>5. \A q \in Procs, u \in Tasks, i \in 1..2 : Owes(q, u, i) => Owes(q, u, i)'
    BY <2>1, <2>2 DEF Owes, At
  <2>6. Underway
    BY <2>1 DEF Underway, At
  <2>7. ASSUME Undisturbed PROVE RowOrImporter'
    <3>1. rows[t] # "absent" /\ RowOrImporter
      BY <1>i, <1>m, <2>1, <2>7
    <3> SUFFICES ASSUME NEW u \in Tasks \ moved
                 PROVE  /\ initial[u] # {} =>
                             \/ rows[u] # "absent"
                             \/ \E q \in Procs, i \in 1..2 :
                                   ImportOrder[i] \in files'[u] /\ Owes(q, u, i)'
                        /\ "done" \in initial[u] =>
                             rows[u] = "done" \/ \E q \in Procs : Owes(q, u, 2)'
      BY <2>1 DEF RowOrImporter
    <3>2. 2 \in 1..2
      OBVIOUS
    <3>3. "done" \in initial[u] => rows[u] = "done" \/ \E q \in Procs : Owes(q, u, 2)'
      BY <2>5, <2>6, <3>1, <3>2 DEF RowOrImporter
    <3>4. CASE u = t
      BY <3>1, <3>3, <3>4
    <3>5. CASE u # t
      BY <2>3, <2>5, <2>6, <3>1, <3>3, <3>5 DEF RowOrImporter
    <3> QED  BY <3>4, <3>5
  <2>8. ASSUME Undisturbed, NEW q \in Procs, At(q, "mirror")', NEW u \in opener'[q].list
        PROVE  rows'[u] # "absent"
    <3>1. At(q, "mirror") /\ u \in opener[q].list
      BY <2>1, <2>2, <2>8 DEF At
    <3> QED  BY <1>m, <2>1, <2>8, <3>1
  <2>9. \A q \in Procs : ~At(q, "down")' \/ At(q, "down")
    BY <2>2 DEF At
  <2> QED
    BY <1>0, <2>1, <2>4, <2>7, <2>8, <2>9 DEF ImportInv, CountTypes, Undisturbed
<1>13. ASSUME NEW t \in Tasks, PsRemove(t) \/ PsWrite(t) PROVE ImportInv'
  <2>1. /\ UNCHANGED <<rows, opener, initial, broken, count>>
        /\ moved' = moved \cup {t}
        /\ \A u \in Tasks \ {t} : files'[u] = files[u]
    BY <1>0, <1>13 DEF PsRemove, PsWrite
  <2>2. FilesKept' /\ CountTypes'
    BY <1>0, <2>1 DEF FilesKept, CountTypes
  <2>3. \A q \in Procs, u \in Tasks, i \in 1..2 : Owes(q, u, i) => Owes(q, u, i)'
    BY <2>1 DEF Owes, At
  <2>4. ASSUME RowOrImporter PROVE RowOrImporter'
    <3>1. Underway' => Underway
      BY <2>1 DEF Underway
    <3> SUFFICES ASSUME Underway, NEW u \in (Tasks \ moved) \ {t}
                 PROVE  /\ initial[u] # {} =>
                             \/ rows[u] # "absent"
                             \/ \E q \in Procs, i \in 1..2 :
                                   ImportOrder[i] \in files'[u] /\ Owes(q, u, i)'
                        /\ "done" \in initial[u] =>
                             rows[u] = "done" \/ \E q \in Procs : Owes(q, u, 2)'
      BY <2>1, <3>1 DEF RowOrImporter
    <3>2. 2 \in 1..2 /\ files'[u] = files[u]
      BY <2>1
    <3> QED  BY <2>3, <2>4, <3>2 DEF RowOrImporter
  <2> QED
    BY <1>0, <1>i, <1>m, <2>1, <2>2, <2>4 DEF ImportInv, Undisturbed, At
<1> QED
  BY <1>1, <1>2, <1>3, <1>4, <1>5, <1>6, <1>7, <1>8, <1>9, <1>10, <1>11, <1>12, <1>13
  DEF Next, Step

\* Once the imports are over, and none was cut short, every task that was on disk has its
\* row, and one that was finished there is finished in its row, however many processes
\* imported at once (store.go, importFilesystemIfEmpty).
THEOREM ImportsEverything == Spec => []ImportComplete
<1>1. ImportInv => ImportComplete
  <2> SUFFICES ASSUME ImportInv, Undisturbed, \E p \in Procs : At(p, "ready"),
                      \A p \in Procs : opener[p].pc \notin {"list", "import"}
               PROVE  \A t \in Tasks \ moved :
                        /\ initial[t] # {} => rows[t] # "absent"
                        /\ "done" \in initial[t] => rows[t] = "done"
    BY DEF ImportComplete, Undisturbed
  <2>1. Underway
    BY DEF Underway, At
  <2>2. \A q \in Procs, t \in Tasks, i \in 1..2 : ~Owes(q, t, i)
    BY DEF Owes, At
  <2>3. 2 \in 1..2
    OBVIOUS
  <2> QED  BY <2>1, <2>2, <2>3 DEF ImportInv, RowOrImporter
<1> QED  BY <1>1, ImportInit, ImportNext, OpenInvariant, PTL DEF Spec
===============================================================================
