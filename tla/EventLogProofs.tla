----------------------------- MODULE EventLogProofs -----------------------------
(***************************************************************************)
(* For any number of processes, events and days, no event is lost          *)
(* (NothingIsLost), none is kept twice (RecordedExactlyOnce), and a reader *)
(* that nothing disturbed has seen them all (QuietReadComplete).           *)
(*                                                                         *)
(* NothingLost is not inductive: a compaction removes a file because it    *)
(* has appended its line, a retention removes an archive because it was    *)
(* outdated when it was listed, and a migration renames the legacy file    *)
(* because every line has become a file.  What a process relies on must    *)
(* survive the steps of all the others.                                    *)
(***************************************************************************)
EXTENDS EventLog, Integers, FiniteSetTheorems, TLAPS

Labels == {"idle", "done", "write", "legacy", "lines", "list", "files", "append", "remove",
           "retain", "see", "months", "archives", "pending"}

Process ==
    [pc: Labels, op: DOMAIN Start, migration: 0..MaxMigrations, at: SUBSET Files,
     todo: SUBSET (Files \cup Events \cup Int), listed: SUBSET Files,
     seen: [Events -> Nat], began: SUBSET Events]

LogTypes ==
    /\ EventTypeOK
    /\ proc \in [Procs -> Process]
    /\ runs \in [all: Nat, migrate: 0..MaxMigrations]

\* What has become of an event: in its archive, or retired with it ...
Archived(e) == archive[e] > 0 \/ Outdated(MonthOf(e))

\* ... or in a file of pending.
Moved(e) == Archived(e) \/ \E f \in pending : f.event = e

\* What a process relies on for its next removal.
Relies(p) ==
    /\ proc[p].pc \in {"append", "remove"} =>
         \E f \in Files : proc[p].at = {f} /\ f.event \in recorded
    /\ At(p, "remove") => \A f \in proc[p].at : Archived(f.event)
    /\ At(p, "lines") =>
         /\ proc[p].todo \subseteq recorded
         /\ \A e \in legacy \ proc[p].todo : Moved(e)
    /\ At(p, "retain") => \A m \in proc[p].todo : m \in Int /\ Outdated(m)

KeptInv ==
    /\ legacy \subseteq recorded
    /\ \A f \in pending : f.event \in recorded
    /\ \A p \in Procs : Relies(p)
    /\ NothingLost

LogInv == LogTypes /\ KeptInv

-------------------------------------------------------------------------------
LEMMA FileIsFile ==
    ASSUME NEW e \in Events, NEW m \in 0..MaxMigrations
    PROVE  File(e, m) \in Files /\ File(e, m).event = e
  BY DEF File, Files

LEMMA FileHasEvent == ASSUME NEW f \in Files PROVE f.event \in Events
  BY DEF File, Files

LEMMA RestingIsProcess == Resting \in Process
  BY EventLogAssumption DEF Resting, Process, Labels, Start, None

\* A month is a number (ToString('yyyy-MM')).
LEMMA MonthIsNumber == ASSUME LogTypes, NEW e \in Events PROVE MonthOf(e) \in Int
<1>1. day[e] \in Nat  BY DEF LogTypes, EventTypeOK
<1>2. day[e] % DaysPerMonth \in Int  BY <1>1, EventLogAssumption
<1> QED  BY <1>1, <1>2 DEF MonthOf, MonthStart

LEMMA MonthsAreNumbers == ASSUME LogTypes PROVE Months \subseteq Int
  BY MonthIsNumber DEF Months

LEMMA InitTypes == Init => LogTypes
<1> SUFFICES ASSUME Init PROVE LogTypes
  OBVIOUS
<1>1. proc \in [Procs -> Process]  BY RestingIsProcess DEF Init
<1>2. runs \in [all: Nat, migrate: 0..MaxMigrations]  BY EventLogAssumption DEF Init
<1>3. EventTypeOK  BY DEF Init, EventTypeOK, None
<1> QED  BY <1>1, <1>2, <1>3 DEF LogTypes

LEMMA BeginTypes == ASSUME LogTypes, NEW p \in Procs, Begin(p) PROVE LogTypes'
<1>1. PICK op \in DOMAIN Start :
        /\ Migration(op) <= MaxMigrations
        /\ runs' = [all |-> runs.all + 1,
                    migrate |-> IF op = "migrate" THEN Migration(op) ELSE runs.migrate]
        /\ proc' = [proc EXCEPT ![p] = [Resting EXCEPT !.pc = Start[op], !.op = op,
                                                      !.migration = Migration(op)]]
  BY Zenon DEF Begin
<1>2. runs.migrate \in 0..MaxMigrations /\ runs.all \in Nat /\ MaxMigrations \in Nat
  BY EventLogAssumption DEF LogTypes
<1>3. Migration(op) \in 0..MaxMigrations  BY <1>1, <1>2 DEF Migration
<1>4. runs' \in [all: Nat, migrate: 0..MaxMigrations]  BY <1>1, <1>2, <1>3
<1>5. Start[op] \in Labels  BY DEF Start, Labels
<1>6. [Resting EXCEPT !.pc = Start[op], !.op = op, !.migration = Migration(op)] \in Process
  BY <1>3, <1>5, RestingIsProcess DEF Process
<1>7. proc' \in [Procs -> Process]  BY <1>1, <1>6 DEF LogTypes
<1>8. EventTypeOK'
  BY DEF Begin, LogTypes, EventTypeOK, events, clockwork, history
<1> QED  BY <1>4, <1>7, <1>8 DEF LogTypes

\* Moving on, with or without something to do there.
LEMMA GotoTypes ==
    ASSUME LogTypes, NEW p \in Procs, NEW l \in Labels, Goto(p, l) PROVE proc' \in [Procs -> Process]
  BY DEF LogTypes, Goto, Process

LEMMA WalkTypes ==
    ASSUME LogTypes, NEW p \in Procs, NEW l \in Labels,
           NEW todo \in SUBSET (Files \cup Events \cup Int), Walk(p, l, todo)
    PROVE  proc' \in [Procs -> Process]
  BY DEF LogTypes, Walk, Process

LEMMA MoveTypes == ASSUME LogTypes, NEW p \in Procs, Move(p) PROVE LogTypes'
<1> USE DEF LogTypes, EventTypeOK, events, clockwork, history
<1>0. proc[p] \in Process  OBVIOUS
<1>1. CASE ReadLegacyLines(p)
  <2>1. Goto(p, "list") \/ Walk(p, "lines", legacy)  BY <1>1 DEF ReadLegacyLines
  <2>2. legacy \in SUBSET (Files \cup Events \cup Int)  OBVIOUS
  <2>3. proc' \in [Procs -> Process]  BY <2>1, <2>2, GotoTypes, WalkTypes DEF Labels
  <2> QED  BY <1>1, <2>3 DEF ReadLegacyLines
<1>2. ASSUME NEW e \in Events, MigrateLine(p, e) PROVE LogTypes'
  <2>1. proc[p].todo \ {e} \in SUBSET (Files \cup Events \cup Int)  BY <1>0 DEF Process
  <2>2. proc' \in [Procs -> Process]  BY <1>2, <2>1, WalkTypes DEF MigrateLine, Labels
  <2>3. proc[p].migration \in 0..MaxMigrations  BY <1>0 DEF Process
  <2>4. pending' \subseteq Files  BY <1>2, <2>3, FileIsFile DEF MigrateLine
  <2> QED  BY <1>2, <2>2, <2>4 DEF MigrateLine
<1>3. CASE RenameLegacy(p)
  <2>1. proc' \in [Procs -> Process]  BY <1>3, GotoTypes DEF RenameLegacy, Labels
  <2> QED  BY <1>3, <2>1 DEF RenameLegacy
<1>4. CASE ListPending(p)
  <2>1. [proc[p] EXCEPT !.pc = "files", !.todo = pending, !.listed = pending] \in Process
    BY <1>0 DEF Labels, Process
  <2>2. proc' \in [Procs -> Process]  BY <1>4, <2>1 DEF ListPending
  <2> QED  BY <1>4, <2>2 DEF ListPending
<1>5. ASSUME NEW f \in pending, ReadPending(p, f) PROVE LogTypes'
  <2>1. proc' \in [Procs -> Process]  BY <1>5 DEF ReadPending, Labels, Process
  <2> QED  BY <1>5, <2>1 DEF ReadPending
<1>6. CASE AppendArchive(p)
  <2>1. proc' \in [Procs -> Process]  BY <1>6, GotoTypes DEF AppendArchive, Labels
  <2>2. proc[p].at \subseteq Files  BY <1>0 DEF Process
  <2>3. PICK f \in proc[p].at : archive' = [archive EXCEPT ![f.event] = @ + 1]
    BY <1>6 DEF AppendArchive
  <2>4. archive' \in [Events -> Nat]  BY <2>2, <2>3, FileHasEvent
  <2> QED  BY <1>6, <2>1, <2>4 DEF AppendArchive
<1>7. CASE RemovePending(p)
  <2>1. [proc[p] EXCEPT !.pc = "files", !.at = {}] \in Process
    BY <1>0 DEF Labels, Process
  <2>2. proc' \in [Procs -> Process]  BY <1>7, <2>1 DEF RemovePending
  <2> QED  BY <1>7, <2>2 DEF RemovePending
<1>8. CASE ListOutdated(p)
  <2>1. {m \in Months : Outdated(m)} \in SUBSET (Files \cup Events \cup Int)
    BY MonthsAreNumbers
  <2>2. proc' \in [Procs -> Process]  BY <1>8, <2>1, WalkTypes DEF ListOutdated, Labels
  <2> QED  BY <1>8, <2>2 DEF ListOutdated
<1>9. ASSUME NEW m \in Months, RemoveArchive(p, m) PROVE LogTypes'
  <2>1. proc[p].todo \ {m} \in SUBSET (Files \cup Events \cup Int)  BY <1>0 DEF Process
  <2>2. proc' \in [Procs -> Process]  BY <1>9, <2>1, WalkTypes DEF RemoveArchive, Labels
  <2>3. archive' \in [Events -> Nat]  BY <1>9 DEF RemoveArchive
  <2> QED  BY <1>9, <2>2, <2>3 DEF RemoveArchive
<1>10. CASE Compacted(p)
  <2>1. (IF proc[p].op = "compact" THEN "done" ELSE "see") \in Labels  BY DEF Labels
  <2>2. proc' \in [Procs -> Process]  BY <1>10, <2>1, GotoTypes DEF Compacted
  <2> QED  BY <1>10, <2>2 DEF Compacted
<1> QED  BY <1>1, <1>2, <1>3, <1>4, <1>5, <1>6, <1>7, <1>8, <1>9, <1>10 DEF Move

LEMMA ReadTypes == ASSUME LogTypes, NEW p \in Procs, Read(p) PROVE LogTypes'
<1> USE DEF LogTypes, EventTypeOK, events, clockwork, history
<1>0. proc[p] \in Process  OBVIOUS
<1>1. CASE SeeLegacy(p)
  <2>1. [proc[p] EXCEPT !.pc = "months", !.began = recorded,
           !.seen = [e \in Events |-> IF e \in legacy THEN 1 ELSE 0]] \in Process
    BY <1>0 DEF Labels, Process
  <2>2. proc' \in [Procs -> Process]  BY <1>1, <2>1 DEF SeeLegacy
  <2> QED  BY <1>1, <2>2 DEF SeeLegacy
<1>2. CASE ListArchives(p)
  <2>1. Months \in SUBSET (Files \cup Events \cup Int)  BY MonthsAreNumbers
  <2>2. proc' \in [Procs -> Process]  BY <1>2, <2>1, WalkTypes DEF ListArchives, Labels
  <2> QED  BY <1>2, <2>2 DEF ListArchives
<1>3. CASE ListFiles(p)
  <2>1. pending \in SUBSET (Files \cup Events \cup Int)  OBVIOUS
  <2>2. proc' \in [Procs -> Process]  BY <1>3, <2>1, WalkTypes DEF ListFiles, Labels
  <2> QED  BY <1>3, <2>2 DEF ListFiles
<1>4. CASE Counted(p)
  <2>1. proc' \in [Procs -> Process]  BY <1>4, GotoTypes DEF Counted, Labels
  <2> QED  BY <1>4, <2>1 DEF Counted
<1>5. ASSUME NEW m \in Months, SeeArchive(p, m) PROVE LogTypes'
  <2>1. [e \in Events |-> IF MonthOf(e) = m THEN archive[e] ELSE 0] \in [Events -> Nat]
    OBVIOUS
  <2>2. PICK found \in [Events -> Nat] :
          proc' = [proc EXCEPT ![p].todo = @ \ {m},
                               ![p].seen = [e \in Events |-> @[e] + found[e]]]
    BY <1>5, <2>1 DEF SeeArchive
  <2>3. proc[p].seen \in [Events -> Nat] /\ proc[p].todo \subseteq Files \cup Events \cup Int
    BY <1>0 DEF Process
  <2>4. [e \in Events |-> proc[p].seen[e] + found[e]] \in [Events -> Nat]  BY <2>3
  <2>5. [proc[p] EXCEPT !.todo = @ \ {m},
           !.seen = [e \in Events |-> proc[p].seen[e] + found[e]]] \in Process
    BY <1>0, <2>3, <2>4 DEF Process
  <2>6. proc' \in [Procs -> Process]  BY <2>2, <2>5
  <2> QED  BY <1>5, <2>6 DEF SeeArchive
<1>6. ASSUME NEW f \in pending, SeeFile(p, f) PROVE LogTypes'
  <2>1. f.event \in Events  BY FileHasEvent
  <2>2. proc' \in [Procs -> Process]  BY <1>6, <2>1 DEF SeeFile, Process
  <2> QED  BY <1>6, <2>2 DEF SeeFile
<1> QED  BY <1>1, <1>2, <1>3, <1>4, <1>5, <1>6 DEF Read

LEMMA OtherTypes ==
    ASSUME LogTypes, NEW p \in Procs, Die(p) \/ WriteEventFile(p) \/ NextDay
    PROVE  LogTypes'
<1> USE DEF LogTypes, EventTypeOK, events, clockwork, history
<1>1. CASE Die(p)
  BY <1>1, RestingIsProcess DEF Die
<1>2. CASE WriteEventFile(p)
  <2>1. PICK e \in Events \ recorded :
          pending' = pending \cup {File(e, 0)} /\ day' = [day EXCEPT ![e] = today]
            /\ recorded' = recorded \cup {e}
    BY <1>2 DEF WriteEventFile
  <2>2. 0 \in 0..MaxMigrations  BY EventLogAssumption
  <2>3. pending' \subseteq Files  BY <2>1, <2>2, FileIsFile
  <2>4. proc' \in [Procs -> Process]  BY <1>2, GotoTypes DEF WriteEventFile, Labels
  <2> QED  BY <1>2, <2>1, <2>3, <2>4 DEF WriteEventFile
<1>3. CASE NextDay
  BY <1>3 DEF NextDay
<1> QED  BY <1>1, <1>2, <1>3

LEMMA NextTypes == ASSUME LogTypes, [Next]_vars PROVE LogTypes'
<1>1. CASE UNCHANGED vars
  BY <1>1 DEF LogTypes, EventTypeOK, vars, events, clockwork, history
<1>2. CASE NextDay
  BY <1>2 DEF NextDay, LogTypes, EventTypeOK, events, history
<1>3. ASSUME NEW p \in Procs, Step(p) PROVE LogTypes'
  BY <1>3, BeginTypes, MoveTypes, ReadTypes, OtherTypes DEF Step
<1> QED  BY <1>1, <1>2, <1>3 DEF Next

\* The event files, the archives and the history keep their types, for any
\* processes, events and bounds.
THEOREM EventTypeCorrect == Spec => []EventTypeOK
<1>1. LogTypes => EventTypeOK  BY DEF LogTypes
<1> QED  BY <1>1, InitTypes, NextTypes, PTL DEF Spec

-------------------------------------------------------------------------------
(* No step of a process takes away what another one relies on. *)

Persists ==
    /\ recorded \subseteq recorded' /\ legacy' \subseteq legacy
    /\ \A m \in Int : Outdated(m) => Outdated(m)'
    /\ \A e \in recorded : Archived(e) => Archived(e)'
    /\ \A e \in recorded : Moved(e) => Moved(e)'

LEMMA NothingTouched ==
    ASSUME UNCHANGED <<archive, pending, clockwork>>, recorded \subseteq recorded', legacy' \subseteq legacy
    PROVE  Persists
  BY DEF Persists, Archived, Moved, Outdated, MonthOf, MonthStart, clockwork

\* More files and more archived lines do no harm either.
LEMMA MoreIsFine ==
    ASSUME LogTypes, recorded \subseteq Events, pending \subseteq pending',
           \A e \in Events : archive[e] > 0 => archive'[e] > 0,
           UNCHANGED <<clockwork, legacy, recorded>>
    PROVE  Persists
  BY DEF Persists, Archived, Moved, Outdated, MonthOf, MonthStart, clockwork

LEMMA StepPersists == ASSUME LogTypes, KeptInv, NEW p \in Procs, Step(p) PROVE Persists
<1> USE DEF events, history
<1>0. Relies(p) /\ recorded \subseteq Events /\ proc[p] \in Process
  BY DEF KeptInv, LogTypes, EventTypeOK
<1>1. CASE Begin(p)
  BY <1>1, NothingTouched DEF Begin
<1>2. CASE Die(p)
  BY <1>2, NothingTouched DEF Die
<1>3. CASE WriteEventFile(p)
  <2>1. PICK e \in Events \ recorded :
          pending' = pending \cup {File(e, 0)} /\ day' = [day EXCEPT ![e] = today]
            /\ recorded' = recorded \cup {e}
    BY <1>3 DEF WriteEventFile
  <2>2. \A d \in recorded : day'[d] = day[d]
    BY <1>0, <2>1 DEF LogTypes, EventTypeOK
  <2>3. UNCHANGED <<archive, legacy, today>>  BY <1>3 DEF WriteEventFile
  <2>4. \A d \in recorded : Outdated(MonthOf(d)) => Outdated(MonthOf(d))'
    BY <2>2, <2>3 DEF Outdated, MonthOf, MonthStart
  <2>5. \A d \in recorded : Archived(d) => Archived(d)'
    BY <2>3, <2>4 DEF Archived
  <2>6. \A d \in recorded : Moved(d) => Moved(d)'
    BY <2>1, <2>5 DEF Moved
  <2> QED  BY <2>1, <2>3, <2>5, <2>6 DEF Persists, Outdated
<1>4. CASE Move(p)
  <2>1. CASE ReadLegacyLines(p)
    BY <2>1, NothingTouched DEF ReadLegacyLines
  <2>2. ASSUME NEW e \in Events, MigrateLine(p, e) PROVE Persists
    BY <1>0, <2>2, MoreIsFine DEF MigrateLine
  <2>3. CASE RenameLegacy(p)
    BY <2>3, NothingTouched DEF RenameLegacy
  <2>4. CASE ListPending(p)
    BY <2>4, NothingTouched DEF ListPending
  <2>5. ASSUME NEW f \in pending, ReadPending(p, f) PROVE Persists
    BY <2>5, NothingTouched DEF ReadPending
  <2>6. CASE AppendArchive(p)
    <3>1. PICK f \in proc[p].at : archive' = [archive EXCEPT ![f.event] = @ + 1]
      BY <2>6 DEF AppendArchive
    <3>2. \A e \in Events : archive[e] > 0 => archive'[e] > 0
      BY <3>1 DEF LogTypes, EventTypeOK
    <3> QED  BY <1>0, <2>6, <3>2, MoreIsFine DEF AppendArchive
  <2>7. CASE RemovePending(p)
    <3>1. \A f \in proc[p].at : Archived(f.event)
      BY <1>0, <2>7 DEF Relies, RemovePending
    <3>2. pending' = pending \ proc[p].at /\ UNCHANGED <<archive, legacy, clockwork, recorded>>
      BY <2>7 DEF RemovePending
    <3>3. \A m : Outdated(m) => Outdated(m)'  BY <3>2 DEF Outdated, clockwork
    <3>4. \A e : Archived(e) => Archived(e)'
      BY <3>2 DEF Archived, Outdated, MonthOf, MonthStart, clockwork
    <3>5. \A e : Moved(e) => Moved(e)'
      BY <3>1, <3>2, <3>4 DEF Moved
    <3> QED  BY <3>2, <3>3, <3>4, <3>5 DEF Persists
  <2>8. CASE ListOutdated(p)
    BY <2>8, NothingTouched DEF ListOutdated
  <2>9. ASSUME NEW m \in Months, RemoveArchive(p, m) PROVE Persists
    <3>1. Outdated(m)  BY <1>0, <2>9 DEF Relies, RemoveArchive
    <3>2. /\ archive' = [e \in Events |-> IF MonthOf(e) = m THEN 0 ELSE archive[e]]
          /\ UNCHANGED <<pending, legacy, clockwork, recorded>>
      BY <2>9 DEF RemoveArchive
    <3>3. \A k : Outdated(k) <=> Outdated(k)'  BY <3>2 DEF Outdated, clockwork
    <3>4. \A e : MonthOf(e)' = MonthOf(e)  BY <3>2 DEF MonthOf, MonthStart, clockwork
    <3>5. \A e \in Events : Archived(e) => Archived(e)'
      <4> SUFFICES ASSUME NEW e \in Events, Archived(e) PROVE Archived(e)'
        OBVIOUS
      <4>1. CASE MonthOf(e) = m
        BY <3>1, <3>3, <3>4, <4>1 DEF Archived
      <4>2. CASE MonthOf(e) # m
        BY <3>2, <3>3, <3>4, <4>2 DEF Archived
      <4> QED  BY <4>1, <4>2
    <3>6. \A e \in Events : Moved(e) => Moved(e)'
      BY <3>2, <3>5 DEF Moved
    <3> QED  BY <1>0, <3>2, <3>3, <3>5, <3>6 DEF Persists
  <2>10. CASE Compacted(p)
    BY <2>10, NothingTouched DEF Compacted
  <2> QED  BY <1>4, <2>1, <2>2, <2>3, <2>4, <2>5, <2>6, <2>7, <2>8, <2>9, <2>10 DEF Move
<1>5. CASE Read(p)
  BY <1>5, NothingTouched DEF Read, SeeLegacy, ListArchives, ListFiles, Counted, SeeArchive, SeeFile
<1> QED  BY <1>1, <1>2, <1>3, <1>4, <1>5 DEF Step

LEMMA DayPersists == ASSUME LogTypes, NextDay PROVE Persists
<1>1. today \in Nat /\ today' = today + 1 /\ UNCHANGED <<archive, pending, legacy, recorded, day>>
  BY DEF NextDay, LogTypes, EventTypeOK, events, history
<1>2. \A m \in Int : Outdated(m) => Outdated(m)'
  BY <1>1, EventLogAssumption DEF Outdated
<1>3. \A e \in Events : MonthOf(e) \in Int /\ MonthOf(e)' = MonthOf(e)
  BY <1>1, MonthIsNumber DEF MonthOf, MonthStart
<1>4. \A e \in Events : Archived(e) => Archived(e)'
  BY <1>1, <1>2, <1>3 DEF Archived
<1>5. \A e \in Events : Moved(e) => Moved(e)'
  BY <1>1, <1>4 DEF Moved
<1>6. recorded \subseteq Events  BY DEF LogTypes, EventTypeOK
<1> QED  BY <1>1, <1>2, <1>4, <1>5, <1>6 DEF Persists

-------------------------------------------------------------------------------
\* So the other processes keep what they rely on ...
LEMMA OthersRely ==
    ASSUME NEW q \in Procs, Relies(q), legacy \subseteq recorded, Persists, proc'[q] = proc[q]
    PROVE  Relies(q)'
  BY DEF Relies, Persists, At

\* ... and a process that is where nothing is relied on relies on nothing.
LEMMA NothingRelied ==
    ASSUME NEW q \in Procs, proc'[q].pc \notin {"append", "remove", "lines", "retain"}
    PROVE  Relies(q)'
  BY DEF Relies, At

LEMMA KeptProc ==
    ASSUME LogTypes, NEW p \in Procs, NEW r, proc' = [proc EXCEPT ![p] = r]
    PROVE  proc'[p] = r /\ \A q \in Procs \ {p} : proc'[q] = proc[q]
  BY DEF LogTypes

LEMMA StepMovesOne ==
    ASSUME LogTypes, NEW p \in Procs, Step(p) PROVE \A q \in Procs \ {p} : proc'[q] = proc[q]
  BY DEF LogTypes, Step, Begin, Die, WriteEventFile, Move, Read, ReadLegacyLines, MigrateLine,
         RenameLegacy, ListPending, ReadPending, AppendArchive, RemovePending, ListOutdated,
         RemoveArchive, Compacted, SeeLegacy, ListArchives, SeeArchive, ListFiles, SeeFile,
         Counted, Goto, Walk

LEMMA MoveRelies == ASSUME LogTypes, KeptInv, NEW p \in Procs, Move(p) PROVE Relies(p)'
<1> USE DEF events, history
<1>0. Relies(p) /\ proc[p] \in Process /\ recorded \subseteq Events
  BY DEF KeptInv, LogTypes, EventTypeOK
<1>p. Persists  BY StepPersists DEF Step
<1>1. CASE ReadLegacyLines(p)
  <2>1. CASE legacy = {}
    <3>1. proc'[p].pc = "list"  BY <1>1, <2>1, <1>0 DEF ReadLegacyLines, Goto, LogTypes, Process
    <3> QED  BY <3>1, NothingRelied
  <2>2. CASE legacy # {}
    <3>1. proc'[p].pc = "lines" /\ proc'[p].todo = legacy
      BY <1>1, <2>2, <1>0 DEF ReadLegacyLines, Walk, LogTypes, Process
    <3>2. legacy' = legacy /\ recorded' = recorded  BY <1>1 DEF ReadLegacyLines
    <3> QED  BY <3>1, <3>2 DEF Relies, At, KeptInv
  <2> QED  BY <2>1, <2>2
<1>2. ASSUME NEW e \in Events, MigrateLine(p, e) PROVE Relies(p)'
  <2>1. proc'[p].pc = "lines" /\ proc'[p].todo = proc[p].todo \ {e}
    BY <1>2, <1>0 DEF MigrateLine, Walk, LogTypes, Process
  <2>2. File(e, proc[p].migration) \in pending' /\ File(e, proc[p].migration).event = e
    BY <1>2 DEF MigrateLine, File
  <2>3. legacy' = legacy /\ recorded' = recorded  BY <1>2 DEF MigrateLine
  <2>4. proc[p].todo \subseteq recorded /\ \A d \in legacy \ proc[p].todo : Moved(d)
    BY <1>0, <1>2 DEF Relies, MigrateLine, At
  <2>5. \A d \in legacy \ proc[p].todo : Moved(d)'
    BY <2>4, <1>p DEF Persists, KeptInv
  <2>6. Moved(e)'  BY <2>2 DEF Moved
  <2>7. \A d \in legacy' \ proc'[p].todo : Moved(d)'
    BY <2>1, <2>3, <2>5, <2>6
  <2> QED  BY <2>1, <2>3, <2>4, <2>7 DEF Relies, At
<1>3. CASE RenameLegacy(p)
  <2>1. proc'[p].pc = "list"  BY <1>3, <1>0 DEF RenameLegacy, Goto, LogTypes, Process
  <2> QED  BY <2>1, NothingRelied
<1>4. CASE ListPending(p)
  <2>1. proc'[p].pc = "files"  BY <1>4, <1>0 DEF ListPending, LogTypes, Process
  <2> QED  BY <2>1, NothingRelied
<1>5. ASSUME NEW f \in pending, ReadPending(p, f) PROVE Relies(p)'
  <2>1. proc'[p].pc = "append" /\ proc'[p].at = {f}
    BY <1>5, <1>0 DEF ReadPending, LogTypes, Process
  <2>2. f \in Files /\ f.event \in recorded'
    BY <1>5 DEF KeptInv, ReadPending, LogTypes, EventTypeOK
  <2> QED  BY <2>1, <2>2 DEF Relies, At
<1>6. CASE AppendArchive(p)
  <2>1. proc'[p].pc = "remove" /\ proc'[p].at = proc[p].at
    BY <1>6, <1>0 DEF AppendArchive, Goto, LogTypes, Process
  <2>2. PICK f \in Files : proc[p].at = {f} /\ f.event \in recorded
    BY <1>0, <1>6 DEF Relies, AppendArchive, At
  <2>3. recorded' = recorded /\ archive' = [archive EXCEPT ![f.event] = @ + 1]
    BY <1>6, <2>2 DEF AppendArchive
  <2>4. archive'[f.event] > 0
    BY <2>2, <2>3, FileHasEvent DEF LogTypes, EventTypeOK
  <2>5. Archived(f.event)'  BY <2>4 DEF Archived
  <2> QED  BY <2>1, <2>2, <2>3, <2>5 DEF Relies, At
<1>7. CASE RemovePending(p)
  <2>1. proc'[p].pc = "files"  BY <1>7, <1>0 DEF RemovePending, LogTypes, Process
  <2> QED  BY <2>1, NothingRelied
<1>8. CASE ListOutdated(p)
  <2>1. proc'[p].pc = "retain" /\ proc'[p].todo = {m \in Months : Outdated(m)}
    BY <1>8, <1>0 DEF ListOutdated, Walk, LogTypes, Process
  <2>2. \A m \in proc'[p].todo : m \in Int /\ Outdated(m)
    BY <2>1, MonthsAreNumbers
  <2>3. today' = today  BY <1>8 DEF ListOutdated, clockwork
  <2> QED  BY <2>1, <2>2, <2>3 DEF Relies, At, Outdated
<1>9. ASSUME NEW m \in Months, RemoveArchive(p, m) PROVE Relies(p)'
  <2>1. proc'[p].pc = "retain" /\ proc'[p].todo = proc[p].todo \ {m}
    BY <1>9, <1>0 DEF RemoveArchive, Walk, LogTypes, Process
  <2>2. \A k \in proc[p].todo : k \in Int /\ Outdated(k)
    BY <1>0, <1>9 DEF Relies, RemoveArchive, At
  <2>3. today' = today  BY <1>9 DEF RemoveArchive, clockwork
  <2> QED  BY <2>1, <2>2, <2>3 DEF Relies, At, Outdated
<1>10. CASE Compacted(p)
  <2>1. proc'[p].pc \in {"done", "see"}  BY <1>10, <1>0 DEF Compacted, Goto, LogTypes, Process
  <2> QED  BY <2>1, NothingRelied
<1> QED  BY <1>1, <1>2, <1>3, <1>4, <1>5, <1>6, <1>7, <1>8, <1>9, <1>10 DEF Move

LEMMA StepRelies ==
    ASSUME LogTypes, KeptInv, NEW p \in Procs, Step(p) PROVE \A q \in Procs : Relies(q)'
<1>1. \A q \in Procs \ {p} : Relies(q)'
  BY StepPersists, StepMovesOne, OthersRely DEF KeptInv
<1>2. Relies(p)'
  <2>1. CASE Begin(p)
    <3>1. proc'[p].pc \in {"write", "list", "legacy", "see"}
      BY <2>1 DEF Begin, LogTypes, Start, Resting
    <3> QED  BY <3>1, NothingRelied
  <2>2. CASE Die(p)
    <3>1. proc'[p].pc = "idle"  BY <2>2 DEF Die, LogTypes, Resting
    <3> QED  BY <3>1, NothingRelied
  <2>3. CASE WriteEventFile(p)
    <3>1. proc'[p].pc = "see"  BY <2>3 DEF WriteEventFile, Goto, LogTypes, Process
    <3> QED  BY <3>1, NothingRelied
  <2>4. CASE Move(p)
    BY <2>4, MoveRelies
  <2>5. CASE Read(p)
    <3>0. proc[p] \in Process /\ proc \in [Procs -> Process]  BY DEF LogTypes
    <3>a. ASSUME SeeLegacy(p) PROVE proc'[p].pc = "months"
      BY <3>0, <3>a DEF SeeLegacy, Process
    <3>b. ASSUME ListArchives(p) \/ ListFiles(p) \/ Counted(p)
          PROVE  proc'[p].pc \in {"archives", "pending", "done"}
      BY <3>0, <3>b DEF ListArchives, ListFiles, Counted, Goto, Walk, Process
    <3>c. ASSUME NEW m \in Months, SeeArchive(p, m) PROVE proc'[p].pc = "archives"
      BY <3>0, <3>c DEF SeeArchive, At, Process
    <3>d. ASSUME NEW f \in pending, SeeFile(p, f) PROVE proc'[p].pc = "pending"
      BY <3>0, <3>d DEF SeeFile, At, Process
    <3>1. proc'[p].pc \in {"months", "archives", "pending", "done"}
      BY <2>5, <3>a, <3>b, <3>c, <3>d DEF Read
    <3> QED  BY <3>1, NothingRelied
  <2> QED  BY <2>1, <2>2, <2>3, <2>4, <2>5 DEF Step
<1> QED  BY <1>1, <1>2

LEMMA StepKeeps ==
    ASSUME LogTypes, KeptInv, NEW p \in Procs, Step(p)
    PROVE  /\ legacy' \subseteq recorded' /\ NothingLost'
           /\ \A f \in pending' : f.event \in recorded'
<1> USE DEF events, history
<1>p. Persists  BY StepPersists
<1>1. legacy' \subseteq recorded'  BY <1>p DEF Persists, KeptInv
<1>2. \A e \in recorded : e \in legacy \/ Moved(e)
  BY DEF KeptInv, NothingLost, Stored, Moved, Archived
<1>3. \A f \in pending' : f.event \in recorded'
  <2>1. CASE WriteEventFile(p)
    BY <2>1, <1>p DEF WriteEventFile, File, Persists, KeptInv
  <2>2. ASSUME NEW e \in Events, MigrateLine(p, e) PROVE \A f \in pending' : f.event \in recorded'
    <3>1. e \in recorded  BY <2>2 DEF KeptInv, Relies, MigrateLine, At
    <3> QED  BY <2>2, <3>1 DEF MigrateLine, File, KeptInv
  <2>3. CASE \/ Begin(p) \/ Die(p) \/ Read(p)
             \/ ReadLegacyLines(p) \/ RenameLegacy(p) \/ ListPending(p) \/ AppendArchive(p)
             \/ RemovePending(p) \/ ListOutdated(p) \/ Compacted(p)
             \/ (\E f \in pending : ReadPending(p, f)) \/ (\E m \in Months : RemoveArchive(p, m))
    <3>1. pending' \subseteq pending
      BY <2>3 DEF Begin, Die, Read, ReadLegacyLines, RenameLegacy, ListPending, AppendArchive,
                  RemovePending, ListOutdated, Compacted, ReadPending, RemoveArchive, SeeLegacy,
                  ListArchives, SeeArchive, ListFiles, SeeFile, Counted
    <3> QED  BY <3>1, <1>p DEF Persists, KeptInv
  <2> QED  BY <2>1, <2>2, <2>3 DEF Step, Move
<1>4. NothingLost'
  <2>1. SUFFICES ASSUME NEW e \in recorded' PROVE e \in legacy' \/ Moved(e)'
    BY DEF NothingLost, Stored, Moved, Archived
  <2>2. CASE e \notin recorded
    <3>1. WriteEventFile(p)
      BY <2>1, <2>2 DEF Step, Begin, Die, Move, Read, ReadLegacyLines, MigrateLine, RenameLegacy,
         ListPending, AppendArchive, RemovePending, ListOutdated, Compacted, ReadPending,
         RemoveArchive, SeeLegacy, ListArchives, SeeArchive, ListFiles, SeeFile, Counted
    <3>2. File(e, 0) \in pending' /\ File(e, 0).event = e
      BY <3>1, <2>1, <2>2 DEF WriteEventFile, File
    <3> QED  BY <3>2 DEF Moved
  <2>3. CASE e \in recorded /\ Moved(e)
    BY <2>3, <1>p DEF Persists
  <2>4. CASE e \in legacy /\ ~RenameLegacy(p)
    <3>1. legacy' = legacy
      BY <2>4 DEF Step, Begin, Die, WriteEventFile, Move, Read, ReadLegacyLines, MigrateLine,
         ListPending, AppendArchive, RemovePending, ListOutdated, Compacted, ReadPending,
         RemoveArchive, SeeLegacy, ListArchives, SeeArchive, ListFiles, SeeFile, Counted
    <3> QED  BY <2>4, <3>1
  <2>5. CASE e \in legacy /\ RenameLegacy(p)
    <3>1. Moved(e)  BY <2>5 DEF KeptInv, Relies, RenameLegacy, At
    <3> QED  BY <2>5, <3>1, <1>p DEF Persists, KeptInv
  <2> QED  BY <1>2, <2>2, <2>3, <2>4, <2>5
<1> QED  BY <1>1, <1>3, <1>4

LEMMA LogInvariant == Spec => []LogInv
<1>1. Init => LogInv
  <2> SUFFICES ASSUME Init PROVE LogInv
    OBVIOUS
  <2>1. \A p \in Procs : Relies(p)  BY DEF Init, Relies, At, Resting
  <2>2. NothingLost  BY DEF Init, NothingLost, Stored
  <2> QED  BY <2>1, <2>2, InitTypes DEF Init, LogInv, KeptInv
<1>2. LogInv /\ [Next]_vars => LogInv'
  <2> SUFFICES ASSUME LogTypes, KeptInv, [Next]_vars PROVE LogInv'
    BY DEF LogInv
  <2>1. CASE UNCHANGED vars
    BY <2>1, NextTypes DEF LogInv, KeptInv, NothingLost, Stored, Relies, Moved, Archived, Outdated,
       MonthOf, MonthStart, At, vars, events, clockwork, history
  <2>2. CASE NextDay
    <3>1. Persists /\ UNCHANGED <<pending, legacy, recorded, proc>>
      BY <2>2, DayPersists DEF NextDay, events, history
    <3>2. \A p \in Procs : Relies(p)'  BY <3>1, OthersRely DEF KeptInv
    <3>3. \A e \in recorded : e \in legacy \/ Moved(e)
      BY DEF KeptInv, NothingLost, Stored, Moved, Archived
    <3>4. \A e \in recorded' : e \in legacy' \/ Moved(e)'
      BY <3>1, <3>3 DEF Persists
    <3>5. NothingLost'  BY <3>4 DEF NothingLost, Stored, Moved, Archived
    <3> QED  BY <3>1, <3>2, <3>5, NextTypes DEF LogInv, KeptInv
  <2>3. ASSUME NEW p \in Procs, Step(p) PROVE LogInv'
    BY <2>3, StepRelies, StepKeeps, NextTypes DEF LogInv, KeptInv
  <2> QED  BY <2>1, <2>2, <2>3 DEF Next
<1> QED  BY <1>1, <1>2, PTL DEF Spec

\* An event that was written stays in pending, the archive or the legacy file until
\* its archive is outdated, for any number of recorders, compactions, migrations
\* and deaths between their steps.
THEOREM NothingIsLost == Spec => []NothingLost
<1>1. LogInv => NothingLost  BY DEF LogInv, KeptInv
<1> QED  BY <1>1, LogInvariant, PTL

-------------------------------------------------------------------------------
(* Each event once: between two moves it may be in two places, while a process   *)
(* owes the removal of the first.                                               *)

\* A process that has put a copy of e in a second place, and has still to take
\* away the one it came from.
Owes(p, e) ==
    \/ At(p, "remove") /\ \E f \in proc[p].at : f.event = e
    \/ At(p, "lines") /\ e \in lines \ proc[p].todo

Owing(e) == {p \in Procs : Owes(p, e)}

FilesOf(e) == {f \in pending : f.event = e}
InLegacy(e) == IF e \in legacy THEN 1 ELSE 0
Debt(p, e) == IF Owes(p, e) THEN 1 ELSE 0

\* An event is there once, and once more for each process that owes a removal.
CopiesBounded == ~cutShort => \A e \in Events : Copies(e) <= 1 + Cardinality(Owing(e))

OnceInv ==
    /\ IsFiniteSet(pending) /\ \A e \in Events : IsFiniteSet(Owing(e))
    /\ \A e \in Events \ recorded : archive[e] = 0
    /\ \A p \in Procs : At(p, "lines") => proc[p].todo \subseteq lines
    /\ CopiesBounded

-------------------------------------------------------------------------------
LEMMA CopiesAre ==
    ASSUME LogTypes, IsFiniteSet(pending), NEW e \in Events
    PROVE  /\ IsFiniteSet(FilesOf(e)) /\ Cardinality(FilesOf(e)) \in Nat
           /\ archive[e] \in Nat /\ InLegacy(e) \in {0, 1} /\ Copies(e) \in Nat
           /\ Copies(e) = archive[e] + Cardinality(FilesOf(e)) + InLegacy(e)
<1>1. IsFiniteSet(FilesOf(e))  BY FS_Subset DEF FilesOf
<1>2. Cardinality(FilesOf(e)) \in Nat  BY <1>1, FS_CardinalityType
<1>3. archive[e] \in Nat  BY DEF LogTypes, EventTypeOK
<1>4. InLegacy(e) \in {0, 1}  BY DEF InLegacy
<1>5. Copies(e) = archive[e] + Cardinality(FilesOf(e)) + InLegacy(e)
  BY DEF Copies, FilesOf, InLegacy
<1> QED  BY <1>1, <1>2, <1>3, <1>4, <1>5

LEMMA CopiesAfter ==
    ASSUME LogTypes', IsFiniteSet(pending'), NEW e \in Events
    PROVE  /\ IsFiniteSet(FilesOf(e)') /\ Cardinality(FilesOf(e)') \in Nat
           /\ archive'[e] \in Nat /\ InLegacy(e)' \in {0, 1} /\ Copies(e)' \in Nat
           /\ Copies(e)' = archive'[e] + Cardinality(FilesOf(e)') + InLegacy(e)'
<1>1. IsFiniteSet(FilesOf(e)')  BY FS_Subset DEF FilesOf
<1>2. Cardinality(FilesOf(e)') \in Nat  BY <1>1, FS_CardinalityType
<1>3. archive'[e] \in Nat  BY DEF LogTypes, EventTypeOK
<1>4. InLegacy(e)' \in {0, 1}  BY DEF InLegacy
<1>5. Copies(e)' = archive'[e] + Cardinality(FilesOf(e)') + InLegacy(e)'
  BY DEF Copies, FilesOf, InLegacy
<1> QED  BY <1>1, <1>2, <1>3, <1>4, <1>5

\* A set of files with one more, or one less.
LEMMA StepFinite ==
    ASSUME LogInv, IsFiniteSet(pending), NEW p \in Procs, Step(p) PROVE IsFiniteSet(pending')
<1>1. CASE WriteEventFile(p)
  <2>1. PICK f : pending' = pending \cup {f}  BY <1>1 DEF WriteEventFile
  <2> QED  BY <2>1, FS_AddElement
<1>2. ASSUME NEW e \in Events, MigrateLine(p, e) PROVE IsFiniteSet(pending')
  <2>1. PICK f : pending' = pending \cup {f}  BY <1>2 DEF MigrateLine
  <2> QED  BY <2>1, FS_AddElement
<1>3. CASE \/ Begin(p) \/ Die(p) \/ Read(p)
           \/ ReadLegacyLines(p) \/ RenameLegacy(p) \/ ListPending(p) \/ AppendArchive(p)
           \/ RemovePending(p) \/ ListOutdated(p) \/ Compacted(p)
           \/ (\E f \in pending : ReadPending(p, f)) \/ (\E m \in Months : RemoveArchive(p, m))
  <2>1. pending' \subseteq pending
    BY <1>3 DEF Begin, Die, Read, ReadLegacyLines, RenameLegacy, ListPending, AppendArchive,
                RemovePending, ListOutdated, Compacted, ReadPending, RemoveArchive, SeeLegacy,
                ListArchives, SeeArchive, ListFiles, SeeFile, Counted, events
  <2> QED  BY <2>1, FS_Subset
<1> QED  BY <1>1, <1>2, <1>3 DEF Step, Move

LEMMA LinesKept == ASSUME NEW p \in Procs, Step(p) PROVE lines' = lines
  BY DEF Step, Begin, Die, WriteEventFile, Move, Read, ReadLegacyLines, MigrateLine,
         RenameLegacy, ListPending, ReadPending, AppendArchive, RemovePending, ListOutdated,
         RemoveArchive, Compacted, SeeLegacy, ListArchives, SeeArchive, ListFiles, SeeFile,
         Counted, history

\* A step changes who owes by the process that takes it.
LEMMA OwingChanges ==
    ASSUME LogTypes, NEW p \in Procs, Step(p), NEW e \in Events, IsFiniteSet(Owing(e))
    PROVE  /\ IsFiniteSet(Owing(e)')
           /\ Cardinality(Owing(e)) \in Nat /\ Cardinality(Owing(e)') \in Nat
           /\ Cardinality(Owing(e)') + Debt(p, e) = Cardinality(Owing(e)) + Debt(p, e)'
<1>1. \A q \in Procs \ {p} : Owes(q, e)' <=> Owes(q, e)
  BY StepMovesOne, LinesKept DEF Owes, At
<1>2. Cardinality(Owing(e)) \in Nat  BY FS_CardinalityType
<1>3. CASE Owes(p, e) <=> Owes(p, e)'
  <2>1. Owing(e)' = Owing(e)  BY <1>1, <1>3 DEF Owing
  <2>2. Debt(p, e)' = Debt(p, e)  BY <1>3 DEF Debt
  <2> QED  BY <1>2, <2>1, <2>2
<1>4. CASE ~Owes(p, e) /\ Owes(p, e)'
  <2>1. Owing(e)' = Owing(e) \cup {p} /\ p \notin Owing(e)  BY <1>1, <1>4 DEF Owing
  <2>2. Debt(p, e)' = 1 /\ Debt(p, e) = 0  BY <1>4 DEF Debt
  <2>3. IsFiniteSet(Owing(e)') /\ Cardinality(Owing(e)') = Cardinality(Owing(e)) + 1
    BY <2>1, FS_AddElement
  <2> QED  BY <1>2, <2>2, <2>3
<1>5. CASE Owes(p, e) /\ ~Owes(p, e)'
  <2>1. Owing(e)' = Owing(e) \ {p} /\ p \in Owing(e)  BY <1>1, <1>5 DEF Owing
  <2>2. Debt(p, e)' = 0 /\ Debt(p, e) = 1  BY <1>5 DEF Debt
  <2>3. IsFiniteSet(Owing(e)') /\ Cardinality(Owing(e)') = Cardinality(Owing(e)) - 1
    BY <2>1, FS_RemoveElement
  <2>4. Cardinality(Owing(e)') \in Nat  BY <2>3, FS_CardinalityType
  <2> QED  BY <1>2, <2>2, <2>3, <2>4
<1> QED  BY <1>3, <1>4, <1>5

\* Who is elsewhere owes nothing.
LEMMA NothingOwed ==
    ASSUME NEW p \in Procs, NEW e \in Events, proc[p].pc \notin {"remove", "lines"}
    PROVE  ~Owes(p, e) /\ Debt(p, e) = 0
  BY DEF Owes, Debt, At

LEMMA NothingOwedNext ==
    ASSUME NEW p \in Procs, NEW e \in Events, proc'[p].pc \notin {"remove", "lines"}
    PROVE  ~Owes(p, e)' /\ Debt(p, e)' = 0
  BY DEF Owes, Debt, At

\* Where nothing is moved, every event has the copies it had.
LEMMA NothingMoved ==
    ASSUME UNCHANGED events, NEW e
    PROVE  Copies(e)' = Copies(e) /\ FilesOf(e)' = FilesOf(e) /\ InLegacy(e)' = InLegacy(e)
  BY DEF Copies, FilesOf, InLegacy, events

\* The processes' labels before and after the steps that move nothing.
LEMMA IdleMoves ==
    ASSUME LogTypes, NEW p \in Procs,
           \/ ListPending(p) \/ ListOutdated(p) \/ Compacted(p)
           \/ \E f \in pending : ReadPending(p, f)
    PROVE  /\ UNCHANGED events
           /\ proc[p].pc \notin {"remove", "lines"} /\ proc'[p].pc \notin {"remove", "lines"}
<1>0. proc \in [Procs -> Process] /\ proc[p] \in Process  BY DEF LogTypes
<1>1. ASSUME ListPending(p) PROVE proc[p].pc = "list" /\ proc'[p].pc = "files" /\ UNCHANGED events
  BY <1>0, <1>1 DEF ListPending, At, Process
<1>2. ASSUME ListOutdated(p) PROVE proc[p].pc = "files" /\ proc'[p].pc = "retain" /\ UNCHANGED events
  BY <1>0, <1>2 DEF ListOutdated, Walk, At, Process
<1>3. ASSUME Compacted(p)
      PROVE  proc[p].pc = "retain" /\ proc'[p].pc \in {"done", "see"} /\ UNCHANGED events
  BY <1>0, <1>3 DEF Compacted, Goto, At, Process
<1>4. ASSUME NEW f \in pending, ReadPending(p, f)
      PROVE  proc[p].pc = "files" /\ proc'[p].pc = "append" /\ UNCHANGED events
  BY <1>0, <1>4 DEF ReadPending, At, Process
<1> QED  BY <1>1, <1>2, <1>3, <1>4

\* A move puts no more copies somewhere than the mover owes for.
LEMMA MoveBalanced ==
    ASSUME LogInv, LogTypes', OnceInv, IsFiniteSet(pending'), NEW p \in Procs, Move(p),
           NEW e \in Events
    PROVE  Copies(e)' + Debt(p, e) <= Copies(e) + Debt(p, e)'
<1> USE DEF events, history
<1>0. LogTypes /\ proc[p] \in Process /\ proc \in [Procs -> Process]  BY DEF LogInv, LogTypes
<1>1. /\ Relies(p) /\ IsFiniteSet(pending)
      /\ At(p, "lines") => proc[p].todo \subseteq lines
      /\ legacy \in {{}, lines}
  BY DEF LogInv, KeptInv, OnceInv, LogTypes, EventTypeOK
<1>2. /\ Copies(e) \in Nat /\ Copies(e)' \in Nat /\ Debt(p, e) \in {0, 1} /\ Debt(p, e)' \in {0, 1}
      /\ archive[e] \in Nat /\ archive'[e] \in Nat /\ InLegacy(e) \in {0, 1} /\ InLegacy(e)' \in {0, 1}
      /\ IsFiniteSet(FilesOf(e)) /\ Cardinality(FilesOf(e)) \in Nat
      /\ Cardinality(FilesOf(e)') \in Nat
      /\ Copies(e) = archive[e] + Cardinality(FilesOf(e)) + InLegacy(e)
      /\ Copies(e)' = archive'[e] + Cardinality(FilesOf(e)') + InLegacy(e)'
  BY <1>0, <1>1, CopiesAre, CopiesAfter DEF Debt
<1>3. CASE ReadLegacyLines(p)
  <2>1. ~Owes(p, e)  BY <1>3, NothingOwed DEF ReadLegacyLines, At
  <2>2. ~Owes(p, e)'
    <3>1. CASE legacy = {}
      <4>1. proc'[p].pc = "list"  BY <1>0, <1>3, <3>1 DEF ReadLegacyLines, Goto, Process
      <4> QED  BY <4>1, NothingOwedNext
    <3>2. CASE legacy # {}
      <4>1. proc'[p].pc = "lines" /\ proc'[p].todo = legacy /\ lines' = lines
        BY <1>0, <1>3, <3>2 DEF ReadLegacyLines, Walk, Process
      <4> QED  BY <1>1, <3>2, <4>1 DEF Owes, At
    <3> QED  BY <3>1, <3>2
  <2>3. Copies(e)' = Copies(e)  BY <1>3, NothingMoved DEF ReadLegacyLines
  <2> QED  BY <1>2, <2>1, <2>2, <2>3 DEF Debt
<1>4. ASSUME NEW d \in Events, MigrateLine(p, d)
      PROVE  Copies(e)' + Debt(p, e) <= Copies(e) + Debt(p, e)'
  <2>1. /\ proc[p].pc = "lines" /\ d \in proc[p].todo /\ d \in lines
        /\ proc'[p].pc = "lines" /\ proc'[p].todo = proc[p].todo \ {d} /\ lines' = lines
        /\ archive' = archive /\ legacy' = legacy
        /\ pending' = pending \cup {File(d, proc[p].migration)}
    BY <1>0, <1>1, <1>4 DEF MigrateLine, Walk, Process, At
  <2>2. InLegacy(e)' = InLegacy(e) /\ archive'[e] = archive[e]  BY <2>1 DEF InLegacy
  <2>3. CASE e = d
    <3>1. Debt(p, e) = 0 /\ Debt(p, e)' = 1  BY <2>1, <2>3 DEF Debt, Owes, At
    <3>2. FilesOf(e)' = FilesOf(e) \cup {File(d, proc[p].migration)}
      BY <2>1, <2>3 DEF FilesOf, File
    <3>3. Cardinality(FilesOf(e)') <= Cardinality(FilesOf(e)) + 1
      <4> DEFINE files == FilesOf(e)
      <4> HIDE DEF files
      <4>1. \A f : Cardinality(files \cup {f}) \in {Cardinality(files), Cardinality(files) + 1}
        BY <1>2, FS_AddElement DEF files
      <4>2. Cardinality(FilesOf(e)') \in {Cardinality(files), Cardinality(files) + 1}
        BY <3>2, <4>1 DEF files
      <4> QED  BY <1>2, <4>2 DEF files
    <3> QED  BY <1>2, <2>2, <3>1, <3>3
  <2>4. CASE e # d
    <3>1. Debt(p, e) = Debt(p, e)'  BY <2>1, <2>4 DEF Debt, Owes, At
    <3>2. FilesOf(e)' = FilesOf(e)  BY <2>1, <2>4 DEF FilesOf, File
    <3> QED  BY <1>2, <2>2, <3>1, <3>2
  <2> QED  BY <2>3, <2>4
<1>5. CASE RenameLegacy(p)
  <2>1. /\ proc[p].pc = "lines" /\ proc[p].todo = {} /\ legacy = lines /\ legacy' = {}
        /\ proc'[p].pc = "list" /\ archive' = archive /\ pending' = pending
    BY <1>0, <1>1, <1>5 DEF RenameLegacy, Goto, Process, At
  <2>2. Debt(p, e) = InLegacy(e) /\ InLegacy(e)' = 0  BY <2>1 DEF Debt, Owes, At, InLegacy
  <2>3. Debt(p, e)' = 0  BY <2>1, NothingOwedNext
  <2>4. FilesOf(e)' = FilesOf(e)  BY <2>1 DEF FilesOf
  <2> QED  BY <1>2, <2>1, <2>2, <2>3, <2>4
<1>6. CASE AppendArchive(p)
  <2>1. PICK f \in Files : proc[p].at = {f}  BY <1>1, <1>6 DEF Relies, AppendArchive, At
  <2>2. /\ proc[p].pc = "append" /\ proc'[p].pc = "remove" /\ proc'[p].at = {f}
        /\ archive' = [archive EXCEPT ![f.event] = @ + 1] /\ UNCHANGED <<pending, legacy>>
    BY <1>0, <1>6, <2>1 DEF AppendArchive, Goto, Process, At
  <2>3. FilesOf(e)' = FilesOf(e) /\ InLegacy(e)' = InLegacy(e)  BY <2>2 DEF FilesOf, InLegacy
  <2>4. Debt(p, e) = 0  BY <2>2, NothingOwed
  <2>5. f.event \in Events  BY FileHasEvent
  <2>6. Debt(p, e)' = IF f.event = e THEN 1 ELSE 0  BY <2>2 DEF Debt, Owes, At
  <2>7. archive'[e] = IF f.event = e THEN archive[e] + 1 ELSE archive[e]
    BY <1>0, <2>2, <2>5 DEF LogTypes, EventTypeOK
  <2> QED  BY <1>2, <2>3, <2>4, <2>6, <2>7
<1>7. CASE RemovePending(p)
  <2>1. PICK f \in Files : proc[p].at = {f}  BY <1>1, <1>7 DEF Relies, RemovePending, At
  <2>2. /\ proc[p].pc = "remove" /\ proc'[p].pc = "files"
        /\ f \in pending /\ pending' = pending \ {f} /\ UNCHANGED <<archive, legacy>>
    BY <1>0, <1>7, <2>1 DEF RemovePending, Process, At
  <2>3. InLegacy(e)' = InLegacy(e)  BY <2>2 DEF InLegacy
  <2>4. Debt(p, e)' = 0  BY <2>2, NothingOwedNext
  <2>5. Debt(p, e) = IF f.event = e THEN 1 ELSE 0  BY <2>1, <2>2 DEF Debt, Owes, At
  <2>6. CASE f.event = e
    <3>1. FilesOf(e)' = FilesOf(e) \ {f} /\ f \in FilesOf(e)  BY <2>2, <2>6 DEF FilesOf
    <3>2. Cardinality(FilesOf(e)') = Cardinality(FilesOf(e)) - 1
      BY <1>2, <3>1, FS_RemoveElement
    <3> QED  BY <1>2, <2>2, <2>3, <2>4, <2>5, <2>6, <3>2
  <2>7. CASE f.event # e
    <3>1. FilesOf(e)' = FilesOf(e)  BY <2>2, <2>7 DEF FilesOf
    <3> QED  BY <1>2, <2>2, <2>3, <2>4, <2>5, <2>7, <3>1
  <2> QED  BY <2>6, <2>7
<1>8. ASSUME NEW m \in Months, RemoveArchive(p, m)
      PROVE  Copies(e)' + Debt(p, e) <= Copies(e) + Debt(p, e)'
  <2>1. /\ proc[p].pc = "retain" /\ proc'[p].pc = "retain" /\ UNCHANGED <<pending, legacy>>
        /\ archive'[e] <= archive[e]
    BY <1>0, <1>2, <1>8 DEF RemoveArchive, Walk, Process, At
  <2>2. FilesOf(e)' = FilesOf(e) /\ InLegacy(e)' = InLegacy(e)  BY <2>1 DEF FilesOf, InLegacy
  <2>3. Debt(p, e) = 0 /\ Debt(p, e)' = 0  BY <2>1, NothingOwed, NothingOwedNext
  <2> QED  BY <1>2, <2>1, <2>2, <2>3
<1>9. CASE \/ ListPending(p) \/ ListOutdated(p) \/ Compacted(p)
           \/ \E f \in pending : ReadPending(p, f)
  <2>1. Copies(e)' = Copies(e)  BY <1>0, <1>9, IdleMoves, NothingMoved
  <2>2. Debt(p, e) = 0 /\ Debt(p, e)' = 0  BY <1>0, <1>9, IdleMoves, NothingOwed, NothingOwedNext
  <2> QED  BY <1>2, <2>1, <2>2
<1> QED  BY <1>3, <1>4, <1>5, <1>6, <1>7, <1>8, <1>9 DEF Move

\* Only a recorder writes an event that was not recorded, and it writes it once.
LEMMA StepBounded ==
    ASSUME LogInv, LogTypes', OnceInv, IsFiniteSet(pending'), NEW p \in Procs, Step(p),
           ~Die(p), ~cutShort, NEW e \in Events
    PROVE  Copies(e)' <= 1 + Cardinality(Owing(e)')
<1> USE DEF events, history
<1>0. LogTypes /\ proc[p] \in Process /\ proc \in [Procs -> Process] /\ IsFiniteSet(pending)
  BY DEF LogInv, LogTypes, OnceInv
<1>1. /\ Copies(e) \in Nat /\ Copies(e)' \in Nat /\ Debt(p, e) \in {0, 1} /\ Debt(p, e)' \in {0, 1}
      /\ Copies(e) = archive[e] + Cardinality(FilesOf(e)) + InLegacy(e)
      /\ Copies(e)' = archive'[e] + Cardinality(FilesOf(e)') + InLegacy(e)'
      /\ archive[e] \in Nat /\ Cardinality(FilesOf(e)) \in Nat
  BY <1>0, CopiesAre, CopiesAfter DEF Debt
<1>2. /\ Copies(e) <= 1 + Cardinality(Owing(e))
      /\ Cardinality(Owing(e)) \in Nat /\ Cardinality(Owing(e)') \in Nat
      /\ Cardinality(Owing(e)') + Debt(p, e) = Cardinality(Owing(e)) + Debt(p, e)'
  BY <1>0, OwingChanges DEF OnceInv, CopiesBounded
<1>3. CASE Move(p)
  BY <1>1, <1>2, <1>3, MoveBalanced
<1>4. CASE Begin(p) \/ Read(p)
  <2>1. proc[p].pc \notin {"remove", "lines"}
    BY <1>4 DEF Begin, Ended, Read, SeeLegacy, ListArchives, SeeArchive, ListFiles, SeeFile,
       Counted, At
  <2>2. proc'[p].pc \notin {"remove", "lines"}
    <3>1. ASSUME Begin(p) PROVE proc'[p].pc \in {"write", "list", "legacy", "see"}
      BY <1>0, <3>1 DEF Begin, Start, Resting
    <3>2. ASSUME SeeLegacy(p) PROVE proc'[p].pc = "months"
      BY <1>0, <3>2 DEF SeeLegacy, Process
    <3>3. ASSUME ListArchives(p) \/ ListFiles(p) \/ Counted(p)
          PROVE  proc'[p].pc \in {"archives", "pending", "done"}
      BY <1>0, <3>3 DEF ListArchives, ListFiles, Counted, Goto, Walk, Process
    <3>4. ASSUME NEW m \in Months, SeeArchive(p, m) PROVE proc'[p].pc = "archives"
      BY <1>0, <3>4 DEF SeeArchive, At, Process
    <3>5. ASSUME NEW f \in pending, SeeFile(p, f) PROVE proc'[p].pc = "pending"
      BY <1>0, <3>5 DEF SeeFile, At, Process
    <3> QED  BY <1>4, <3>1, <3>2, <3>3, <3>4, <3>5 DEF Read
  <2>3. UNCHANGED events
    BY <1>4 DEF Begin, Read, SeeLegacy, ListArchives, SeeArchive, ListFiles, SeeFile, Counted
  <2>4. Copies(e)' = Copies(e)  BY <2>3, NothingMoved
  <2>5. Debt(p, e) = 0 /\ Debt(p, e)' = 0  BY <2>1, <2>2, NothingOwed, NothingOwedNext
  <2> QED  BY <1>1, <1>2, <2>4, <2>5
<1>5. CASE WriteEventFile(p)
  <2>1. PICK d \in Events \ recorded : pending' = pending \cup {File(d, 0)}
    BY <1>5 DEF WriteEventFile
  <2>2. UNCHANGED <<archive, legacy>> /\ proc[p].pc = "write" /\ proc'[p].pc = "see"
    BY <1>0, <1>5 DEF WriteEventFile, Goto, At, Process
  <2>3. Debt(p, e) = 0 /\ Debt(p, e)' = 0  BY <2>2, NothingOwed, NothingOwedNext
  <2>4. InLegacy(e)' = InLegacy(e)  BY <2>2 DEF InLegacy
  <2>5. CASE e = d
    <3>1. FilesOf(e)' = {File(d, 0)}  BY <2>1, <2>5 DEF FilesOf, File, LogInv, KeptInv
    <3>2. Cardinality(FilesOf(e)') = 1  BY <3>1, FS_Singleton
    <3>3. archive[e] = 0 /\ InLegacy(e) = 0
      BY <2>5 DEF OnceInv, LogInv, KeptInv, InLegacy
    <3> QED  BY <1>1, <1>2, <2>2, <2>4, <3>2, <3>3
  <2>6. CASE e # d
    <3>1. FilesOf(e)' = FilesOf(e)  BY <2>1, <2>6 DEF FilesOf, File
    <3> QED  BY <1>1, <1>2, <2>2, <2>3, <2>4, <3>1
  <2> QED  BY <2>5, <2>6
<1> QED  BY <1>3, <1>4, <1>5 DEF Step

\* Only a migration is at the lines of the legacy file.
LEMMA NotToLines ==
    ASSUME LogTypes, NEW p \in Procs, Step(p), ~ReadLegacyLines(p), ~\E e \in Events : MigrateLine(p, e)
    PROVE  proc'[p].pc # "lines"
<1>0. proc[p] \in Process /\ proc \in [Procs -> Process]  BY DEF LogTypes
<1>1. ASSUME Begin(p) PROVE proc'[p].pc # "lines"
  BY <1>0, <1>1 DEF Begin, Start, Resting
<1>2. ASSUME Die(p) PROVE proc'[p].pc # "lines"
  BY <1>0, <1>2 DEF Die, Resting
<1>3. ASSUME WriteEventFile(p) \/ RenameLegacy(p) \/ AppendArchive(p) \/ Compacted(p) \/ Counted(p)
      PROVE  proc'[p].pc # "lines"
  BY <1>0, <1>3 DEF WriteEventFile, RenameLegacy, AppendArchive, Compacted, Counted, Goto, Process
<1>4. ASSUME ListOutdated(p) \/ ListArchives(p) \/ ListFiles(p) \/ \E m \in Months : RemoveArchive(p, m)
      PROVE  proc'[p].pc # "lines"
  BY <1>0, <1>4 DEF ListOutdated, ListArchives, ListFiles, RemoveArchive, Walk, Process
<1>5. ASSUME ListPending(p) \/ RemovePending(p) PROVE proc'[p].pc # "lines"
  BY <1>0, <1>5 DEF ListPending, RemovePending, Process
<1>8. ASSUME SeeLegacy(p) PROVE proc'[p].pc # "lines"
  BY <1>0, <1>8 DEF SeeLegacy, Process
<1>9. ASSUME NEW f \in pending, ReadPending(p, f) PROVE proc'[p].pc # "lines"
  BY <1>0, <1>9 DEF ReadPending, Process
<1>6. ASSUME NEW m \in Months, SeeArchive(p, m) PROVE proc'[p].pc # "lines"
  BY <1>0, <1>6 DEF SeeArchive, At, Process
<1>7. ASSUME NEW f \in pending, SeeFile(p, f) PROVE proc'[p].pc # "lines"
  BY <1>0, <1>7 DEF SeeFile, At, Process
<1> QED  BY <1>1, <1>2, <1>3, <1>4, <1>5, <1>6, <1>7, <1>8, <1>9 DEF Step, Move, Read

LEMMA OnceNext == ASSUME LogInv, LogInv', OnceInv, [Next]_vars PROVE OnceInv'
<1> USE DEF events, history
<1>0. LogTypes /\ LogTypes' /\ KeptInv /\ recorded \subseteq Events
  BY DEF LogInv, LogTypes, EventTypeOK
<1>1. CASE UNCHANGED <<events, proc, history>>
  <2>1. \A e : Owing(e)' = Owing(e)  BY <1>1 DEF Owing, Owes, At
  <2>2. \A e : Copies(e)' = Copies(e)  BY <1>1, NothingMoved
  <2>3. CopiesBounded'  BY <1>1, <2>1, <2>2 DEF OnceInv, CopiesBounded
  <2>4. \A e \in Events : IsFiniteSet(Owing(e)')  BY <2>1 DEF OnceInv
  <2> QED  BY <1>1, <2>3, <2>4 DEF OnceInv, At
<1>2. ASSUME NEW p \in Procs, Step(p) PROVE OnceInv'
  <2>0. proc[p] \in Process /\ proc \in [Procs -> Process]  BY <1>0 DEF LogTypes
  <2>1. IsFiniteSet(pending')  BY <1>2, StepFinite DEF OnceInv
  <2>2. \A e \in Events : IsFiniteSet(Owing(e)')  BY <1>0, <1>2, OwingChanges DEF OnceInv
  <2>3. \A e \in Events \ recorded' : archive'[e] = 0
    <3>1. CASE archive' = archive
      BY <3>1, <1>0, <1>2, StepPersists DEF OnceInv, Persists
    <3>2. CASE AppendArchive(p)
      <4>1. PICK f \in Files : proc[p].at = {f} /\ f.event \in recorded
        BY <3>2, <1>0 DEF KeptInv, Relies, AppendArchive, At
      <4>2. archive' = [archive EXCEPT ![f.event] = @ + 1] /\ recorded' = recorded
        BY <3>2, <4>1 DEF AppendArchive
      <4> QED  BY <1>0, <4>1, <4>2 DEF OnceInv, LogTypes, EventTypeOK
    <3>3. ASSUME NEW m \in Months, RemoveArchive(p, m) PROVE \A e \in Events \ recorded' : archive'[e] = 0
      BY <3>3 DEF RemoveArchive, OnceInv
    <3> QED
      BY <1>2, <3>1, <3>2, <3>3 DEF Step, Begin, Die, WriteEventFile, Move, Read, ReadLegacyLines,
         MigrateLine, RenameLegacy, ListPending, ReadPending, RemovePending, ListOutdated,
         Compacted, SeeLegacy, ListArchives, SeeArchive, ListFiles, SeeFile, Counted
  <2>4. \A q \in Procs : At(q, "lines")' => proc'[q].todo \subseteq lines'
    <3>1. lines' = lines  BY <1>2, LinesKept
    <3>2. \A q \in Procs \ {p} : At(q, "lines")' => proc'[q].todo \subseteq lines'
      BY <1>0, <1>2, <3>1, StepMovesOne DEF OnceInv, At
    <3>3. At(p, "lines")' => proc'[p].todo \subseteq lines'
      <4>1. CASE ReadLegacyLines(p)
        <5>1. proc'[p].pc = "list" \/ proc'[p].todo = legacy
          BY <4>1, <2>0 DEF ReadLegacyLines, Goto, Walk, Process
        <5> QED  BY <1>0, <3>1, <5>1 DEF At, LogTypes, EventTypeOK
      <4>2. ASSUME NEW e \in Events, MigrateLine(p, e)
            PROVE  At(p, "lines")' => proc'[p].todo \subseteq lines'
        <5>1. proc[p].pc = "lines" /\ proc'[p].todo = proc[p].todo \ {e}
          BY <4>2, <2>0 DEF MigrateLine, Walk, At, Process
        <5> QED  BY <3>1, <5>1 DEF OnceInv, At
      <4>3. CASE ~ReadLegacyLines(p) /\ ~\E e \in Events : MigrateLine(p, e)
        <5>1. proc'[p].pc # "lines"
          BY <1>0, <1>2, <4>3, NotToLines
        <5> QED  BY <5>1 DEF At
      <4> QED  BY <4>1, <4>2, <4>3
    <3> QED  BY <3>2, <3>3
  <2>5. CopiesBounded'
    <3>1. CASE Die(p)
      BY <3>1 DEF Die, CopiesBounded
    <3>2. CASE ~Die(p)
      <4>1. cutShort' = cutShort
        BY <1>2, <3>2 DEF Step, Begin, WriteEventFile, Move, Read, ReadLegacyLines, MigrateLine,
           RenameLegacy, ListPending, ReadPending, AppendArchive, RemovePending, ListOutdated,
           RemoveArchive, Compacted, SeeLegacy, ListArchives, SeeArchive, ListFiles, SeeFile, Counted
      <4> QED  BY <1>0, <1>2, <2>1, <3>2, <4>1, StepBounded DEF CopiesBounded
    <3> QED  BY <3>1, <3>2
  <2> QED  BY <2>1, <2>2, <2>3, <2>4, <2>5 DEF OnceInv
<1> QED  BY <1>1, <1>2 DEF Next, NextDay, vars

LEMMA OnceInit == Init => OnceInv
<1> SUFFICES ASSUME Init PROVE OnceInv
  OBVIOUS
<1>1. pending = {} /\ archive = None /\ legacy \subseteq Events /\ proc = [p \in Procs |-> Resting]
  BY DEF Init
<1>2. IsFiniteSet(pending)  BY <1>1, FS_EmptySet
<1>3. \A p \in Procs : ~At(p, "lines")  BY <1>1 DEF At, Resting
<1>4. \A e \in Events : Owing(e) = {}  BY <1>1 DEF Owing, Owes, At, Resting
<1>5. \A e \in Events : archive[e] = 0  BY <1>1 DEF None
<1>6. ASSUME NEW e \in Events PROVE Copies(e) <= 1 + Cardinality(Owing(e)) /\ IsFiniteSet(Owing(e))
  <2>1. FilesOf(e) = {} /\ archive[e] = 0  BY <1>1, <1>5 DEF FilesOf
  <2>2. Cardinality(FilesOf(e)) = 0 /\ Cardinality(Owing(e)) = 0 /\ IsFiniteSet(Owing(e))
    BY <1>4, <2>1, FS_EmptySet
  <2>3. Copies(e) = archive[e] + Cardinality(FilesOf(e)) + InLegacy(e) /\ InLegacy(e) \in {0, 1}
    BY DEF Copies, FilesOf, InLegacy
  <2> QED  BY <2>1, <2>2, <2>3
<1> QED  BY <1>2, <1>3, <1>5, <1>6 DEF OnceInv, CopiesBounded

\* When all have ended, no one owes a removal; an event that is recorded is stored or
\* retired.
LEMMA OnceIsExact == ASSUME LogInv, OnceInv PROVE ExactlyOnce
<1> SUFFICES ASSUME ~cutShort, \A p \in Procs : Ended(p), NEW e \in recorded
             PROVE  Copies(e) = 1 \/ (Copies(e) = 0 /\ Outdated(MonthOf(e)))
  BY DEF ExactlyOnce
<1>1. e \in Events /\ LogTypes /\ IsFiniteSet(pending)
  BY DEF LogInv, LogTypes, EventTypeOK, OnceInv
<1>2. Owing(e) = {}  BY DEF Owing, Owes, At, Ended
<1>3. Copies(e) <= 1 + Cardinality(Owing(e))  BY <1>1 DEF OnceInv, CopiesBounded
<1>4. Cardinality(Owing(e)) = 0  BY <1>2, FS_EmptySet
<1>5. /\ IsFiniteSet(FilesOf(e)) /\ Cardinality(FilesOf(e)) \in Nat
      /\ archive[e] \in Nat /\ InLegacy(e) \in {0, 1} /\ Copies(e) \in Nat
      /\ Copies(e) = archive[e] + Cardinality(FilesOf(e)) + InLegacy(e)
  BY <1>1, CopiesAre
<1>6. Stored(e) \/ Outdated(MonthOf(e))  BY DEF LogInv, KeptInv, NothingLost
<1>7. ASSUME Stored(e) PROVE Copies(e) > 0
  <2>1. FilesOf(e) # {} => Cardinality(FilesOf(e)) # 0  BY <1>5, FS_EmptySet
  <2>2. archive[e] > 0 \/ InLegacy(e) = 1 \/ FilesOf(e) # {}
    BY <1>7 DEF Stored, InLegacy, FilesOf
  <2> QED  BY <1>5, <2>1, <2>2
<1> QED  BY <1>3, <1>4, <1>5, <1>6, <1>7

\* When every process has come to its last step, each recorded event is there once,
\* or retired: for any number of compactions and migrations at once, since the slower
\* of two that take the same event fails.
THEOREM RecordedExactlyOnce == Spec => []ExactlyOnce
<1>1. LogInv /\ OnceInv => ExactlyOnce  BY OnceIsExact
<1>2. LogInv /\ LogInv' /\ OnceInv /\ [Next]_vars => OnceInv'  BY OnceNext
<1> QED  BY <1>1, <1>2, OnceInit, LogInvariant, PTL DEF Spec

-------------------------------------------------------------------------------
(* A reader that nothing disturbed has seen what there is. *)

\* What an undisturbed reader has counted so far.
Seen(p, e) ==
    /\ At(p, "months") => proc[p].seen[e] = InLegacy(e)
    /\ At(p, "archives") =>
         proc[p].seen[e] = InLegacy(e) + (IF MonthOf(e) \in proc[p].todo THEN 0 ELSE archive[e])
    /\ At(p, "pending") =>
         proc[p].seen[e] = InLegacy(e) + archive[e] + Cardinality(FilesOf(e) \ proc[p].todo)
    /\ At(p, "done") /\ proc[p].op # "compact" => proc[p].seen[e] = Copies(e)

ReadInv ==
    /\ \A p \in Procs : proc[p].began \subseteq recorded
    /\ \A p \in Procs \ disturbed : \A e \in proc[p].began : Seen(p, e)

-------------------------------------------------------------------------------
\* Where an event is, and of which day it is, stays as it was.
Still(e) ==
    /\ archive'[e] = archive[e] /\ InLegacy(e)' = InLegacy(e)
    /\ FilesOf(e)' = FilesOf(e) /\ MonthOf(e)' = MonthOf(e) /\ Copies(e)' = Copies(e)

LEMMA QuietIsStill == ASSUME UNCHANGED <<events, day>>, NEW e PROVE Still(e)
  BY NothingMoved DEF Still, events, MonthOf, MonthStart

\* A step that moves an event disturbs every reader; the others leave what is recorded
\* where it is.
LEMMA DisturbedOrStill ==
    ASSUME LogInv, NEW p \in Procs, Step(p)
    PROVE  disturbed' = Procs \/ (disturbed \ {p} \subseteq disturbed' /\ \A e \in recorded : Still(e))
<1> USE DEF history, clockwork
<1>0. LogTypes /\ recorded \subseteq Events  BY DEF LogInv, LogTypes, EventTypeOK
<1>1. CASE WriteEventFile(p)
  <2>1. PICK d \in Events \ recorded :
          pending' = pending \cup {File(d, 0)} /\ day' = [day EXCEPT ![d] = today]
    BY <1>1 DEF WriteEventFile
  <2>2. archive' = archive /\ legacy' = legacy /\ disturbed' = disturbed
    BY <1>1 DEF WriteEventFile
  <2>3. ASSUME NEW e \in recorded PROVE Still(e)
    <3>1. e # d  OBVIOUS
    <3>2. FilesOf(e)' = FilesOf(e)  BY <2>1, <3>1 DEF FilesOf, File
    <3>3. MonthOf(e)' = MonthOf(e)
      BY <1>0, <2>1, <3>1 DEF MonthOf, MonthStart, LogTypes, EventTypeOK
    <3>4. InLegacy(e)' = InLegacy(e)  BY <2>2 DEF InLegacy
    <3>5. Copies(e)' = Copies(e)
      <4>1. Copies(e) = archive[e] + Cardinality(FilesOf(e)) + InLegacy(e)
        BY DEF Copies, FilesOf, InLegacy
      <4>2. Copies(e)' = archive'[e] + Cardinality(FilesOf(e)') + InLegacy(e)'
        BY DEF Copies, FilesOf, InLegacy
      <4> QED  BY <2>2, <3>2, <3>4, <4>1, <4>2
    <3> QED  BY <2>2, <3>2, <3>3, <3>4, <3>5 DEF Still
  <2> QED  BY <2>2, <2>3
<1>2. CASE \/ RenameLegacy(p) \/ AppendArchive(p) \/ RemovePending(p)
           \/ (\E e \in Events : MigrateLine(p, e)) \/ \E m \in Months : RemoveArchive(p, m)
  BY <1>2 DEF RenameLegacy, AppendArchive, RemovePending, MigrateLine, RemoveArchive
<1>3. CASE \/ Begin(p) \/ Die(p) \/ Read(p) \/ ReadLegacyLines(p) \/ ListPending(p)
           \/ ListOutdated(p) \/ Compacted(p) \/ \E f \in pending : ReadPending(p, f)
  <2>1. UNCHANGED <<events, day>> /\ disturbed \ {p} \subseteq disturbed'
    BY <1>3 DEF Begin, Die, Read, ReadLegacyLines, ListPending, ListOutdated, Compacted,
       ReadPending, SeeLegacy, ListArchives, SeeArchive, ListFiles, SeeFile, Counted
  <2> QED  BY <2>1, QuietIsStill
<1> QED  BY <1>1, <1>2, <1>3 DEF Step, Move

\* A reader that does nothing has still seen what is there.
LEMMA OthersSeen ==
    ASSUME NEW q \in Procs, NEW e, Seen(q, e), Still(e), proc'[q] = proc[q] PROVE Seen(q, e)'
  BY DEF Seen, Still, At

\* A process that is not reading has seen nothing yet.
LEMMA NothingSeen ==
    ASSUME NEW p \in Procs, NEW e,
           proc'[p].pc \notin {"months", "archives", "pending", "done"}
             \/ (proc'[p].pc = "done" /\ proc'[p].op = "compact")
    PROVE  Seen(p, e)'
  BY DEF Seen, At

\* An archived event is found in the month it belongs to.
LEMMA MonthListed ==
    ASSUME LogTypes, NEW e \in Events, MonthOf(e) \notin Months PROVE archive[e] = 0
  BY DEF Months, LogTypes, EventTypeOK

LEMMA FilesSeen ==
    ASSUME NEW p \in Procs, NEW e, Still(e), proc'[p].pc = "pending",
           proc'[p].seen[e] = InLegacy(e) + archive[e] + Cardinality(FilesOf(e) \ proc'[p].todo)
    PROVE  Seen(p, e)'
  BY DEF Seen, At, Still

LEMMA AllSeen ==
    ASSUME NEW p \in Procs, NEW e, Still(e), proc'[p].pc = "done", proc'[p].seen[e] = Copies(e)
    PROVE  Seen(p, e)'
  BY DEF Seen, At, Still

\* What a reader sees at each of its steps.
LEMMA ReadSeen ==
    ASSUME LogInv, OnceInv, ReadInv, NEW p \in Procs, Read(p), p \notin disturbed',
           NEW e \in proc'[p].began
    PROVE  e \in recorded' /\ Seen(p, e)'
<1> USE DEF history
<1>0. LogTypes /\ recorded \subseteq Events /\ proc[p] \in Process /\ proc \in [Procs -> Process]
  BY DEF LogInv, LogTypes, EventTypeOK
<1>1. UNCHANGED <<events, day, recorded>>
  BY DEF Read, SeeLegacy, ListArchives, SeeArchive, ListFiles, SeeFile, Counted, clockwork
<1>2. Still(e)  BY <1>1, QuietIsStill
<1>3. CASE SeeLegacy(p)
  <2>1. proc'[p] = [proc[p] EXCEPT !.pc = "months", !.began = recorded,
                      !.seen = [d \in Events |-> IF d \in legacy THEN 1 ELSE 0]]
    BY <1>0, <1>3 DEF SeeLegacy
  <2>2. proc'[p].pc = "months" /\ proc'[p].began = recorded
        /\ proc'[p].seen = [d \in Events |-> InLegacy(d)]
    BY <1>0, <2>1 DEF Process, InLegacy
  <2>3. proc'[p].seen[e] = InLegacy(e)  BY <1>0, <2>2
  <2> QED  BY <1>1, <1>2, <2>2, <2>3 DEF Seen, At, Still
<1>4. CASE ~SeeLegacy(p)
  <2>0. proc'[p].began = proc[p].began /\ disturbed' = disturbed /\ proc'[p].op = proc[p].op
    <3>1. ASSUME ListArchives(p) \/ ListFiles(p) \/ Counted(p)
          PROVE  proc'[p].began = proc[p].began /\ disturbed' = disturbed /\ proc'[p].op = proc[p].op
      BY <1>0, <3>1 DEF ListArchives, ListFiles, Counted, Goto, Walk, Process
    <3>2. ASSUME NEW m \in Months, SeeArchive(p, m)
          PROVE  proc'[p].began = proc[p].began /\ disturbed' = disturbed /\ proc'[p].op = proc[p].op
      BY <1>0, <3>2 DEF SeeArchive, Process
    <3>3. ASSUME NEW f \in pending, SeeFile(p, f)
          PROVE  proc'[p].began = proc[p].began /\ disturbed' = disturbed /\ proc'[p].op = proc[p].op
      BY <1>0, <3>3 DEF SeeFile, Process
    <3> QED  BY <1>4, <3>1, <3>2, <3>3 DEF Read
  <2>1. Seen(p, e) /\ e \in recorded /\ e \in recorded' /\ e \in Events
    BY <1>0, <1>1, <2>0 DEF ReadInv
  <2>2. /\ archive[e] \in Nat /\ InLegacy(e) \in {0, 1}
        /\ IsFiniteSet(FilesOf(e)) /\ Cardinality(FilesOf(e)) \in Nat
        /\ Copies(e) = archive[e] + Cardinality(FilesOf(e)) + InLegacy(e)
    BY <1>0, <2>1, CopiesAre DEF OnceInv
  <2>3. CASE ListArchives(p)
    <3>1. /\ proc[p].pc = "months" /\ proc'[p].pc = "archives" /\ proc'[p].todo = Months
          /\ proc'[p].seen = proc[p].seen
      BY <1>0, <2>3 DEF ListArchives, Walk, Process, At
    <3>2. MonthOf(e) \in Months \/ archive[e] = 0  BY <1>0, <2>1, MonthListed
    <3>3. proc'[p].seen[e] = InLegacy(e)  BY <2>1, <3>1 DEF Seen, At
    <3> QED  BY <1>2, <2>1, <2>2, <3>1, <3>2, <3>3 DEF Seen, At, Still
  <2>4. ASSUME NEW m \in Months, SeeArchive(p, m) PROVE Seen(p, e)'
    <3>1. proc[p].pc = "archives" /\ m \in proc[p].todo  BY <2>4 DEF SeeArchive, At
    <3>2. proc'[p] = [proc[p] EXCEPT !.todo = @ \ {m},
                        !.seen = [d \in Events |-> proc[p].seen[d]
                                    + [c \in Events |-> IF MonthOf(c) = m THEN archive[c] ELSE 0][d]]]
      BY <1>0, <2>4 DEF SeeArchive
    <3>3. /\ proc'[p].pc = "archives" /\ proc'[p].todo = proc[p].todo \ {m}
          /\ proc'[p].seen[e] = proc[p].seen[e] + (IF MonthOf(e) = m THEN archive[e] ELSE 0)
      BY <1>0, <2>1, <3>1, <3>2 DEF Process
    <3>4. proc[p].seen[e] = InLegacy(e) + (IF MonthOf(e) \in proc[p].todo THEN 0 ELSE archive[e])
      BY <2>1, <3>1 DEF Seen, At
    <3>5. proc'[p].seen[e] = InLegacy(e) + (IF MonthOf(e) \in proc'[p].todo THEN 0 ELSE archive[e])
      BY <2>2, <3>1, <3>3, <3>4
    <3> QED  BY <1>2, <3>3, <3>5 DEF Seen, At, Still
  <2>5. CASE ListFiles(p)
    <3>1. /\ proc[p].pc = "archives" /\ proc[p].todo = {}
          /\ proc'[p].pc = "pending" /\ proc'[p].todo = pending /\ proc'[p].seen = proc[p].seen
      BY <1>0, <2>5 DEF ListFiles, Walk, Process, At
    <3>2. FilesOf(e) \ pending = {}  BY DEF FilesOf
    <3>3. Cardinality(FilesOf(e) \ pending) = 0  BY <3>2, FS_EmptySet
    <3>4. proc'[p].seen[e] = InLegacy(e) + archive[e]  BY <2>1, <3>1 DEF Seen, At
    <3>5. proc'[p].seen[e] = InLegacy(e) + archive[e] + Cardinality(FilesOf(e) \ proc'[p].todo)
      BY <2>2, <3>1, <3>3, <3>4
    <3>6. proc'[p].pc = "pending"  BY <3>1
    <3> QED  BY <1>2, <2>1, <3>5, <3>6, FilesSeen
  <2>6. ASSUME NEW f \in pending, SeeFile(p, f) PROVE Seen(p, e)'
    <3>1. proc[p].pc = "pending" /\ f \in proc[p].todo  BY <2>6 DEF SeeFile, At
    <3>2. f.event \in Events  BY <1>0, FileHasEvent DEF LogTypes, EventTypeOK
    <3>3. /\ proc'[p].pc = "pending" /\ proc'[p].todo = proc[p].todo \ {f}
          /\ proc'[p].seen = [proc[p].seen EXCEPT ![f.event] = @ + 1]
      BY <1>0, <2>6, <3>1 DEF SeeFile, Process
    <3>4. proc[p].seen[e] = InLegacy(e) + archive[e] + Cardinality(FilesOf(e) \ proc[p].todo)
      BY <2>1, <3>1 DEF Seen, At
    <3>5. proc'[p].seen[e] = IF f.event = e THEN proc[p].seen[e] + 1 ELSE proc[p].seen[e]
      BY <1>0, <2>1, <3>2, <3>3 DEF Process
    <3>6. IsFiniteSet(FilesOf(e) \ proc[p].todo)  BY <2>2, FS_Subset
    <3>7. Cardinality(FilesOf(e) \ proc[p].todo) \in Nat  BY <3>6, FS_CardinalityType
    <3>8. CASE f.event = e
      <4>1. FilesOf(e) \ proc'[p].todo = (FilesOf(e) \ proc[p].todo) \cup {f}
            /\ f \notin FilesOf(e) \ proc[p].todo
        BY <3>1, <3>3, <3>8 DEF FilesOf
      <4>2. Cardinality(FilesOf(e) \ proc'[p].todo) = Cardinality(FilesOf(e) \ proc[p].todo) + 1
        BY <3>6, <4>1, FS_AddElement
      <4>3. proc'[p].seen[e] = InLegacy(e) + archive[e] + Cardinality(FilesOf(e) \ proc'[p].todo)
        BY <2>2, <3>4, <3>5, <3>7, <3>8, <4>2
      <4> QED  BY <1>2, <3>3, <4>3, FilesSeen
    <3>9. CASE f.event # e
      <4>1. FilesOf(e) \ proc'[p].todo = FilesOf(e) \ proc[p].todo  BY <3>3, <3>9 DEF FilesOf
      <4>2. proc'[p].seen[e] = InLegacy(e) + archive[e] + Cardinality(FilesOf(e) \ proc'[p].todo)
        BY <3>4, <3>5, <3>9, <4>1
      <4> QED  BY <1>2, <3>3, <4>2, FilesSeen
    <3> QED  BY <3>8, <3>9
  <2>7. CASE Counted(p)
    <3>1. /\ proc[p].pc = "pending" /\ proc[p].todo = {} /\ proc'[p].pc = "done"
          /\ proc'[p].seen = proc[p].seen
      BY <1>0, <2>7 DEF Counted, Goto, Process, At
    <3>2. FilesOf(e) \ proc[p].todo = FilesOf(e)  BY <3>1
    <3>3. proc'[p].seen[e] = InLegacy(e) + archive[e] + Cardinality(FilesOf(e))
      BY <2>1, <3>1, <3>2 DEF Seen, At
    <3>4. proc'[p].seen[e] = Copies(e)  BY <2>2, <3>3
    <3>5. proc'[p].pc = "done"  BY <3>1
    <3> QED  BY <1>2, <2>1, <3>4, <3>5, AllSeen
  <2> QED  BY <1>4, <2>1, <2>3, <2>4, <2>5, <2>6, <2>7 DEF Read
<1> QED  BY <1>3, <1>4

LEMMA StepSeen ==
    ASSUME LogInv, OnceInv, ReadInv, NEW p \in Procs, Step(p)
    PROVE  /\ proc'[p].began \subseteq recorded'
           /\ p \notin disturbed' => \A e \in proc'[p].began : Seen(p, e)'
<1>0. LogTypes /\ proc[p] \in Process /\ proc \in [Procs -> Process] /\ recorded \subseteq recorded'
  BY StepPersists DEF LogInv, LogTypes, Persists
<1>1. CASE Read(p)
  <2>1. proc'[p].began \subseteq recorded \/ proc'[p].began = proc[p].began
    <3>1. ASSUME SeeLegacy(p) PROVE proc'[p].began = recorded
      BY <1>0, <3>1 DEF SeeLegacy, Process
    <3>2. ASSUME ListArchives(p) \/ ListFiles(p) \/ Counted(p) PROVE proc'[p].began = proc[p].began
      BY <1>0, <3>2 DEF ListArchives, ListFiles, Counted, Goto, Walk, Process
    <3>3. ASSUME NEW m \in Months, SeeArchive(p, m) PROVE proc'[p].began = proc[p].began
      BY <1>0, <3>3 DEF SeeArchive, Process
    <3>4. ASSUME NEW f \in pending, SeeFile(p, f) PROVE proc'[p].began = proc[p].began
      BY <1>0, <3>4 DEF SeeFile, Process
    <3> QED  BY <1>1, <3>1, <3>2, <3>3, <3>4 DEF Read
  <2>2. proc'[p].began \subseteq recorded'  BY <1>0, <2>1 DEF ReadInv
  <2> QED  BY <1>1, <2>2, ReadSeen
<1>2. CASE Begin(p) \/ Die(p)
  <2>1. proc'[p].began = {}
    <3>1. CASE Begin(p)
      BY <1>0, <3>1 DEF Begin, Resting
    <3>2. CASE Die(p)
      BY <1>0, <3>2 DEF Die, Resting
    <3> QED  BY <1>2, <3>1, <3>2
  <2> QED  BY <2>1
<1>3. CASE Move(p) \/ WriteEventFile(p)
  <2>1. proc'[p].began = proc[p].began
    <3>1. ASSUME \/ WriteEventFile(p) \/ RenameLegacy(p) \/ AppendArchive(p) \/ Compacted(p)
                 \/ ReadLegacyLines(p)
          PROVE  proc'[p].began = proc[p].began
      BY <1>0, <3>1 DEF WriteEventFile, RenameLegacy, AppendArchive, Compacted, ReadLegacyLines,
         Goto, Walk, Process
    <3>2. ASSUME ListOutdated(p) \/ (\E m \in Months : RemoveArchive(p, m))
                  \/ \E e \in Events : MigrateLine(p, e)
          PROVE  proc'[p].began = proc[p].began
      BY <1>0, <3>2 DEF ListOutdated, RemoveArchive, MigrateLine, Walk, Process
    <3>3. ASSUME ListPending(p) \/ RemovePending(p) PROVE proc'[p].began = proc[p].began
      BY <1>0, <3>3 DEF ListPending, RemovePending, Process
    <3>4. ASSUME NEW f \in pending, ReadPending(p, f) PROVE proc'[p].began = proc[p].began
      BY <1>0, <3>4 DEF ReadPending, Process
    <3> QED  BY <1>3, <3>1, <3>2, <3>3, <3>4 DEF Move
  <2>2. \/ disturbed' = Procs
        \/ proc'[p].pc \notin {"months", "archives", "pending", "done"}
        \/ proc'[p].pc = "done" /\ proc'[p].op = "compact"
    <3>1. CASE \/ RenameLegacy(p) \/ AppendArchive(p) \/ RemovePending(p)
               \/ (\E e \in Events : MigrateLine(p, e)) \/ \E m \in Months : RemoveArchive(p, m)
      BY <3>1 DEF RenameLegacy, AppendArchive, RemovePending, MigrateLine, RemoveArchive
    <3>2. CASE WriteEventFile(p)
      BY <1>0, <3>2 DEF WriteEventFile, Goto, Process
    <3>3. CASE ReadLegacyLines(p)
      BY <1>0, <3>3 DEF ReadLegacyLines, Goto, Walk, Process
    <3>4. CASE ListPending(p)
      BY <1>0, <3>4 DEF ListPending, Process
    <3>5. ASSUME NEW f \in pending, ReadPending(p, f) PROVE proc'[p].pc = "append"
      BY <1>0, <3>5 DEF ReadPending, Process
    <3>6. CASE ListOutdated(p)
      BY <1>0, <3>6 DEF ListOutdated, Walk, Process
    <3>7. CASE Compacted(p)
      BY <1>0, <3>7 DEF Compacted, Goto, Process
    <3> QED  BY <1>3, <3>1, <3>2, <3>3, <3>4, <3>5, <3>6, <3>7 DEF Move
  <2>3. p \notin disturbed' => \A e : Seen(p, e)'  BY <2>2, NothingSeen
  <2> QED  BY <1>0, <2>1, <2>3 DEF ReadInv
<1> QED  BY <1>1, <1>2, <1>3 DEF Step

LEMMA ReadNext == ASSUME LogInv, OnceInv, ReadInv, [Next]_vars PROVE ReadInv'
<1>1. CASE UNCHANGED vars \/ NextDay
  <2>1. UNCHANGED <<events, day, proc, disturbed, recorded>>
    BY <1>1 DEF vars, clockwork, history, NextDay
  <2>2. ASSUME NEW p \in Procs, NEW e, Seen(p, e) PROVE Seen(p, e)'
    BY <2>1, <2>2, QuietIsStill, OthersSeen
  <2> QED  BY <2>1, <2>2 DEF ReadInv
<1>2. ASSUME NEW p \in Procs, Step(p) PROVE ReadInv'
  <2>0. LogTypes /\ KeptInv /\ recorded \subseteq recorded'
    BY <1>2, StepPersists DEF LogInv, Persists
  <2>1. \A q \in Procs \ {p} : proc'[q] = proc[q]  BY <1>2, <2>0, StepMovesOne
  <2>2. /\ proc'[p].began \subseteq recorded'
        /\ p \notin disturbed' => \A e \in proc'[p].began : Seen(p, e)'
    BY <1>2, StepSeen
  <2>3. disturbed' = Procs \/ (disturbed \ {p} \subseteq disturbed' /\ \A e \in recorded : Still(e))
    BY <1>2, DisturbedOrStill
  <2>4. \A q \in Procs : proc'[q].began \subseteq recorded'
    BY <2>0, <2>1, <2>2 DEF ReadInv
  <2>5. ASSUME NEW q \in Procs \ disturbed', q # p, NEW e \in proc'[q].began PROVE Seen(q, e)'
    <3>1. proc'[q] = proc[q] /\ q \notin disturbed /\ e \in recorded
      BY <2>1, <2>3, <2>5 DEF ReadInv
    <3>2. Seen(q, e)  BY <2>5, <3>1 DEF ReadInv
    <3>3. Still(e)  BY <2>3, <2>5, <3>1
    <3> QED  BY <3>1, <3>2, <3>3, OthersSeen
  <2>6. \A q \in Procs \ disturbed' : \A e \in proc'[q].began : Seen(q, e)'
    BY <2>2, <2>5
  <2> QED  BY <2>4, <2>6 DEF ReadInv
<1> QED  BY <1>1, <1>2 DEF Next

\* A read that no move of events overlapped has every event that was recorded before
\* it began as often as it is stored, for any processes, events and archives.
THEOREM QuietReadComplete == Spec => []QuietReadSeesAll
<1>1. Init => ReadInv
  BY DEF Init, ReadInv, Resting
<1>2. LogInv /\ OnceInv /\ ReadInv /\ [Next]_vars => ReadInv'  BY ReadNext
<1>3. ReadInv => QuietReadSeesAll
  BY DEF ReadInv, QuietReadSeesAll, Seen
<1>4. LogInv /\ LogInv' /\ OnceInv /\ [Next]_vars => OnceInv'  BY OnceNext
<1> QED  BY <1>1, <1>2, <1>3, <1>4, OnceInit, LogInvariant, PTL DEF Spec
===============================================================================
