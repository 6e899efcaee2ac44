--------------------------- MODULE TaskServiceProofs ---------------------------
(***************************************************************************)
(* Theorems about TaskService for any number of processes, any requests,   *)
(* evidence, reasons and limits: type correctness, the safety properties   *)
(* that MCTaskService checks on two processes, and that one process alone  *)
(* implements TaskLedger; then the same about MixedRuntime, where any      *)
(* number of PowerShell invocations writes the mirror as well; then what   *)
(* Create and its abort leave behind, with any number of processes at work *)
(* on the task (TaskCreation).  The steps of the service are the same in   *)
(* all three, and what is shown of each step is used in each.              *)
(***************************************************************************)
EXTENDS MixedRuntime, TaskCreation, FiniteSetTheorems, TLAPS

-------------------------------------------------------------------------------
(* The operators of ExecutionContract. *)

\* Every copy of a contract the service computes is a contract; a verdict is
\* terminal, and carries the evidence or the reason of its request.
LEMMA ContractOps ==
    ASSUME NEW c \in Contract, NEW e \in SUBSET Evidence,
           NEW r \in Reasons \cup {NoReason}, NEW now \in Nat
    PROVE  /\ Complete(c, e, now) \in Contract /\ Block(c, r, now) \in Contract
           /\ Complete(c, e, now).state = "done"
           /\ Complete(c, e, now).evidence = c.evidence \cup e
           /\ Block(c, r, now).state = "blocked" /\ Block(c, r, now).reason = r
  <1>2. ASSUME NEW d \in Contract, NEW to \in States
        PROVE  /\ Transition(d, to, now) \in Contract
               /\ Transition(d, to, now).state = to
               /\ Transition(d, to, now).evidence = d.evidence
    BY <1>2 DEF Contract, Transition, States
  <1>3. "verifying" \in States /\ "done" \in States /\ "blocked" \in States
    BY DEF States
  <1>4. Block(c, r, now) \in Contract /\ Block(c, r, now).state = "blocked"
        /\ Block(c, r, now).reason = r
    BY <1>2, <1>3 DEF Block, Contract
  <1> DEFINE v == IF c.state = "executing" THEN Transition(c, "verifying", now) ELSE c
  <1> HIDE DEF v
  <1>5. v \in Contract /\ v.evidence = c.evidence
    BY <1>2, <1>3 DEF v
  <1>6. Complete(c, e, now) = [Transition(v, "done", now) EXCEPT !.evidence = @ \cup e]
    BY DEF Complete, v
  <1>7. /\ Complete(c, e, now) \in Contract /\ Complete(c, e, now).state = "done"
        /\ Complete(c, e, now).evidence = c.evidence \cup e
    <2>1. /\ Transition(v, "done", now) \in Contract
          /\ Transition(v, "done", now).state = "done"
          /\ Transition(v, "done", now).evidence = c.evidence
      BY <1>2, <1>3, <1>5
    <2> QED BY <1>6, <2>1 DEF Contract
  <1> QED BY <1>4, <1>7

\* Taking or giving back a slot changes the counter alone.
LEMMA SlotFields ==
    ASSUME NEW c \in Contract
    PROVE  /\ TakeSlot(c) \in Contract /\ ReturnSlot(c) \in Contract
           /\ TakeSlot(c).state = c.state /\ ReturnSlot(c).state = c.state
           /\ TakeSlot(c).evidence = c.evidence /\ ReturnSlot(c).evidence = c.evidence
           /\ TakeSlot(c).reason = c.reason /\ ReturnSlot(c).reason = c.reason
           /\ TakeSlot(c).at = c.at /\ ReturnSlot(c).at = c.at
           /\ TakeSlot(c).used = c.used + 1
           /\ c.used > 0 => ReturnSlot(c).used = c.used - 1
  BY DEF Contract, TakeSlot, ReturnSlot

LEMMA AbsentIsContract == Absent \in Contract /\ Started \in Contract
                          /\ ~IsTerminal(Absent.state) /\ ~IsTerminal(Started.state)
  BY DEF Absent, Started, Contract, States, IsTerminal

-------------------------------------------------------------------------------
(* Moving a process. *)

ProcType == proc \in [Procs -> Process \cup {Resting}]

Others(p) == \A q \in Procs \ {p} : proc'[q] = proc[q]

\* A process that is not idle holds a request, a copy and an opinion id.
LEMMA BusyProcess ==
    ASSUME ProcType, NEW p \in Procs, ~At(p, "idle")
    PROVE  proc[p] \in Process
  BY DEF ProcType, At, Resting, Process

LEMMA GotoEffect ==
    ASSUME ProcType, NEW p \in Procs, ~At(p, "idle"), NEW label \in Labels, Goto(p, label)
    PROVE  /\ ProcType' /\ Others(p) /\ proc'[p] \in Process
           /\ proc'[p] = [proc[p] EXCEPT !.pc = label]
           /\ proc'[p].pc = label /\ proc'[p].req = proc[p].req
           /\ proc'[p].con = proc[p].con /\ proc'[p].opn = proc[p].opn
           /\ proc'[p].ret = proc[p].ret
  <1>1. proc[p] \in Process  BY BusyProcess
  <1>2. proc'[p] = [proc[p] EXCEPT !.pc = label]  BY DEF Goto, ProcType
  <1>3. Others(p)  BY DEF Goto, ProcType, Others
  <1>4. proc'[p] \in Process  BY <1>1, <1>2 DEF Process
  <1>5. ProcType'  BY <1>4 DEF ProcType, Goto
  <1> QED BY <1>1, <1>2, <1>3, <1>4, <1>5 DEF Process

LEMMA GotoWithEffect ==
    ASSUME ProcType, NEW p \in Procs, ~At(p, "idle"), NEW label \in Labels,
           NEW c \in Contract, GotoWith(p, label, c)
    PROVE  /\ ProcType' /\ Others(p) /\ proc'[p] \in Process
           /\ proc'[p].pc = label /\ proc'[p].req = proc[p].req
           /\ proc'[p].con = c /\ proc'[p].opn = proc[p].opn
           /\ proc'[p].ret = proc[p].ret
  <1>1. proc[p] \in Process  BY BusyProcess
  <1>2. proc'[p] = [proc[p] EXCEPT !.pc = label, !.con = c]  BY DEF GotoWith, ProcType
  <1>3. Others(p)  BY DEF GotoWith, ProcType, Others
  <1>4. proc'[p] \in Process  BY <1>1, <1>2 DEF Process
  <1>5. ProcType'  BY <1>4 DEF ProcType, GotoWith
  <1> QED BY <1>1, <1>2, <1>3, <1>4, <1>5 DEF Process

LEMMA ReserveEffect ==
    ASSUME ProcType, row \in Contract, NEW p \in Procs, Reserve(p)
    PROVE  \E o \in Opinions \ (granted \cup opinions) :
             /\ granted' = granted \cup {o}
             /\ ProcType' /\ Others(p) /\ proc'[p] \in Process
             /\ proc'[p].pc = "copy" /\ proc'[p].con = TakeSlot(row)
             /\ proc'[p].opn = o /\ proc'[p].ret = "opinion" /\ proc'[p].req = proc[p].req
  <1>1. PICK o \in Opinions \ (granted \cup opinions) :
          /\ granted' = granted \cup {o}
          /\ proc' = [proc EXCEPT ![p].pc = "copy", ![p].con = TakeSlot(row),
                                  ![p].opn = o, ![p].ret = "opinion"]
    BY DEF Reserve
  <1>2. proc[p] \in Process  BY BusyProcess DEF Reserve, At
  <1>3. proc'[p] = [proc[p] EXCEPT !.pc = "copy", !.con = TakeSlot(row),
                                   !.opn = o, !.ret = "opinion"]
    BY <1>1 DEF ProcType
  <1>4. proc'[p] \in Process  BY <1>2, <1>3, SlotFields DEF Process, Labels
  <1>5. ProcType' /\ Others(p)  BY <1>1, <1>4 DEF ProcType, Others
  <1> QED BY <1>1, <1>2, <1>3, <1>4, <1>5 DEF Process

LEMMA ReleaseEffect ==
    ASSUME ProcType, row \in Contract, NEW p \in Procs, Release(p)
    PROVE  /\ ProcType' /\ Others(p) /\ proc'[p] \in Process
           /\ proc'[p].pc = "copy" /\ proc'[p].con = ReturnSlot(row)
           /\ proc'[p].opn = proc[p].opn /\ proc'[p].ret = "idle"
           /\ proc'[p].req = proc[p].req
  <1>1. proc[p] \in Process  BY BusyProcess DEF Release, At
  <1>2. proc'[p] = [proc[p] EXCEPT !.pc = "copy", !.con = ReturnSlot(row), !.ret = "idle"]
    BY DEF ProcType, Release
  <1>3. proc'[p] \in Process  BY <1>1, <1>2, SlotFields DEF Process, Labels
  <1>4. ProcType' /\ Others(p)  BY <1>3 DEF ProcType, Others, Release
  <1> QED BY <1>1, <1>2, <1>3, <1>4 DEF Process

LEMMA ApplyEffect ==
    ASSUME ProcType, NEW p \in Procs, Apply(p)
    PROVE  /\ ProcType' /\ Others(p) /\ proc'[p] \in Process
           /\ proc'[p].pc = "copy" /\ proc'[p].con = proc[p].con
           /\ proc'[p].opn = proc[p].opn /\ proc'[p].ret = "reply"
           /\ proc'[p].req = proc[p].req
  <1>1. proc[p] \in Process  BY BusyProcess DEF Apply, At
  <1>2. proc'[p] = [proc[p] EXCEPT !.pc = "copy", !.ret = "reply"]
    BY DEF ProcType, Apply
  <1>3. proc'[p] \in Process  BY <1>1, <1>2 DEF Process, Labels
  <1>4. ProcType' /\ Others(p)  BY <1>3 DEF ProcType, Others, Apply
  <1> QED BY <1>1, <1>2, <1>3, <1>4 DEF Process

LEMMA ReturnEffect ==
    ASSUME ProcType, NEW p \in Procs, Return(p)
    PROVE  ProcType' /\ Others(p) /\ proc'[p] = Resting /\ proc'[p].pc = "idle"
  BY DEF ProcType, Others, Return, Resting

-------------------------------------------------------------------------------
(* Type correctness. *)

LEMMA BucketOfType == ASSUME NEW s PROVE BucketOf(s) \in Buckets
  BY DEF BucketOf, Buckets

LEMMA FirstCopyType ==
    ASSUME mirror \in [Buckets -> Contract]
    PROVE  FirstCopy \in Contract /\ \E b \in Buckets : FirstCopy = mirror[b]
  BY DEF FirstCopy, Buckets

LEMMA EventOfType ==
    ASSUME NEW r \in Request
    PROVE  /\ EventOf(r) \in EventIds
           /\ \A o : EventOf(r) # Submitted(o)
  BY DEF EventOf, EventIds, Request, Completed, Blocked, Submitted

\* TypeOK but for the histories: creating a task has events of its own.
RecordsOK ==
    /\ row \in Contract
    /\ mirror \in [Buckets -> Contract]
    /\ opinions \subseteq Opinions
    /\ proc \in [Procs -> Process \cup {Resting}]
    /\ clock \in Nat /\ requested \in Nat
    /\ granted \subseteq Opinions

LEMMA TypeParts == TypeOK <=> RecordsOK /\ timeline \subseteq EventIds /\ acked \subseteq EventIds
  BY DEF TypeOK, RecordsOK

LEMMA PlannedType ==
    ASSUME RecordsOK, NEW p \in Procs, proc[p] \in Process
    PROVE  /\ Planned(p) \in Contract
           /\ IsTerminal(Planned(p).state)
           /\ proc[p].req.kind = "complete" =>
                /\ Planned(p).state = "done"
                /\ Planned(p).evidence = proc[p].con.evidence \cup proc[p].req.evidence
           /\ proc[p].req.kind # "complete" =>
                Planned(p).state = "blocked" /\ Planned(p).reason = proc[p].req.reason
  <1>1. /\ proc[p].con \in Contract /\ proc[p].req.evidence \in SUBSET Evidence
        /\ proc[p].req.reason \in Reasons \cup {NoReason} /\ clock + 1 \in Nat
    BY ServiceAssumption DEF RecordsOK, Process, Request
  <1> DEFINE c == proc[p].con  r == proc[p].req  now == clock + 1
  <1>2. /\ c \in Contract /\ r.evidence \in SUBSET Evidence
        /\ r.reason \in Reasons \cup {NoReason} /\ now \in Nat
    BY <1>1
  <1> HIDE DEF c, r, now
  <1>3. /\ Complete(c, r.evidence, now) \in Contract /\ Block(c, r.reason, now) \in Contract
        /\ Complete(c, r.evidence, now).state = "done"
        /\ Complete(c, r.evidence, now).evidence = c.evidence \cup r.evidence
        /\ Block(c, r.reason, now).state = "blocked" /\ Block(c, r.reason, now).reason = r.reason
    BY <1>2, ContractOps
  <1>4. Planned(p) = IF r.kind = "complete" THEN Complete(c, r.evidence, now)
                                            ELSE Block(c, r.reason, now)
    BY DEF Planned, c, r, now
  <1>5. IsTerminal(Planned(p).state)  BY <1>3, <1>4 DEF IsTerminal
  <1>6. r.kind = "complete" =>
           Planned(p).state = "done" /\ Planned(p).evidence = c.evidence \cup r.evidence
    BY <1>3, <1>4
  <1>7. r.kind # "complete" => Planned(p).state = "blocked" /\ Planned(p).reason = r.reason
    BY <1>3, <1>4
  <1>8. Planned(p) \in Contract  BY <1>3, <1>4
  <1> QED BY <1>5, <1>6, <1>7, <1>8 DEF c, r

\* A process that has reserved a slot and not yet finished with it.
Holding(p) ==
    \/ proc[p].pc \in {"opinion", "emit", "remove", "release"}
    \/ proc[p].pc \in {"copy", "prune"} /\ proc[p].ret = "opinion"

\* TypeOK is not inductive alone: a process is only said to hold an opinion id,
\* or none, but the one that writes it must hold one.
WellFormedAt(p) ==
    /\ proc[p].pc \in {"copy", "prune"} => proc[p].ret \in {"reply", "opinion", "idle"}
    /\ Holding(p) => proc[p].opn \in Opinions

WellFormed == \A p \in Procs : WellFormedAt(p)

RecordInv == RecordsOK /\ WellFormed

TypeInv == TypeOK /\ WellFormed

LEMMA TypeInvParts ==
    TypeInv <=> RecordInv /\ timeline \subseteq EventIds /\ acked \subseteq EventIds
  BY TypeParts DEF TypeInv, RecordInv

LEMMA TypeInit == Init => TypeInv
  BY AbsentIsContract, ServiceAssumption
  DEF Init, TypeInv, TypeOK, WellFormed, WellFormedAt, Holding, Buckets, Process, Resting

\* Every step but Begin is one of a busy process.
LEMMA BusySteps == ASSUME NEW p, Step(p) PROVE Begin(p) \/ ~At(p, "idle")
  BY DEF Step, At, LoadRow, LoadMirror, Reconcile, Recognise, Plan, Admit, Conclude, Ensure,
         Apply, Copy, Prune, Reply, Reserve, RefuseSlot, WriteOpinion, Emit, RemoveOpinion,
         Release, Fail, Crash

\* Whatever a process does keeps the records typed, and writes no other events than its own.
LEMMA RecordStep ==
    ASSUME RecordInv, NEW p \in Procs, Step(p)
    PROVE  /\ RecordsOK'
           /\ timeline' \subseteq timeline \cup EventIds
           /\ acked' \subseteq acked \cup EventIds
  <1> USE DEF Labels
  <1>0. ProcType /\ RecordsOK /\ WellFormed  BY DEF RecordInv, RecordsOK, ProcType
  <1>1. CASE Begin(p)
    <2>1. proc' \in [Procs -> Process \cup {Resting}]
      BY <1>0, <1>1, AbsentIsContract DEF Begin, RecordsOK, Process
    <2> QED BY <1>0, <1>1, <2>1 DEF Begin, RecordsOK
  <1>2. CASE ~At(p, "idle")
    <2>0. /\ proc[p] \in Process /\ proc[p].con \in Contract /\ proc[p].req \in Request
          /\ proc[p].ret \in Labels /\ proc[p].opn \in Opinions \cup {NoOpinion}
      BY <1>0, <1>2, BusyProcess, ServiceAssumption DEF Process
    <2>1. CASE LoadRow(p)
      <3>1. ProcType'
        BY <1>0, <1>2, <2>1, GotoWithEffect, AbsentIsContract DEF LoadRow, RecordsOK
      <3> QED BY <1>0, <2>1, <3>1 DEF LoadRow, RecordsOK, ProcType, stored
    <2>2. CASE LoadMirror(p)
      <3>1. mirror[proc[p].req.bucket] \in Contract /\ FirstCopy \in Contract
        BY <1>0, <2>0, FirstCopyType DEF RecordsOK, Request
      <3>2. ProcType'
        BY <1>0, <1>2, <2>0, <2>2, <3>1, GotoWithEffect, ReturnEffect, AbsentIsContract
        DEF LoadMirror, OnMirror
      <3> QED BY <1>0, <2>2, <3>2 DEF LoadMirror, RecordsOK, ProcType, stored
    <2>3. CASE Reconcile(p)
      <3>1. ProcType'  BY <1>0, <1>2, <2>3, GotoEffect DEF Reconcile
      <3> QED BY <1>0, <2>0, <2>3, <3>1 DEF Reconcile, RecordsOK, ProcType
    <2>4. CASE Recognise(p) \/ Admit(p) \/ Conclude(p)
      <3>1. ProcType'
        BY <1>0, <1>2, <2>4, GotoEffect, ReturnEffect DEF Recognise, Admit, Conclude
      <3> QED BY <1>0, <2>4, <3>1 DEF Recognise, Admit, Conclude, RecordsOK, ProcType, stored
    <2>5. CASE Plan(p)
      <3>1. ProcType'  BY <1>0, <1>2, <2>0, <2>5, GotoWithEffect, PlannedType DEF Plan
      <3> QED BY <1>0, <2>5, <3>1 DEF Plan, RecordsOK, ProcType, stored
    <2>6. CASE Ensure(p)
      <3>1. ProcType'  BY <1>0, <1>2, <2>6, ReturnEffect DEF Ensure
      <3> QED BY <1>0, <2>0, <2>6, <3>1, EventOfType DEF Ensure, RecordsOK, ProcType
    <2>7. CASE Apply(p)
      <3>1. ProcType'  BY <1>0, <2>7, ApplyEffect
      <3> QED BY <1>0, <2>0, <2>7, <3>1, EventOfType DEF Apply, RecordsOK, ProcType
    <2>8. CASE Copy(p)
      <3>1. ProcType'  BY <1>0, <1>2, <2>8, GotoEffect DEF Copy
      <3> QED BY <1>0, <2>0, <2>8, <3>1 DEF Copy, RecordsOK, ProcType
    <2>9. CASE Prune(p)
      <3>1. ProcType'  BY <1>0, <1>2, <2>0, <2>9, GotoEffect, ReturnEffect DEF Prune
      <3>2. mirror' \in [Buckets -> Contract]
        BY <1>0, <2>9, AbsentIsContract DEF Prune, RecordsOK
      <3> QED BY <1>0, <2>9, <3>1, <3>2 DEF Prune, RecordsOK, ProcType
    <2>10. CASE Reply(p)
      <3>1. ProcType'  BY <1>0, <1>2, <2>10, ReturnEffect DEF Reply
      <3> QED BY <1>0, <2>0, <2>10, <3>1, EventOfType DEF Reply, RecordsOK, ProcType, stored
    <2>11. CASE Reserve(p)
      <3>1. TakeSlot(row) \in Contract  BY <1>0, SlotFields DEF RecordsOK
      <3>2. ProcType' /\ granted' \subseteq Opinions
        BY <1>0, <2>11, ReserveEffect DEF RecordsOK
      <3> QED BY <1>0, <2>11, <3>1, <3>2 DEF Reserve, RecordsOK, ProcType
    <2>12. CASE RefuseSlot(p) \/ Crash(p)
      <3>1. ProcType'  BY <1>0, <1>2, <2>12, ReturnEffect DEF RefuseSlot, Crash
      <3> QED BY <1>0, <2>12, <3>1 DEF RefuseSlot, Crash, RecordsOK, ProcType, stored
    <2>13. CASE WriteOpinion(p) \/ RemoveOpinion(p)
      <3>1. ProcType'
        BY <1>0, <1>2, <2>13, GotoEffect DEF WriteOpinion, RemoveOpinion
      <3>2. WriteOpinion(p) => proc[p].opn \in Opinions
        BY <1>0 DEF WellFormed, WellFormedAt, Holding, WriteOpinion, At
      <3> QED BY <1>0, <2>0, <2>13, <3>1, <3>2 DEF WriteOpinion, RemoveOpinion, RecordsOK, ProcType
    <2>14. CASE Release(p)
      <3>1. ReturnSlot(row) \in Contract  BY <1>0, SlotFields DEF RecordsOK
      <3>2. ProcType'  BY <1>0, <2>14, ReleaseEffect DEF RecordsOK
      <3> QED BY <1>0, <2>14, <3>1, <3>2 DEF Release, RecordsOK, ProcType
    <2>15. CASE Fail(p)
      <3>1. AfterFailure(p) \in Labels  BY <2>0 DEF AfterFailure
      <3>2. ProcType'
        BY <1>0, <1>2, <2>15, <3>1, GotoEffect, ReturnEffect DEF Fail
      <3> QED BY <1>0, <2>15, <3>2 DEF Fail, RecordsOK, ProcType, stored
    <2>16. CASE Emit(p)
      <3>1. ProcType'  BY <1>0, <1>2, <2>16, ReturnEffect DEF Emit
      <3>2. Submitted(proc[p].opn) \in EventIds
        BY <1>0, <2>16 DEF WellFormed, WellFormedAt, Holding, Emit, At, EventIds
      <3> QED BY <1>0, <2>16, <3>1, <3>2 DEF Emit, RecordsOK, ProcType
    <2> QED
      BY <1>2, <2>1, <2>2, <2>3, <2>4, <2>5, <2>6, <2>7, <2>8, <2>9, <2>10, <2>11, <2>12,
         <2>13, <2>14, <2>15, <2>16 DEF Step, Begin
  <1> QED BY <1>1, <1>2, BusySteps

LEMMA TypeStep == ASSUME TypeInv, NEW p \in Procs, Step(p) PROVE TypeOK'
  <1>1. RecordInv /\ timeline \subseteq EventIds /\ acked \subseteq EventIds  BY TypeInvParts
  <1>2. RecordsOK' /\ timeline' \subseteq EventIds /\ acked' \subseteq EventIds
    BY <1>1, RecordStep
  <1> QED BY <1>2 DEF TypeOK, RecordsOK

LEMMA WellFormedStep == ASSUME RecordInv, NEW p \in Procs, Step(p) PROVE WellFormed'
  <1>0. ProcType /\ RecordsOK /\ WellFormedAt(p)  BY DEF RecordInv, RecordsOK, ProcType, WellFormed
  <1>1. Others(p) /\ WellFormedAt(p)'
    <2>1. CASE Begin(p)
      BY <1>0, <2>1 DEF Begin, Others, ProcType, WellFormedAt, Holding
    <2>2. CASE ~At(p, "idle")
      <3>0. proc[p] \in Process  BY <1>0, <2>2, BusyProcess
      <3>1. CASE \/ LoadMirror(p) \/ LoadRow(p) \/ Plan(p)
        BY <1>0, <3>0, <3>1
        DEF LoadRow, LoadMirror, Plan, GotoWith, Return, OnMirror, Resting, At,
            Others, ProcType, WellFormedAt, Holding, Process
      <3>2. CASE \/ Reconcile(p) \/ Recognise(p) \/ Admit(p) \/ Conclude(p) \/ Ensure(p)
                 \/ Reply(p) \/ RefuseSlot(p) \/ Crash(p) \/ Emit(p)
        BY <1>0, <3>0, <3>2
        DEF Reconcile, Recognise, Admit, Conclude, Ensure, Reply, RefuseSlot, Crash, Emit,
            Goto, Return, Resting, At, Others, ProcType, WellFormedAt, Holding, Process
      <3>3. CASE Copy(p) \/ Prune(p)
        BY <1>0, <3>0, <3>3
        DEF Copy, Prune, Goto, Return, Resting, At, Others, ProcType, WellFormedAt, Holding,
            Process
      <3>4. CASE Reserve(p) \/ Release(p) \/ Apply(p)
        BY <1>0, <3>4, ReserveEffect, ReleaseEffect, ApplyEffect
        DEF RecordsOK, WellFormedAt, Holding
      <3>5. CASE WriteOpinion(p) \/ RemoveOpinion(p)
        BY <1>0, <3>0, <3>5
        DEF WriteOpinion, RemoveOpinion, Goto, At, Others, ProcType, WellFormedAt, Holding,
            Process
      <3>6. CASE Fail(p)
        BY <1>0, <3>0, <3>6
        DEF Fail, AfterFailure, Goto, Return, Resting, At, Others, ProcType, WellFormedAt,
            Holding, Process
      <3> QED BY <2>2, <3>1, <3>2, <3>3, <3>4, <3>5, <3>6 DEF Step, Begin
    <2> QED BY <2>1, <2>2, BusySteps
  <1>2. \A q \in Procs \ {p} : WellFormedAt(q)'
    BY <1>1 DEF Others, RecordInv, WellFormed, WellFormedAt, Holding
  <1> QED BY <1>1, <1>2 DEF WellFormed

\* The service's variables keep their types whatever its processes do.
THEOREM TypeCorrect == Spec => []TypeOK
  <1>1. Init => TypeInv  BY TypeInit
  <1>2. TypeInv /\ [Next]_vars => TypeInv'
    <2>1. ASSUME TypeInv, NEW p \in Procs, Step(p) PROVE TypeInv'
      BY <2>1, TypeStep, WellFormedStep, TypeInvParts DEF TypeInv
    <2>2. ASSUME TypeInv, UNCHANGED vars PROVE TypeInv'
      BY <2>2 DEF vars, TypeInv, TypeOK, WellFormed, WellFormedAt, Holding
    <2> QED BY <2>1, <2>2 DEF Next
  <1>3. TypeInv => TypeOK  BY DEF TypeInv
  <1> QED BY <1>1, <1>2, <1>3, PTL DEF Spec

-------------------------------------------------------------------------------
(***************************************************************************)
(* The verdict.  Every copy of the contract that goes round (the row, the  *)
(* mirror's files, what processes loaded) is safe: a verdict it shows is   *)
(* on the timeline and the row has one too; and a live copy is as Create   *)
(* left it but for its counter, so that no live copy is ever fresher.  The *)
(* one exception is the contract a process is about to commit, whose       *)
(* verdict is the one its request asked for.                               *)
(***************************************************************************)

SafeIn(c, r, log) ==
    /\ ~IsTerminal(c.state) => c.at = 0 /\ c.evidence = {}
    /\ c.state = "done" => Completed(c.evidence) \in log
    /\ c.state = "blocked" => Blocked(c.reason) \in log
    /\ IsTerminal(c.state) => IsTerminal(r.state)

CopySafe(p) ==
    /\ proc[p].pc \notin {"idle", "apply"} => SafeIn(proc[p].con, row, timeline)
    /\ proc[p].pc = "reconcile" => IsTerminal(proc[p].con.state)
    /\ proc[p].pc = "apply" =>
         /\ IsTerminal(proc[p].con.state)
         /\ proc[p].con.state = "done" => EventOf(proc[p].req) = Completed(proc[p].con.evidence)
         /\ proc[p].con.state = "blocked" => EventOf(proc[p].req) = Blocked(proc[p].con.reason)

Recorded(p) ==
    \/ proc[p].pc = "reply"
    \/ proc[p].pc \in {"copy", "prune"} /\ proc[p].ret = "reply"

VerdictInv ==
    /\ SafeIn(row, row, timeline)
    /\ \A b \in Buckets : SafeIn(mirror[b], row, timeline)
    /\ \A p \in Procs : CopySafe(p)
    /\ \A p \in Procs : Recorded(p) => EventOf(proc[p].req) \in timeline
    /\ acked \subseteq timeline

LEMMA SafeGrows ==
    ASSUME NEW c, NEW r, NEW r2, NEW log, NEW log2, SafeIn(c, r, log),
           log \subseteq log2, IsTerminal(r.state) => IsTerminal(r2.state)
    PROVE  SafeIn(c, r2, log2)
  BY DEF SafeIn

LEMMA SafeSlot ==
    ASSUME NEW c \in Contract, NEW r, NEW log, SafeIn(c, r, log)
    PROVE  SafeIn(TakeSlot(c), r, log) /\ SafeIn(ReturnSlot(c), r, log)
  BY SlotFields DEF SafeIn

LEMMA SafeAbsent == \A r, log : SafeIn(Absent, r, log) /\ SafeIn(Started, r, log)
  BY DEF SafeIn, Absent, Started, IsTerminal

\* A copy the mirror is preferred for shows a verdict.
LEMMA PreferredIsTerminal ==
    ASSUME NEW db \in Contract, NEW fs \in Contract, NEW r, NEW log,
           SafeIn(fs, r, log), PreferMirror(db, fs)
    PROVE  IsTerminal(fs.state)
  <1>1. ASSUME ~IsTerminal(fs.state) PROVE FALSE
    <2>1. fs.at = 0 /\ fs.at > db.at  BY <1>1 DEF SafeIn, PreferMirror
    <2>2. db.at \in Nat  BY DEF Contract
    <2> QED BY <2>1, <2>2
  <1> QED BY <1>1

LEMMA VerdictInit == Init => VerdictInv
  BY SafeAbsent
  DEF Init, VerdictInv, CopySafe, Recorded, Resting

\* No step takes a verdict back or an event off the timeline.
LEMMA RowStep ==
    ASSUME RecordInv, VerdictInv, NEW p \in Procs, Step(p)
    PROVE  /\ timeline \subseteq timeline'
           /\ IsTerminal(row.state) => IsTerminal(row'.state)
           /\ SafeIn(row', row', timeline')
  <1>0. row \in Contract /\ CopySafe(p) /\ SafeIn(row, row, timeline)
    BY DEF RecordInv, RecordsOK, VerdictInv
  <1>1. CASE Reconcile(p)
    BY <1>0, <1>1 DEF Reconcile, CopySafe, SafeIn, At
  <1>2. CASE Apply(p)
    BY <1>0, <1>2 DEF Apply, CopySafe, SafeIn, At, IsTerminal
  <1>3. CASE Reserve(p)
    <2>1. row' = TakeSlot(row) /\ timeline' = timeline  BY <1>3 DEF Reserve
    <2> QED BY <1>0, <2>1, SlotFields DEF SafeIn
  <1>4. CASE Release(p)
    <2>1. row' = ReturnSlot(row) /\ timeline' = timeline  BY <1>4 DEF Release
    <2> QED BY <1>0, <2>1, SlotFields DEF SafeIn
  <1>5. CASE Ensure(p) \/ Emit(p)
    <2>1. row' = row /\ timeline \subseteq timeline'  BY <1>5 DEF Ensure, Emit
    <2> QED BY <1>0, <2>1, SafeGrows
  <1>6. CASE row' = row /\ timeline' = timeline
    BY <1>0, <1>6
  <1> QED
    BY <1>1, <1>2, <1>3, <1>4, <1>5, <1>6
    DEF Step, Begin, LoadRow, LoadMirror, Recognise, Plan, Admit, Conclude, Copy, Prune, Reply,
        RefuseSlot, WriteOpinion, RemoveOpinion, Fail, Crash, stored

LEMMA MirrorStep ==
    ASSUME RecordInv, VerdictInv, NEW p \in Procs, Step(p)
    PROVE  \A b \in Buckets : SafeIn(mirror'[b], row', timeline')
  <1>0. CopySafe(p) /\ mirror \in [Buckets -> Contract]
    BY DEF RecordInv, RecordsOK, VerdictInv
  <1>1. \A c : SafeIn(c, row, timeline) => SafeIn(c, row', timeline')
    BY RowStep, SafeGrows
  <1>2. CASE Copy(p)
    BY <1>0, <1>1, <1>2 DEF Copy, CopySafe, VerdictInv, At
  <1>3. CASE Prune(p)
    BY <1>0, <1>1, <1>3, SafeAbsent DEF Prune, VerdictInv
  <1>4. CASE mirror' = mirror
    BY <1>1, <1>4 DEF VerdictInv
  <1> QED
    BY <1>2, <1>3, <1>4
    DEF Step, Begin, LoadRow, LoadMirror, Reconcile, Recognise, Plan, Admit, Conclude, Ensure,
        Apply, Reply, Reserve, Release, RefuseSlot, WriteOpinion, Emit, RemoveOpinion, Fail,
        Crash, stored

\* What the process that moves holds afterwards.
LEMMA CopyStep ==
    ASSUME RecordInv, VerdictInv, NEW p \in Procs, Step(p)
    PROVE  /\ Others(p) /\ CopySafe(p)'
           /\ (Recorded(p) => EventOf(proc[p].req) \in timeline)'
  <1>0. /\ ProcType /\ RecordsOK /\ row \in Contract /\ mirror \in [Buckets -> Contract]
        /\ CopySafe(p) /\ SafeIn(row, row, timeline) /\ WellFormedAt(p)
        /\ (Recorded(p) => EventOf(proc[p].req) \in timeline)
    BY DEF RecordInv, RecordsOK, ProcType, VerdictInv, WellFormed
  <1>1. \A c : SafeIn(c, row, timeline) => SafeIn(c, row', timeline')
    BY RowStep, SafeGrows
  <1>2. timeline \subseteq timeline' /\ SafeIn(row', row', timeline')
    BY RowStep
  <1> USE DEF Labels
  <1>3. CASE Begin(p)
    <2>1. /\ Others(p) /\ proc'[p].pc = "row" /\ proc'[p].con = Absent
      BY <1>0, <1>3 DEF Begin, Others, ProcType
    <2> QED BY <2>1, SafeAbsent DEF CopySafe, Recorded
  <1>4. CASE ~At(p, "idle")
    <2>0. proc[p] \in Process /\ proc[p].con \in Contract /\ proc[p].req \in Request
      BY <1>0, <1>4, BusyProcess, ServiceAssumption DEF Process
    <2>1. CASE LoadRow(p)
      <3>1. /\ Others(p) /\ proc'[p].pc = "mirror" /\ proc'[p].con \in {row, Absent}
        BY <1>0, <1>4, <2>1, GotoWithEffect, AbsentIsContract DEF LoadRow
      <3> QED BY <1>0, <1>1, <3>1, SafeAbsent DEF CopySafe, Recorded
    <2>2. CASE LoadMirror(p)
      <3> DEFINE r == proc[p].req  db == proc[p].con
                 mine == IF r.kind = "list" THEN mirror[r.bucket] ELSE FirstCopy
      <3>1. mine \in Contract /\ SafeIn(mine, row, timeline) /\ SafeIn(db, row, timeline)
        BY <1>0, <2>0, <2>2, FirstCopyType
        DEF Request, LoadMirror, At, CopySafe, VerdictInv
      <3>2. PICK fs \in {mine, Absent} :
              \/ Return(p)
              \/ GotoWith(p, "decide", fs)
              \/ PreferMirror(db, fs) /\ GotoWith(p, OnMirror(r), fs)
              \/ GotoWith(p, "decide", db)
        BY <2>2 DEF LoadMirror
      <3>3. SafeIn(fs, row, timeline) /\ fs \in Contract
        BY <3>1, <3>2, SafeAbsent, AbsentIsContract
      <3> HIDE DEF r, db, mine
      <3>4. CASE Return(p)
        BY <1>0, <3>4, ReturnEffect DEF CopySafe, Recorded
      <3>5. CASE GotoWith(p, "decide", fs) \/ GotoWith(p, "decide", db)
        <4>1. /\ Others(p) /\ proc'[p].pc = "decide" /\ proc'[p].con \in {fs, db}
          BY <1>0, <1>4, <2>0, <3>3, <3>5, GotoWithEffect DEF db
        <4> QED BY <1>1, <3>1, <3>3, <4>1 DEF CopySafe, Recorded
      <3>6. CASE PreferMirror(db, fs) /\ GotoWith(p, OnMirror(r), fs)
        <4>1. /\ Others(p) /\ proc'[p].pc \in {"decide", "reconcile"} /\ proc'[p].con = fs
          BY <1>0, <1>4, <3>3, <3>6, GotoWithEffect DEF OnMirror
        <4>2. IsTerminal(fs.state)
          BY <2>0, <3>3, <3>6, PreferredIsTerminal DEF db
        <4> QED BY <1>1, <3>3, <4>1, <4>2 DEF CopySafe, Recorded
      <3> QED BY <3>2, <3>4, <3>5, <3>6
    <2>3. CASE Reconcile(p)
      <3>1. Others(p) /\ proc'[p].pc = "decide" /\ proc'[p].con = row'
        BY <1>0, <1>4, <2>3, GotoEffect DEF Reconcile
      <3> QED BY <1>2, <3>1 DEF CopySafe, Recorded
    <2>4. CASE Recognise(p) \/ Admit(p)
      <3>1. Others(p) /\ proc'[p].pc \in {"ensure", "reserve"} /\ proc'[p].con = proc[p].con
        BY <1>0, <1>4, <2>4, GotoEffect DEF Recognise, Admit
      <3> QED BY <1>0, <1>1, <2>4, <3>1 DEF CopySafe, Recorded, Recognise, Admit, At
    <2>5. CASE Plan(p)
      <3>1. /\ Others(p) /\ proc'[p].pc = "apply" /\ proc'[p].con = Planned(p)
            /\ proc'[p].req = proc[p].req
        BY <1>0, <1>4, <2>0, <2>5, GotoWithEffect, PlannedType DEF Plan
      <3>2. SafeIn(proc[p].con, row, timeline) /\ MayApply(p)
        BY <1>0, <2>5 DEF Plan, CopySafe, At
      <3>3. CASE proc[p].req.kind = "complete"
        <4>1. proc[p].con.evidence = {}
          BY <3>2, <3>3 DEF MayApply, MayComplete, SafeIn
        <4>2. Planned(p).state = "done" /\ Planned(p).evidence = proc[p].req.evidence
          BY <1>0, <2>0, <3>3, <4>1, PlannedType
        <4> QED BY <3>1, <3>3, <4>2 DEF CopySafe, Recorded, EventOf, IsTerminal
      <3>4. CASE proc[p].req.kind # "complete"
        <4>1. Planned(p).state = "blocked" /\ Planned(p).reason = proc[p].req.reason
          BY <1>0, <2>0, <3>4, PlannedType
        <4> QED BY <3>1, <3>4, <4>1 DEF CopySafe, Recorded, EventOf, IsTerminal
      <3> QED BY <3>3, <3>4
    <2>6. CASE Apply(p)
      <3>1. Others(p) /\ proc'[p].pc = "copy" /\ proc'[p].con = row'
        BY <1>0, <2>6, ApplyEffect DEF Apply
      <3>2. EventOf(proc[p].req) \in timeline'  BY <2>6 DEF Apply
      <3>3. proc'[p].req = proc[p].req  BY <1>0, <2>6, ApplyEffect
      <3> QED BY <1>2, <3>1, <3>2, <3>3 DEF CopySafe, Recorded
    <2>7. CASE Copy(p)
      <3>1. /\ Others(p) /\ proc'[p].pc = "prune" /\ proc'[p].con = proc[p].con
            /\ proc'[p].req = proc[p].req /\ proc'[p].ret = proc[p].ret
        BY <1>0, <1>4, <2>7, GotoEffect DEF Copy
      <3> QED BY <1>0, <1>1, <1>2, <2>7, <3>1 DEF CopySafe, Recorded, Copy, At
    <2>8. CASE WriteOpinion(p) \/ RemoveOpinion(p)
      <3>1. /\ Others(p) /\ proc'[p].pc \in {"emit", "release"} /\ proc'[p].con = proc[p].con
        BY <1>0, <1>4, <2>8, GotoEffect DEF WriteOpinion, RemoveOpinion
      <3> QED BY <1>0, <1>1, <2>8, <3>1
          DEF CopySafe, Recorded, At, WriteOpinion, RemoveOpinion
    <2>9. CASE Prune(p)
      <3>1. CASE proc[p].ret = "idle"
        BY <1>0, <2>9, <3>1, ReturnEffect DEF Prune, CopySafe, Recorded
      <3>2. CASE proc[p].ret # "idle"
        <4>1. proc[p].ret \in {"reply", "opinion"} /\ Goto(p, proc[p].ret)
          BY <1>0, <2>9, <3>2 DEF Prune, At, WellFormedAt
        <4>2. /\ Others(p) /\ proc'[p].pc = proc[p].ret
              /\ proc'[p].con = proc[p].con /\ proc'[p].req = proc[p].req
          BY <1>0, <1>4, <4>1, GotoEffect
        <4>3. Recorded(p)' => Recorded(p)
          BY <2>9, <4>1, <4>2 DEF Recorded, Prune, At
        <4> QED BY <1>0, <1>1, <1>2, <2>9, <4>1, <4>2, <4>3 DEF CopySafe, Prune, At
      <3> QED BY <3>1, <3>2
    <2>10. CASE Reserve(p) \/ Release(p)
      <3>1. /\ Others(p) /\ proc'[p].pc = "copy" /\ proc'[p].con = row'
            /\ proc'[p].ret \in {"opinion", "idle"}
        BY <1>0, <2>10, ReserveEffect, ReleaseEffect DEF Reserve, Release
      <3> QED BY <1>2, <3>1 DEF CopySafe, Recorded
    <2>11. CASE Fail(p)
      <3>1. CASE AfterFailure(p) = "idle"
        BY <1>0, <2>11, <3>1, ReturnEffect DEF Fail, CopySafe, Recorded
      <3>2. CASE AfterFailure(p) # "idle"
        <4>1. /\ Goto(p, AfterFailure(p)) /\ proc[p].pc # "apply"
              /\ AfterFailure(p) \in {"decide", "reply", "opinion", "release", "remove"}
              /\ AfterFailure(p) = "reply" => Recorded(p)
          BY <1>0, <2>11, <3>2 DEF Fail, AfterFailure, At, WellFormedAt, Recorded
        <4>2. /\ Others(p) /\ proc'[p].pc = AfterFailure(p)
              /\ proc'[p].con = proc[p].con /\ proc'[p].req = proc[p].req
          BY <1>0, <1>4, <4>1, GotoEffect
        <4>3. Recorded(p)' => Recorded(p)
          BY <4>1, <4>2 DEF Recorded
        <4> QED BY <1>0, <1>1, <1>2, <1>4, <4>1, <4>2, <4>3 DEF CopySafe, At
      <3> QED BY <3>1, <3>2
    <2>12. CASE Return(p)
      BY <1>0, <2>12, ReturnEffect DEF CopySafe, Recorded
    <2> QED
      BY <1>4, <2>1, <2>2, <2>3, <2>4, <2>5, <2>6, <2>7, <2>8, <2>9, <2>10, <2>11, <2>12
      DEF Step, Begin, Conclude, Ensure, Reply, RefuseSlot, Emit, Crash
  <1> QED BY <1>3, <1>4, BusySteps

LEMMA VerdictStep ==
    ASSUME RecordInv, VerdictInv, NEW p \in Procs, Step(p)
    PROVE  VerdictInv'
  <1>1. \A c : SafeIn(c, row, timeline) => SafeIn(c, row', timeline')
    BY RowStep, SafeGrows
  <1>2. timeline \subseteq timeline'  BY RowStep
  <1>3. \A q \in Procs : CopySafe(q)' /\ (Recorded(q) => EventOf(proc[q].req) \in timeline)'
    <2>1. ASSUME NEW q \in Procs \ {p}
          PROVE  CopySafe(q)' /\ (Recorded(q) => EventOf(proc[q].req) \in timeline)'
      <3>1. proc'[q] = proc[q]  BY CopyStep DEF Others
      <3> QED BY <1>1, <1>2, <3>1 DEF VerdictInv, CopySafe, Recorded
    <2> QED BY <2>1, CopyStep
  <1>4. acked' \subseteq timeline'
    <2>1. CASE Ensure(p)  BY <1>2, <2>1 DEF Ensure, VerdictInv
    <2>2. CASE Reply(p)
      BY <1>2, <2>2 DEF Reply, VerdictInv, Recorded, At
    <2>3. CASE acked' = acked  BY <1>2, <2>3 DEF VerdictInv
    <2> QED
      BY <2>1, <2>2, <2>3
      DEF Step, Begin, LoadRow, LoadMirror, Reconcile, Recognise, Plan, Admit, Conclude, Apply,
          Copy, Prune, Reserve, Release, RefuseSlot, WriteOpinion, Emit, RemoveOpinion, Fail,
          Crash
  <1> QED BY RowStep, MirrorStep, <1>3, <1>4 DEF VerdictInv

\* Both invariants together are inductive.
LEMMA VerdictInductive ==
    /\ Init => TypeInv /\ VerdictInv
    /\ TypeInv /\ VerdictInv /\ [Next]_vars => TypeInv' /\ VerdictInv'
  <1>1. ASSUME TypeInv, VerdictInv, NEW p \in Procs, Step(p) PROVE TypeInv' /\ VerdictInv'
    BY <1>1, TypeStep, WellFormedStep, VerdictStep, TypeInvParts DEF TypeInv
  <1>2. ASSUME TypeInv, VerdictInv, UNCHANGED vars PROVE TypeInv' /\ VerdictInv'
    BY <1>2
    DEF vars, TypeInv, TypeOK, WellFormed, WellFormedAt, Holding, VerdictInv, CopySafe, Recorded
  <1> QED BY <1>1, <1>2, TypeInit, VerdictInit DEF Next

\* The row never shows a verdict whose event is missing from the timeline.
THEOREM VerdictOnTimeline == Spec => []TimelineMatchesRow
  <1>1. VerdictInv => TimelineMatchesRow
    BY DEF VerdictInv, SafeIn, TimelineMatchesRow, OnTimeline
  <1> QED BY <1>1, VerdictInductive, PTL DEF Spec

\* The mirror never shows a verdict the row does not have.
THEOREM MirrorFollows == Spec => []MirrorNeverAhead
  <1>1. VerdictInv => MirrorNeverAhead
    BY DEF VerdictInv, SafeIn, MirrorNeverAhead
  <1> QED BY <1>1, VerdictInductive, PTL DEF Spec

\* What a caller was told has happened is on the timeline.
THEOREM AcknowledgedIsRecorded == Spec => []AckedOnTimeline
  <1>1. VerdictInv => AckedOnTimeline  BY DEF VerdictInv, AckedOnTimeline
  <1> QED BY <1>1, VerdictInductive, PTL DEF Spec

\* A finished task is never brought back to life by a stale copy.
THEOREM NoRevival == Spec => TerminalStaysTerminal
  <1>1. TypeInv /\ VerdictInv /\ [Next]_vars
          => [IsTerminal(row.state) => IsTerminal(row'.state)]_vars
    <2>1. ASSUME TypeInv, VerdictInv, NEW p \in Procs, Step(p)
          PROVE  IsTerminal(row.state) => IsTerminal(row'.state)
      BY <2>1, RowStep, TypeInvParts
    <2> QED BY <2>1 DEF Next
  <1> QED BY <1>1, VerdictInductive, PTL DEF Spec, TerminalStaysTerminal

-------------------------------------------------------------------------------
(***************************************************************************)
(* The consultation slots.  The counter of a live row is the number of     *)
(* slots granted, each of them held by one process at most, and a slot     *)
(* whose opinion reached the timeline is held by nobody: it can neither be *)
(* given back nor lose its file.                                           *)
(***************************************************************************)

HoldSafe(p) ==
    Holding(p) =>
        /\ proc[p].opn \in granted
        /\ Submitted(proc[p].opn) \notin timeline
        /\ proc[p].pc \in {"emit", "remove"} => proc[p].opn \in opinions

SlotInv ==
    /\ IsFiniteSet(granted) /\ Cardinality(granted) <= MaxConsultations
    /\ SlotsAccounted
    /\ SubmittedOpinions \subseteq granted \cap opinions
    /\ \A p \in Procs : HoldSafe(p)
    /\ \A p, q \in Procs : p # q /\ Holding(p) /\ Holding(q) => proc[p].opn # proc[q].opn

LEMMA SubmittedInjective == \A o, o2 : Submitted(o) = Submitted(o2) => o = o2
  BY DEF Submitted

LEMMA SlotInit == Init => SlotInv
  <1> SUFFICES ASSUME Init PROVE SlotInv
    OBVIOUS
  <1>1. granted = {} /\ IsFiniteSet(granted) /\ Cardinality(granted) = 0
    BY FS_EmptySet DEF Init
  <1>2. row.used = 0  BY DEF Init, Started, Absent
  <1>3. \A p \in Procs : ~Holding(p)  BY DEF Init, Holding, Resting
  <1>4. SubmittedOpinions = {}  BY DEF Init, SubmittedOpinions
  <1> QED BY <1>1, <1>2, <1>3, <1>4, ContractAssumption DEF SlotInv, SlotsAccounted, HoldSafe

\* Only Reserve gives a process an opinion id to hold, and a process that
\* releases or announces its opinion holds it no longer.
LEMMA HoldStep ==
    ASSUME TypeInv, NEW p \in Procs, Step(p), ~Reserve(p)
    PROVE  /\ Others(p)
           /\ Holding(p)' =>
                /\ Holding(p) /\ ~Release(p) /\ ~Emit(p)
                /\ proc'[p].opn = proc[p].opn
                /\ proc'[p].pc \in {"emit", "remove"} => WriteOpinion(p) \/ proc[p].pc = "emit"
  <1>0. ProcType /\ TypeOK /\ row \in Contract  BY DEF TypeInv, TypeOK, ProcType
  <1>1. CASE Begin(p)
    BY <1>0, <1>1 DEF Begin, Others, ProcType, Holding
  <1>2. CASE ~At(p, "idle")
    <2>0. proc[p] \in Process  BY <1>0, <1>2, BusyProcess
    <2>1. CASE Return(p)
      BY <1>0, <2>1, ReturnEffect DEF Holding
    <2>2. CASE LoadMirror(p) \/ LoadRow(p) \/ Plan(p)
      <3>1. \/ Return(p)
            \/ \E label \in {"mirror", "decide", "reconcile", "apply"} : \E c : GotoWith(p, label, c)
        BY <2>2 DEF LoadRow, LoadMirror, Plan, OnMirror
      <3> QED BY <1>0, <2>0, <2>1, <3>1 DEF GotoWith, Others, ProcType, Holding, Process
    <2>3. CASE Reconcile(p) \/ Recognise(p) \/ Admit(p)
      <3>1. \E label \in {"decide", "ensure", "reserve"} : Goto(p, label)
        BY <2>3 DEF Reconcile, Recognise, Admit
      <3> QED BY <1>0, <2>0, <3>1 DEF Goto, Others, ProcType, Holding, Process
    <2>4. CASE Apply(p)
      BY <1>0, <2>4, ApplyEffect DEF Holding
    <2>5. CASE Release(p)
      BY <1>0, <2>5, ReleaseEffect DEF Holding
    <2>6. CASE Copy(p) \/ WriteOpinion(p) \/ RemoveOpinion(p)
      BY <1>0, <2>0, <2>6
      DEF Copy, WriteOpinion, RemoveOpinion, Release, Emit, Goto, At, Others, ProcType, Holding,
          Process
    <2>7. CASE Prune(p)
      BY <1>0, <2>0, <2>7, ReturnEffect
      DEF Prune, Release, Emit, Goto, At, Others, ProcType, Holding, Process, TypeInv,
          WellFormed, WellFormedAt
    <2>8. CASE Fail(p)
      BY <1>0, <2>0, <2>8, ReturnEffect
      DEF Fail, AfterFailure, Release, Emit, Goto, At, Others, ProcType, Holding, Process, TypeInv,
          WellFormed, WellFormedAt
    <2> QED
      BY <1>2, <2>1, <2>2, <2>3, <2>4, <2>5, <2>6, <2>7, <2>8
      DEF Step, Begin, Conclude, Ensure, Reply, RefuseSlot, Emit, Crash
  <1> QED BY <1>1, <1>2, BusySteps

LEMMA SlotStep ==
    ASSUME TypeInv, VerdictInv, SlotInv, NEW p \in Procs, Step(p)
    PROVE  SlotInv'
  <1>0. /\ TypeOK /\ ProcType /\ row \in Contract /\ WellFormedAt(p)
        /\ IsFiniteSet(granted) /\ Cardinality(granted) \in Nat
        /\ Cardinality(granted) <= MaxConsultations /\ MaxConsultations \in Nat
    BY FS_CardinalityType, ContractAssumption
    DEF TypeInv, TypeOK, ProcType, WellFormed, SlotInv
  <1> DEFINE Distinct ==
        \A q, r \in Procs : q # r /\ Holding(q) /\ Holding(r) => proc[q].opn # proc[r].opn
  <1>1. CASE Reserve(p)
    <2>1. PICK o \in Opinions \ (granted \cup opinions) :
            /\ granted' = granted \cup {o} /\ Others(p)
            /\ proc'[p].pc = "copy" /\ proc'[p].opn = o /\ proc'[p].ret = "opinion"
      BY <1>0, <1>1, ReserveEffect
    <2>2. /\ row' = TakeSlot(row) /\ Exists(row) /\ SlotFree(row)
          /\ UNCHANGED <<timeline, opinions>>
      BY <1>1 DEF Reserve
    <2>3. IsFiniteSet(granted') /\ Cardinality(granted') = Cardinality(granted) + 1
      BY <1>0, <2>1, FS_AddElement
    <2>4. row.used = Cardinality(granted) /\ row.used < MaxConsultations
      BY <2>2 DEF SlotInv, SlotsAccounted, SlotFree
    <2>5. Cardinality(granted') <= MaxConsultations /\ SlotsAccounted'
      BY <1>0, <2>2, <2>3, <2>4, SlotFields DEF SlotsAccounted
    <2>6. (SubmittedOpinions \subseteq granted \cap opinions)'
      BY <2>1, <2>2 DEF SlotInv, SubmittedOpinions
    <2>7. \A q \in Procs : HoldSafe(q)'
      BY <2>1, <2>2 DEF SlotInv, HoldSafe, Holding, Others, SubmittedOpinions
    <2>8. Distinct'
      BY <2>1 DEF SlotInv, HoldSafe, Holding, Others
    <2> QED BY <2>3, <2>5, <2>6, <2>7, <2>8 DEF SlotInv
  <1>2. CASE ~Reserve(p)
    <2>1. /\ Others(p)
          /\ \A q \in Procs : Holding(q)' => Holding(q) /\ proc'[q].opn = proc[q].opn
      BY <1>2, HoldStep DEF Others, Holding
    <2>2. Distinct'  BY <2>1 DEF SlotInv
    <2>3. CASE Release(p)
      <3>1. /\ row' = ReturnSlot(row) /\ granted' = granted \ {proc[p].opn}
            /\ Holding(p) /\ ~Holding(p)' /\ UNCHANGED <<timeline, opinions>>
        BY <1>2, <2>3, HoldStep DEF Release, Holding, At
      <3>2. proc[p].opn \in granted /\ Submitted(proc[p].opn) \notin timeline
        BY <3>1 DEF SlotInv, HoldSafe
      <3>3. IsFiniteSet(granted') /\ Cardinality(granted') = Cardinality(granted) - 1
        BY <1>0, <3>1, <3>2, FS_RemoveElement
      <3>4. Cardinality(granted') \in Nat  BY <3>3, FS_CardinalityType
      <3>5. SlotsAccounted'
        BY <1>0, <2>3, <3>1, <3>3, <3>4, SlotFields DEF SlotInv, SlotsAccounted, Release
      <3>6. (SubmittedOpinions \subseteq granted \cap opinions)'
        BY <3>1, <3>2 DEF SlotInv, SubmittedOpinions
      <3>7. \A q \in Procs : HoldSafe(q)'
        BY <2>1, <3>1 DEF SlotInv, HoldSafe, Holding, Others
      <3> QED BY <1>0, <2>2, <3>3, <3>4, <3>5, <3>6, <3>7 DEF SlotInv
    <2>4. CASE Emit(p)
      <3>1. /\ timeline' = timeline \cup {Submitted(proc[p].opn)}
            /\ Holding(p) /\ ~Holding(p)' /\ UNCHANGED <<row, granted, opinions>>
        BY <1>2, <2>4, HoldStep DEF Emit, Holding, At
      <3>2. proc[p].opn \in granted \cap opinions
        BY <2>4, <3>1 DEF SlotInv, HoldSafe, Emit, At
      <3>3. (SubmittedOpinions \subseteq granted \cap opinions)'
        BY <3>1, <3>2, SubmittedInjective DEF SlotInv, SubmittedOpinions
      <3>4. \A q \in Procs : HoldSafe(q)'
        BY <2>1, <3>1, SubmittedInjective DEF SlotInv, HoldSafe, Holding, Others
      <3> QED BY <1>0, <2>2, <3>1, <3>3, <3>4 DEF SlotInv, SlotsAccounted
    <2>5. CASE WriteOpinion(p)
      <3>1. opinions' = opinions \cup {proc[p].opn} /\ UNCHANGED <<row, granted, timeline>>
        BY <2>5 DEF WriteOpinion
      <3>2. \A q \in Procs : HoldSafe(q)'
        BY <1>2, <2>1, <2>5, <3>1, HoldStep
        DEF SlotInv, HoldSafe, Holding, Others
      <3> QED BY <2>2, <3>1, <3>2 DEF SlotInv, SlotsAccounted, SubmittedOpinions
    <2>6. CASE RemoveOpinion(p)
      <3>1. /\ opinions' = opinions \ {proc[p].opn} /\ UNCHANGED <<row, granted, timeline>>
            /\ Holding(p) /\ proc'[p].pc = "release"
        BY <1>0, <2>6, GotoEffect DEF RemoveOpinion, Holding, At, Labels
      <3>2. Submitted(proc[p].opn) \notin timeline  BY <3>1 DEF SlotInv, HoldSafe
      <3>3. \A q \in Procs : HoldSafe(q)'
        BY <2>1, <3>1 DEF SlotInv, HoldSafe, Holding, Others
      <3> QED BY <2>2, <3>1, <3>2, <3>3 DEF SlotInv, SlotsAccounted, SubmittedOpinions
    <2>7. CASE ~Release(p) /\ ~Emit(p) /\ ~WriteOpinion(p) /\ ~RemoveOpinion(p)
      <3>1. /\ UNCHANGED <<granted, opinions>>
            /\ timeline' = timeline \/ timeline' = timeline \cup {EventOf(proc[p].req)}
            /\ timeline' # timeline => ~At(p, "idle")
        BY <1>2, <2>7
        DEF Step, Begin, LoadRow, LoadMirror, Reconcile, Recognise, Plan, Admit, Conclude, Ensure,
            Apply, Copy, Prune, Reply, RefuseSlot, Fail, Crash, At, stored
      <3>2. row' = row \/ IsTerminal(row'.state)
        <4>1. Reconcile(p) \/ Apply(p) => row' = proc[p].con /\ IsTerminal(proc[p].con.state)
          BY DEF VerdictInv, CopySafe, Reconcile, Apply, At
        <4> QED
          BY <1>2, <2>7, <4>1
          DEF Step, Begin, LoadRow, LoadMirror, Recognise, Plan, Admit, Conclude, Ensure,
              Copy, Prune, Reply, RefuseSlot, Fail, Crash, stored
      <3>3. \A o : Submitted(o) \in timeline' <=> Submitted(o) \in timeline
        <4>1. CASE timeline' = timeline  BY <4>1
        <4>2. CASE timeline' # timeline
          <5>1. proc[p].req \in Request
            BY <1>0, <3>1, <4>2, BusyProcess, ServiceAssumption DEF Process
          <5> QED BY <3>1, <4>2, <5>1, EventOfType
        <4> QED BY <4>1, <4>2
      <3>4. \A q \in Procs : HoldSafe(q)'
        BY <1>2, <2>1, <2>7, <3>1, <3>3, HoldStep DEF SlotInv, HoldSafe, Holding, Others
      <3>5. SlotsAccounted'  BY <3>1, <3>2 DEF SlotInv, SlotsAccounted
      <3> QED BY <2>2, <3>1, <3>3, <3>4, <3>5 DEF SlotInv, SubmittedOpinions
    <2> QED BY <2>3, <2>4, <2>5, <2>6, <2>7
  <1> QED BY <1>1, <1>2

LEMMA SlotInductive ==
    TypeInv /\ VerdictInv /\ SlotInv /\ [Next]_vars => SlotInv'
  <1>1. ASSUME SlotInv, UNCHANGED vars PROVE SlotInv'
    BY <1>1 DEF vars, SlotInv, SlotsAccounted, SubmittedOpinions, HoldSafe, Holding
  <1> QED BY <1>1, SlotStep DEF Next

\* No interleaving of reservations, failures and compensations announces more
\* consultations than the contract allows.
THEOREM LimitHolds == Spec => []ConsultationLimit
  <1>1. SlotInv => ConsultationLimit
    <2> SUFFICES ASSUME SlotInv PROVE Cardinality(SubmittedOpinions) <= MaxConsultations
      BY DEF ConsultationLimit
    <2>1. /\ SubmittedOpinions \in SUBSET granted /\ IsFiniteSet(granted)
          /\ Cardinality(granted) <= MaxConsultations
      BY DEF SlotInv
    <2>2. IsFiniteSet(SubmittedOpinions) /\ Cardinality(SubmittedOpinions) <= Cardinality(granted)
      BY <2>1, FS_Subset
    <2>3. Cardinality(SubmittedOpinions) \in Nat /\ Cardinality(granted) \in Nat
      BY <2>1, <2>2, FS_CardinalityType
    <2> QED BY <2>1, <2>2, <2>3, ContractAssumption
  <1> QED BY <1>1, SlotInit, SlotInductive, VerdictInductive, PTL DEF Spec

\* The counter of a live task is the number of slots taken and not given back.
THEOREM SlotsCounted == Spec => []SlotsAccounted
  <1>1. SlotInv => SlotsAccounted  BY DEF SlotInv
  <1> QED BY <1>1, SlotInit, SlotInductive, VerdictInductive, PTL DEF Spec

\* An announced opinion keeps its file.
THEOREM OpinionKept == Spec => []SubmittedOpinionOnDisk
  <1>1. SlotInv => SubmittedOpinionOnDisk  BY DEF SlotInv, SubmittedOpinionOnDisk
  <1> QED BY <1>1, SlotInit, SlotInductive, VerdictInductive, PTL DEF Spec

-------------------------------------------------------------------------------
(***************************************************************************)
(* One process at a time.  Its copy is the row's, unless the row is still  *)
(* missing; no mirror copy is later than the row, so nothing is ever put   *)
(* back; and what it is about to commit is a verdict the row may take.     *)
(***************************************************************************)

Decisive(p) ==
    /\ row.at <= proc[p].con.at /\ proc[p].con.at <= clock
    /\ \/ ~IsTerminal(row.state) /\ proc[p].con.state = "done" /\ proc[p].con.evidence # {}
       \/ row.state # "done" /\ proc[p].con.state = "blocked" /\ proc[p].con.reason # NoReason

LoneAt(p) ==
    /\ ~At(p, "reconcile")
    /\ At(p, "mirror") =>
         proc[p].con = row \/ (proc[p].req.kind = "list" /\ ~Exists(proc[p].con))
    /\ At(p, "decide") =>
         proc[p].con = row \/ (~Exists(row) /\ ~IsTerminal(proc[p].con.state))
    /\ At(p, "ensure") => EventOf(proc[p].req) \in timeline
    /\ At(p, "apply") => Decisive(p)
    /\ proc[p].pc \in {"copy", "prune"} => proc[p].con.at <= row.at

LoneInv ==
    /\ row.at <= clock
    /\ \A b \in Buckets : IsTerminal(mirror[b].state) => mirror[b].at <= row.at
    /\ \A p \in Procs : LoneAt(p)

\* The time stamps of what a handler plans.
LEMMA PlannedAt ==
    ASSUME TypeOK, NEW p \in Procs, proc[p] \in Process, MayApply(p)
    PROVE  /\ proc[p].req.kind = "complete" => Planned(p).at = clock + 1
           /\ proc[p].req.kind = "block" =>
                Planned(p).at = IF proc[p].con.state = "blocked" THEN proc[p].con.at
                                                                  ELSE clock + 1
  <1> DEFINE now == clock + 1  c == proc[p].con
  <1>1. c \in Contract /\ now \in Nat  BY DEF Process, TypeOK
  <1> HIDE DEF now, c
  <1>3. CASE proc[p].req.kind = "complete"
    <2>1. ~IsTerminal(c.state)  BY <1>3 DEF MayApply, MayComplete, c
    <2> DEFINE v == IF c.state = "executing" THEN Transition(c, "verifying", now) ELSE c
    <2>2. v \in Contract /\ v.state # "done"
      <3>1. CASE c.state = "executing"
        <4>1. v = [c EXCEPT !.state = "verifying", !.at = now]
          BY <3>1 DEF Transition
        <4> QED BY <1>1, <4>1 DEF Contract, States
      <3> QED BY <1>1, <2>1, <3>1 DEF IsTerminal
    <2> HIDE DEF v
    <2>3. Transition(v, "done", now) = [v EXCEPT !.state = "done", !.at = now]
      BY <2>2 DEF Transition
    <2>4. Planned(p) = [Transition(v, "done", now) EXCEPT !.evidence = @ \cup proc[p].req.evidence]
      BY <1>3 DEF Planned, Complete, v, c, now
    <2>5. Planned(p).at = now  BY <2>2, <2>3, <2>4 DEF Contract
    <2> QED BY <1>3, <2>5 DEF now
  <1>4. CASE proc[p].req.kind = "block"
    <2>1. Planned(p) = [Transition(c, "blocked", now) EXCEPT !.reason = proc[p].req.reason]
      BY <1>4 DEF Planned, Block, c, now
    <2>2. Planned(p).at = IF c.state = "blocked" THEN c.at ELSE now
      BY <1>1, <2>1 DEF Transition, Contract
    <2> QED BY <1>4, <2>2 DEF c, now
  <1> QED BY <1>3, <1>4

LEMMA LoneInit == Init => LoneInv
  BY DEF Init, LoneInv, LoneAt, At, Started, Absent, Resting, IsTerminal

\* What a single process holds after its step.
LEMMA LoneHolds ==
    ASSUME TypeInv, VerdictInv, LoneInv, NEW p \in Procs, Step(p)
    PROVE  LoneAt(p)'
  <1>0. /\ ProcType /\ TypeOK /\ row \in Contract /\ mirror \in [Buckets -> Contract]
        /\ clock \in Nat /\ row.at \in Nat
        /\ CopySafe(p) /\ SafeIn(row, row, timeline) /\ WellFormedAt(p) /\ LoneAt(p)
        /\ timeline \subseteq timeline'
    BY RowStep, TypeInvParts DEF TypeInv, TypeOK, ProcType, VerdictInv, WellFormed, LoneInv, Contract
  <1> USE DEF Labels
  <1>1. CASE Begin(p)
    <2>1. proc'[p].pc = "row"  BY <1>0, <1>1 DEF Begin, ProcType
    <2> QED BY <2>1 DEF LoneAt, At
  <1>2. CASE ~At(p, "idle")
    <2>0. proc[p] \in Process /\ proc[p].con \in Contract /\ proc[p].req \in Request
      BY <1>0, <1>2, BusyProcess, ServiceAssumption DEF Process
    <2>1. CASE Return(p)
      BY <1>0, <2>1, ReturnEffect DEF LoneAt, At
    <2>2. CASE LoadRow(p)
      <3> DEFINE seen == IF proc[p].req.kind = "list" /\ BucketOf(row.state) # proc[p].req.bucket
                           THEN Absent ELSE row
      <3>1. /\ proc'[p].pc = "mirror" /\ proc'[p].con = seen /\ proc'[p].req = proc[p].req
            /\ row' = row
        BY <1>0, <1>2, <2>2, GotoWithEffect, AbsentIsContract DEF LoadRow, stored
      <3>2. ~Exists(Absent)  BY DEF Exists, Absent
      <3> QED BY <3>1, <3>2 DEF LoneAt, At
    <2>3. CASE LoadMirror(p)
      <3> DEFINE r == proc[p].req  db == proc[p].con
                 mine == IF r.kind = "list" THEN mirror[r.bucket] ELSE FirstCopy
      <3>1. mine \in Contract /\ \E b \in Buckets : mine = mirror[b]
        BY <1>0, <2>0, FirstCopyType DEF Request
      <3>2. PICK fs \in {mine, Absent} :
              \/ Return(p)
              \/ /\ ~Exists(db) /\ r.kind # "list" /\ GotoWith(p, "decide", fs)
              \/ /\ Exists(db) /\ PreferMirror(db, fs) /\ GotoWith(p, OnMirror(r), fs)
              \/ /\ Exists(db) /\ GotoWith(p, "decide", db)
        BY <2>3 DEF LoadMirror
      <3>3. /\ UNCHANGED stored
            /\ db = row \/ (r.kind = "list" /\ ~Exists(db))
        BY <1>0, <2>3 DEF LoadMirror, LoneAt, At
      <3>4. /\ fs \in Contract /\ (IsTerminal(fs.state) => IsTerminal(row.state))
            /\ (IsTerminal(fs.state) => fs.at <= row.at)
            /\ (~IsTerminal(fs.state) => fs.at = 0)
        BY <3>1, <3>2, AbsentIsContract, SafeAbsent DEF VerdictInv, SafeIn, LoneInv
      <3> HIDE DEF mine
      <3>5. CASE ~Exists(db) /\ r.kind # "list" /\ GotoWith(p, "decide", fs)
        <4>1. proc'[p].pc = "decide" /\ proc'[p].con = fs
          BY <1>0, <1>2, <3>4, <3>5, GotoWithEffect
        <4>2. ~Exists(row) /\ ~IsTerminal(row.state)
          BY <3>3, <3>5 DEF Exists, IsTerminal
        <4> QED BY <3>3, <3>4, <4>1, <4>2 DEF LoneAt, At, stored
      <3>6. CASE Exists(db) /\ PreferMirror(db, fs)
        <4>1. ~(fs.at > row.at)  BY <1>0, <3>4 DEF Contract
        <4> QED BY <3>3, <3>4, <3>6, <4>1 DEF PreferMirror
      <3>7. CASE Exists(db) /\ GotoWith(p, "decide", db)
        <4>1. proc'[p].pc = "decide" /\ proc'[p].con = db
          BY <1>0, <1>2, <2>0, <3>7, GotoWithEffect
        <4> QED BY <3>3, <3>7, <4>1 DEF LoneAt, At, stored
      <3> QED BY <2>1, <3>2, <3>5, <3>6, <3>7
    <2>4. CASE Recognise(p)
      <3>1. /\ proc'[p].pc = "ensure" /\ proc'[p].req = proc[p].req
        BY <1>0, <1>2, <2>4, GotoEffect DEF Recognise
      <3>2. EventOf(proc[p].req) \in timeline
        BY <1>0, <2>4
        DEF Recognise, AlreadyDone, AlreadyCompleted, AlreadyBlocked, CopySafe, SafeIn, EventOf, At
      <3> QED BY <1>0, <3>1, <3>2 DEF LoneAt, At
    <2>5. CASE Admit(p) \/ WriteOpinion(p) \/ RemoveOpinion(p)
      <3>1. proc'[p].pc \in {"reserve", "emit", "release"}
        BY <1>0, <1>2, <2>5, GotoEffect DEF Admit, WriteOpinion, RemoveOpinion
      <3> QED BY <3>1 DEF LoneAt, At
    <2>6. CASE Plan(p)
      <3> DEFINE c == proc[p].con  r == proc[p].req  v == Planned(p)
      <3>1. /\ proc'[p].pc = "apply" /\ proc'[p].con = v /\ v \in Contract
            /\ clock' = clock + 1 /\ row' = row
        BY <1>0, <1>2, <2>0, <2>6, GotoWithEffect, PlannedType, TypeParts DEF Plan, stored
      <3>2. /\ MayApply(p) /\ (c = row \/ (~Exists(row) /\ ~IsTerminal(c.state)))
            /\ SafeIn(c, row, timeline)
        BY <1>0, <2>6 DEF Plan, LoneAt, CopySafe, At
      <3>3. row.at <= clock /\ (~Exists(row) => row.at = 0)
        BY <1>0 DEF LoneInv, SafeIn, Exists, IsTerminal
      <3>4. CASE r.kind = "complete"
        <4>1. /\ v.state = "done" /\ v.evidence = c.evidence \cup r.evidence /\ v.at = clock + 1
          BY <1>0, <2>0, <3>2, <3>4, PlannedType, TypeParts, PlannedAt
        <4>2. ~IsTerminal(c.state) /\ r.evidence # {}
          BY <3>2, <3>4 DEF MayApply, MayComplete
        <4>3. ~IsTerminal(row.state)
          BY <3>2, <4>2 DEF Exists, IsTerminal
        <4>4. Decisive(p)'
          BY <1>0, <3>1, <3>3, <4>1, <4>2, <4>3 DEF Decisive
        <4> QED BY <3>1, <4>4 DEF LoneAt, At
      <3>5. CASE r.kind = "block"
        <4>1. /\ v.state = "blocked" /\ v.reason = r.reason
              /\ v.at = IF c.state = "blocked" THEN c.at ELSE clock + 1
          BY <1>0, <2>0, <3>2, <3>5, PlannedType, TypeParts, PlannedAt
        <4>2. r.reason # NoReason /\ MayTransition(c, "blocked")
          BY <3>2, <3>5 DEF MayApply, MayBlock
        <4>3. c.state # "done"
          BY <4>2 DEF MayTransition, TransitionAllowed, Successors, States
        <4>4. row.state # "done" /\ (c.state = "blocked" => c = row)
          BY <3>2, <4>3 DEF Exists, IsTerminal
        <4>5. row.at <= v.at /\ v.at <= clock + 1
          BY <1>0, <3>3, <4>1, <4>4
        <4>6. Decisive(p)'
          BY <1>0, <3>1, <4>1, <4>2, <4>4, <4>5 DEF Decisive
        <4> QED BY <3>1, <4>6 DEF LoneAt, At
      <3> QED BY <3>2, <3>4, <3>5 DEF MayApply
    <2>7. CASE Apply(p) \/ Reserve(p) \/ Release(p)
      <3>1. proc'[p].pc = "copy" /\ proc'[p].con = row' /\ row' \in Contract
        BY <1>0, <2>0, <2>7, ApplyEffect, ReserveEffect, ReleaseEffect, SlotFields
        DEF Apply, Reserve, Release
      <3> QED BY <3>1 DEF LoneAt, At, Contract
    <2>8. CASE Copy(p)
      <3>1. /\ proc'[p].pc = "prune" /\ proc'[p].con = proc[p].con /\ row' = row
        BY <1>0, <1>2, <2>8, GotoEffect DEF Copy
      <3> QED BY <1>0, <2>8, <3>1 DEF LoneAt, Copy, At
    <2>9. CASE Prune(p) /\ ~Return(p)
      <3>1. proc[p].ret \in {"reply", "opinion"} /\ Goto(p, proc[p].ret)
        BY <1>0, <2>9 DEF Prune, At, WellFormedAt
      <3>2. proc'[p].pc = proc[p].ret
        BY <1>0, <1>2, <3>1, GotoEffect
      <3> QED BY <3>1, <3>2 DEF LoneAt, At
    <2>10. CASE Fail(p) /\ ~Return(p)
      <3>1. Goto(p, AfterFailure(p)) /\ AfterFailure(p) \in {"reply", "opinion", "release", "remove"}
        BY <1>0, <2>10 DEF Fail, AfterFailure, At, WellFormedAt, LoneAt
      <3>2. proc'[p].pc = AfterFailure(p)
        BY <1>0, <1>2, <3>1, GotoEffect
      <3> QED BY <3>1, <3>2 DEF LoneAt, At
    <2> QED
      BY <1>0, <1>2, <2>1, <2>2, <2>3, <2>4, <2>5, <2>6, <2>7, <2>8, <2>9, <2>10
      DEF Step, Begin, Conclude, Ensure, Reply, RefuseSlot, Emit, Crash, Prune, Fail, Reconcile,
          LoneAt
  <1> QED BY <1>1, <1>2, BusySteps

LEMMA LoneStep ==
    ASSUME TypeInv, VerdictInv, LoneInv, NEW p \in Procs, Procs = {p}, Step(p)
    PROVE  LoneInv'
  <1>0. /\ TypeOK /\ row \in Contract /\ mirror \in [Buckets -> Contract] /\ clock \in Nat
        /\ \A c \in Contract : c.at \in Nat
        /\ LoneAt(p) /\ proc \in [Procs -> Process \cup {Resting}]
    BY DEF TypeInv, TypeOK, LoneInv, Contract
  <1>1. row.at <= row'.at /\ row'.at <= clock'
    <2>1. CASE Apply(p)
      BY <1>0, <2>1 DEF Apply, LoneAt, Decisive
    <2>2. CASE Reserve(p) \/ Release(p)
      <3>1. row'.at = row.at /\ clock' = clock
        BY <1>0, <2>2, SlotFields DEF Reserve, Release
      <3> QED BY <1>0, <3>1 DEF LoneInv
    <2>3. CASE row' = row /\ clock' \in {clock, clock + 1}
      BY <1>0, <2>3 DEF LoneInv
    <2> QED
      BY <1>0, <2>1, <2>2, <2>3
      DEF Step, Begin, LoadRow, LoadMirror, Reconcile, Recognise, Plan, Admit, Conclude, Ensure,
          Copy, Prune, Reply, RefuseSlot, WriteOpinion, Emit, RemoveOpinion, Fail, Crash, stored,
          LoneAt
  <1>2. row' \in Contract /\ mirror' \in [Buckets -> Contract] /\ clock' \in Nat
    BY TypeStep DEF TypeOK
  <1>3. ASSUME NEW b \in Buckets, IsTerminal(mirror'[b].state) PROVE mirror'[b].at <= row'.at
    <2>1. CASE mirror'[b] = mirror[b]
      BY <1>0, <1>1, <1>2, <1>3, <2>1 DEF LoneInv
    <2>2. CASE mirror'[b] = Absent
      BY <1>3, <2>2, AbsentIsContract
    <2>3. CASE Copy(p)
      <3>1. mirror'[b] \in {mirror[b], proc[p].con} /\ row' = row /\ proc[p].con.at <= row.at
        BY <1>0, <2>3 DEF Copy, LoneAt, At
      <3> QED BY <2>1, <3>1
    <2> QED
      BY <1>0, <2>1, <2>2, <2>3
      DEF Step, Begin, LoadRow, LoadMirror, Reconcile, Recognise, Plan, Admit, Conclude, Ensure,
          Apply, Prune, Reply, Reserve, RefuseSlot, WriteOpinion, Emit, RemoveOpinion, Release,
          Fail, Crash, stored
  <1> QED BY <1>1, <1>3, LoneHolds DEF LoneInv

\* One step of a single process is one step of the ledger, or none.
LEMMA LedgerStep ==
    ASSUME TypeInv, VerdictInv, SlotInv, LoneInv, NEW p \in Procs, Step(p)
    PROVE  [Ledger!Next]_(Ledger!ledger)
  <1>0. /\ ProcType /\ TypeOK /\ row \in Contract /\ LoneAt(p) /\ CopySafe(p) /\ HoldSafe(p)
        /\ IsFiniteSet(granted) /\ Cardinality(granted) \in Nat
    BY FS_CardinalityType
    DEF TypeInv, TypeOK, ProcType, LoneInv, VerdictInv, SlotInv
  <1> SUFFICES Ledger!Next \/ UNCHANGED Ledger!ledger
    OBVIOUS
  <1>1. ~IsTerminal(row.state) => VerdictOf(row) = Ledger!Live
    BY DEF VerdictOf, IsTerminal, Ledger!Live
  <1>2. CASE Apply(p)
    <2>1. /\ Decisive(p) /\ row' = proc[p].con /\ UNCHANGED granted
          /\ timeline' = timeline \cup {EventOf(proc[p].req)} /\ proc[p] \in Process
      BY <1>0, <1>2, BusyProcess DEF Apply, LoneAt, At
    <2>2. /\ proc[p].con.evidence \in SUBSET Evidence
          /\ proc[p].con.reason \in Reasons \cup {NoReason}
      BY <2>1 DEF Process, Contract
    <2>3. CASE ~IsTerminal(row.state) /\ proc[p].con.state = "done" /\ proc[p].con.evidence # {}
      <3>1. /\ VerdictOf(row') = Completed(proc[p].con.evidence)
            /\ timeline' = timeline \cup {Completed(proc[p].con.evidence)}
        BY <1>0, <1>2, <2>1, <2>3 DEF VerdictOf, CopySafe, Apply, At
      <3>2. Ledger!Finish(proc[p].con.evidence)
        BY <1>1, <2>1, <2>3, <3>1 DEF Ledger!Finish, Ledger!Decide, Ledger!Completed, Completed
      <3>3. proc[p].con.evidence \in (SUBSET Evidence) \ {{}}  BY <2>2, <2>3
      <3>4. \E e \in (SUBSET Evidence) \ {{}} : Ledger!Finish(e)  BY <3>2, <3>3, Zenon
      <3> QED BY <3>4 DEF Ledger!Next
    <2>4. CASE row.state # "done" /\ proc[p].con.state = "blocked" /\ proc[p].con.reason # NoReason
      <3>1. /\ VerdictOf(row') = Blocked(proc[p].con.reason)
            /\ timeline' = timeline \cup {Blocked(proc[p].con.reason)}
        BY <1>0, <1>2, <2>1, <2>4 DEF VerdictOf, CopySafe, Apply, At
      <3>2. Ledger!Decide(Ledger!Blocked(proc[p].con.reason))
        BY <2>1, <3>1 DEF Ledger!Decide, Ledger!Blocked, Blocked
      <3>3. CASE row.state = "blocked"
        <4>1. VerdictOf(row).kind = "task.blocked"
          BY <3>3 DEF VerdictOf, Blocked
        <4> QED BY <2>2, <2>4, <3>2, <4>1 DEF Ledger!Amend, Ledger!Next
      <3>4. CASE row.state # "blocked"
        <4>1. VerdictOf(row) = Ledger!Live  BY <1>1, <2>4, <3>4 DEF IsTerminal
        <4> QED BY <2>2, <2>4, <3>2, <4>1 DEF Ledger!Obstruct, Ledger!Next
      <3> QED BY <3>3, <3>4
    <2> QED BY <2>1, <2>3, <2>4 DEF Decisive
  <1>3. CASE Reserve(p)
    <2>1. PICK o \in Opinions \ (granted \cup opinions) : granted' = granted \cup {o}
      BY <1>0, <1>3, ReserveEffect
    <2>2. /\ row' = TakeSlot(row) /\ SlotFree(row) /\ Exists(row) /\ UNCHANGED timeline
      BY <1>3 DEF Reserve
    <2>3. VerdictOf(row') = VerdictOf(row) /\ VerdictOf(row) = Ledger!Live
      BY <1>0, <1>1, <2>2, SlotFields DEF VerdictOf, SlotFree
    <2>4. Cardinality(granted) < MaxConsultations
      BY <2>2 DEF SlotInv, SlotsAccounted, SlotFree
    <2>5. Ledger!TakeSlot(o)
      <3>1. o \notin granted /\ UNCHANGED <<VerdictOf(row), timeline>>  BY <2>1, <2>2, <2>3
      <3>2. Ledger!Cardinality(granted) = Cardinality(granted)
        BY Zenon DEF Ledger!Cardinality, Cardinality
      <3> QED BY <2>1, <2>3, <2>4, <3>1, <3>2 DEF Ledger!TakeSlot
    <2> QED BY <2>1, <2>5 DEF Ledger!Next
  <1>4. CASE Release(p)
    <2>1. /\ row' = ReturnSlot(row) /\ granted' = granted \ {proc[p].opn} /\ UNCHANGED timeline
          /\ proc[p].opn \in granted /\ Submitted(proc[p].opn) \notin timeline
      BY <1>0, <1>4 DEF Release, HoldSafe, Holding, At
    <2>2. VerdictOf(row') = VerdictOf(row)
      BY <1>0, <2>1, SlotFields DEF VerdictOf
    <2>3. Ledger!ReturnSlot(proc[p].opn)
      BY <2>1, <2>2 DEF Ledger!ReturnSlot, Ledger!Submitted, Submitted
    <2> QED BY <1>0, <2>1, <2>3 DEF Ledger!Next, TypeOK
  <1>5. CASE Emit(p)
    <2>1. /\ timeline' = timeline \cup {Submitted(proc[p].opn)} /\ UNCHANGED <<row, granted>>
          /\ proc[p].opn \in granted
      BY <1>0, <1>5 DEF Emit, HoldSafe, Holding, At
    <2>2. Ledger!Submit(proc[p].opn)
      BY <2>1 DEF Ledger!Submit, Ledger!Submitted, Submitted
    <2> QED BY <1>0, <2>1, <2>2 DEF Ledger!Next, TypeOK
  <1>6. CASE Ensure(p)
    BY <1>0, <1>6 DEF Ensure, LoneAt, At, Ledger!ledger
  <1>7. CASE UNCHANGED <<row, granted, timeline>>
    BY <1>7 DEF Ledger!ledger
  <1> QED
    BY <1>0, <1>2, <1>3, <1>4, <1>5, <1>6, <1>7
    DEF Step, Begin, LoadRow, LoadMirror, Reconcile, Recognise, Plan, Admit, Conclude, Copy,
        Prune, Reply, RefuseSlot, WriteOpinion, RemoveOpinion, Fail, Crash, stored, LoneAt

\* The whole service, with its two copies of the contract, its failures, retries
\* and compensations, is the atomic ledger of TaskLedger, as long as one process
\* works at a time.
THEOREM OneProcessIsLedger ==
    ASSUME NEW worker, Procs = {worker}
    PROVE  Spec => ImplementsLedger
  <1>1. Init => Ledger!Init
    BY DEF Init, Ledger!Init, VerdictOf, Ledger!Live, Started, Absent
  <1>2. TypeInv /\ VerdictInv /\ SlotInv /\ LoneInv /\ [Next]_vars
          => LoneInv' /\ [Ledger!Next]_(Ledger!ledger)
    <2>1. ASSUME TypeInv, VerdictInv, SlotInv, LoneInv, NEW p \in Procs, Step(p)
          PROVE  LoneInv' /\ [Ledger!Next]_(Ledger!ledger)
      BY <2>1, LoneStep, LedgerStep
    <2>2. ASSUME LoneInv, UNCHANGED vars
          PROVE  LoneInv' /\ [Ledger!Next]_(Ledger!ledger)
      BY <2>2 DEF vars, LoneInv, LoneAt, Decisive, At, Ledger!ledger
    <2> QED BY <2>1, <2>2 DEF Next
  <1> QED
    BY <1>1, <1>2, LoneInit, SlotInit, SlotInductive, VerdictInductive, PTL
    DEF Spec, ImplementsLedger, Ledger!Spec

-------------------------------------------------------------------------------
(***************************************************************************)
(* The Go service next to PowerShell.  What the two leave each other: no   *)
(* copy that is still live has a later history than the contract Create    *)
(* wrote, so a reader only ever puts a verdict back.                       *)
(***************************************************************************)

Invocation ==
    [pc: {"find", "validate", "opinion", "remove", "write"}, req: ShellRequests,
     con: Contract, from: Buckets]

ShellType == shell \in [Shells -> Invocation \cup {Resting}]

OtherShells(q) == \A s \in Shells \ {q} : shell'[s] = shell[s]

LEMMA BusyShell ==
    ASSUME ShellType, NEW q \in Shells, ~ShellAt(q, "idle")
    PROVE  shell[q] \in Invocation
  BY DEF ShellType, ShellAt, Resting, Invocation

\* The contract PowerShell saves carries a verdict and is well typed.
LEMMA PsVerdictType ==
    ASSUME NEW r \in ShellRequest, NEW c \in Contract, clock \in Nat
    PROVE  PsVerdictOf(r, c) \in Contract /\ IsTerminal(PsVerdictOf(r, c).state)
  <1> DEFINE now == clock + 1  ev == r.evidence  why == r.reason
  <1>1. now \in Nat /\ ev \in SUBSET Evidence /\ why \in Reasons \cup {NoReason}
    BY DEF ShellRequest
  <1> HIDE DEF now, ev, why
  <1>2. /\ Complete(c, ev, now) \in Contract /\ Block(c, why, now) \in Contract
        /\ Complete(c, ev, now).state = "done"
        /\ Complete(c, ev, now).evidence = c.evidence \cup ev
        /\ Block(c, why, now).state = "blocked" /\ Block(c, why, now).reason = why
    BY <1>1, ContractOps
  <1>3. CASE r.kind = "complete"
    BY <1>2, <1>3 DEF PsVerdictOf, IsTerminal, now, ev
  <1>4. CASE r.kind # "complete"
    <2>1. PsVerdictOf(r, c) = Block(c, why, now)
      BY <1>4, Zenon DEF PsVerdictOf, Block, now, why
    <2> QED BY <1>2, <2>1 DEF IsTerminal
  <1> QED BY <1>3, <1>4

\* What an invocation does to its own record, and that it leaves the service's
\* processes, the row and the timeline alone.
LEMMA ShellStep ==
    ASSUME TypeOK, ShellType, NEW q \in Shells, PsStep(q)
    PROVE  /\ ShellType' /\ OtherShells(q)
           /\ UNCHANGED <<row, timeline, proc, requested, granted, acked>>
           /\ clock' \in {clock, clock + 1} /\ opinions' \subseteq Opinions
           /\ shells' \in {shells, shells + 1}
           /\ mirror' \in [Buckets -> Contract]
           /\ \A b \in Buckets : \/ mirror'[b] \in {mirror[b], Absent}
                                 \/ ShellAt(q, "write") /\ mirror'[b] = shell[q].con
           /\ shell'[q] # Resting =>
                \/ /\ ~ShellAt(q, "idle")
                   /\ shell'[q].con \in {shell[q].con, TakeSlot(shell[q].con)}
                \/ shell'[q].con = Absent
                \/ \E b \in Buckets : shell'[q].con = mirror[b]
                \/ IsTerminal(shell'[q].con.state)
  <1> USE ShellAssumption
  <1>0. mirror \in [Buckets -> Contract] /\ clock \in Nat /\ opinions \subseteq Opinions
    BY DEF TypeOK
  <1>1. CASE ShellReturn(q) /\ UNCHANGED <<vars, shells>>
    BY <1>0, <1>1 DEF ShellReturn, ShellType, OtherShells, vars
  <1>2. CASE PsBegin(q)
    BY <1>0, <1>2, AbsentIsContract
    DEF PsBegin, ShellType, OtherShells, vars, Invocation, Buckets
  <1>3. CASE ~ShellAt(q, "idle")
    <2>0. /\ shell[q] \in Invocation /\ shell[q].con \in Contract
          /\ shell[q].req \in ShellRequest /\ shell[q].from \in Buckets
      BY <1>3, BusyShell DEF Invocation
    <2>1. CASE PsFind(q)
      <3>1. FirstBucket \in Buckets  BY DEF FirstBucket, Buckets
      <3>2. CASE ~ShellReturn(q)
        <4>1. PICK pc \in {"opinion", "validate"} :
                shell' = [shell EXCEPT ![q].pc = pc, ![q].con = mirror[FirstBucket],
                                       ![q].from = FirstBucket]
          BY <2>1, <3>2 DEF PsFind
        <4>2. shell'[q] = [shell[q] EXCEPT !.pc = pc, !.con = mirror[FirstBucket],
                                           !.from = FirstBucket]
          BY <4>1 DEF ShellType
        <4>3. shell'[q] \in Invocation  BY <1>0, <2>0, <3>1, <4>2 DEF Invocation
        <4>4. ShellType' /\ OtherShells(q)  BY <4>1, <4>3 DEF ShellType, OtherShells
        <4>5. shell'[q].con = mirror[FirstBucket]  BY <2>0, <4>2 DEF Invocation
        <4> QED BY <1>0, <2>1, <3>1, <4>4, <4>5 DEF PsFind, vars
      <3> QED BY <1>1, <2>1, <3>2 DEF PsFind
    <2>2. CASE PsValidate(q)
      <3>1. CASE ShellReturn(q) /\ UNCHANGED clock
        BY <1>1, <2>2, <3>1 DEF PsValidate, vars, stored
      <3>2. CASE ~(ShellReturn(q) /\ UNCHANGED clock)
        <4> DEFINE v == PsVerdictOf(shell[q].req, shell[q].con)
        <4>1. v \in Contract /\ IsTerminal(v.state)  BY <1>0, <2>0, PsVerdictType
        <4> HIDE DEF v
        <4>2. /\ clock' = clock + 1
              /\ shell' = [shell EXCEPT ![q].pc = "remove", ![q].con = v]
          BY <2>2, <3>2 DEF PsValidate, v
        <4>3. shell'[q] = [shell[q] EXCEPT !.pc = "remove", !.con = v]
          BY <4>2 DEF ShellType
        <4>4. shell'[q] \in Invocation /\ shell'[q].con = v
          BY <2>0, <4>1, <4>3 DEF Invocation
        <4>5. ShellType' /\ OtherShells(q)  BY <4>2, <4>4 DEF ShellType, OtherShells
        <4> QED BY <1>0, <2>2, <4>1, <4>2, <4>4, <4>5 DEF PsValidate, stored
      <3> QED BY <3>1, <3>2
    <2>3. CASE PsOpinion(q)
      <3> DEFINE counted == TakeSlot(shell[q].con)
                 v == PsVerdictOf(shell[q].req, counted)
      <3>1. counted \in Contract  BY <2>0, SlotFields
      <3>2. v \in Contract /\ IsTerminal(v.state)  BY <1>0, <2>0, <3>1, PsVerdictType
      <3> HIDE DEF v
      <3>3. PICK c \in {counted, v} : shell' = [shell EXCEPT ![q].pc = "remove", ![q].con = c]
        BY <2>3 DEF PsOpinion, v
      <3>4. shell'[q] = [shell[q] EXCEPT !.pc = "remove", !.con = c]
        BY <3>3 DEF ShellType
      <3>5. shell'[q] \in Invocation /\ shell'[q].con = c
        BY <2>0, <3>1, <3>2, <3>4 DEF Invocation
      <3>6. ShellType' /\ OtherShells(q)  BY <3>3, <3>5 DEF ShellType, OtherShells
      <3>7. opinions' \subseteq Opinions /\ clock' \in {clock, clock + 1}
        BY <1>0, <2>3 DEF PsOpinion
      <3>8. UNCHANGED <<row, mirror, timeline, proc, requested, granted, acked, shells>>
        BY <2>3 DEF PsOpinion
      <3> QED BY <1>0, <1>3, <3>2, <3>5, <3>6, <3>7, <3>8
    <2>4. CASE PsRemove(q)
      <3>1. shell'[q] = [shell[q] EXCEPT !.pc = "write"]
        BY <2>4 DEF PsRemove, ShellType
      <3>2. shell'[q] \in Invocation /\ shell'[q].con = shell[q].con
        BY <2>0, <3>1 DEF Invocation
      <3>3. ShellType' /\ OtherShells(q)
        BY <2>4, <3>2 DEF PsRemove, ShellType, OtherShells
      <3> QED BY <1>0, <1>3, <2>4, <3>2, <3>3, AbsentIsContract DEF PsRemove
    <2>5. CASE PsWrite(q)
      <3>1. ShellType' /\ OtherShells(q) /\ shell'[q] = Resting
        BY <2>5 DEF PsWrite, ShellReturn, ShellType, OtherShells
      <3>2. mirror' \in [Buckets -> Contract]
        BY <1>0, <2>0, <2>5 DEF PsWrite
      <3> QED BY <1>0, <2>5, <3>1, <3>2 DEF PsWrite
    <2> QED
      BY <1>1, <1>3, <2>1, <2>2, <2>3, <2>4, <2>5 DEF PsStep, PsBegin, PsCrash
  <1> QED BY <1>1, <1>2, <1>3 DEF PsStep, PsFind, PsValidate, PsOpinion, PsRemove, PsWrite,
                                  PsCrash, ShellAt

MixedTypeInv == MixedTypeOK /\ WellFormed

LEMMA MixedTypeShape ==
    MixedTypeOK <=> TypeOK /\ shells \in Nat /\ ShellType
  BY DEF MixedTypeOK, ShellType, Invocation

LEMMA MixedTypeStep ==
    MixedTypeInv /\ [MixedNext]_allVars => MixedTypeInv'
  <1>1. ASSUME MixedTypeInv, NEW p \in Procs, Step(p), UNCHANGED psVars PROVE MixedTypeInv'
    <2>1. TypeInv  BY <1>1, MixedTypeShape DEF MixedTypeInv, TypeInv
    <2>2. TypeOK' /\ WellFormed'  BY <1>1, <2>1, TypeStep, WellFormedStep, TypeInvParts
    <2>3. shells' \in Nat /\ ShellType'
      BY <1>1, MixedTypeShape DEF MixedTypeInv, ShellType, psVars
    <2> QED BY <2>2, <2>3 DEF MixedTypeInv, MixedTypeOK, ShellType, Invocation
  <1>2. ASSUME MixedTypeInv, NEW q \in Shells, PsStep(q) PROVE MixedTypeInv'
    <2>1. TypeOK /\ shells \in Nat /\ ShellType /\ WellFormed
      BY <1>2, MixedTypeShape DEF MixedTypeInv
    <2>2. /\ ShellType' /\ UNCHANGED <<row, timeline, proc, requested, granted, acked>>
          /\ clock' \in {clock, clock + 1} /\ opinions' \subseteq Opinions
          /\ shells' \in {shells, shells + 1} /\ mirror' \in [Buckets -> Contract]
      BY <1>2, <2>1, ShellStep
    <2>3. TypeOK' /\ shells' \in Nat  BY <2>1, <2>2 DEF TypeOK
    <2>4. WellFormed'  BY <2>1, <2>2 DEF WellFormed, WellFormedAt, Holding
    <2> QED BY <2>2, <2>3, <2>4 DEF MixedTypeInv, MixedTypeOK, ShellType, Invocation
  <1>3. ASSUME MixedTypeInv, UNCHANGED allVars PROVE MixedTypeInv'
    BY <1>3
    DEF allVars, vars, psVars, MixedTypeInv, MixedTypeOK, TypeOK, WellFormed, WellFormedAt, Holding
  <1> QED BY <1>1, <1>2, <1>3 DEF MixedNext

LEMMA MixedTypeInit == MixedInit => MixedTypeInv
  <1> SUFFICES ASSUME MixedInit PROVE MixedTypeInv
    OBVIOUS
  <1>1. TypeOK /\ WellFormed  BY TypeInit DEF MixedInit, TypeInv
  <1> QED BY <1>1 DEF MixedInit, MixedTypeInv, MixedTypeOK

\* The variables of both runtimes keep their types.
THEOREM MixedTypeCorrect == MixedSpec => []MixedTypeOK
  <1>1. MixedTypeInv => MixedTypeOK  BY DEF MixedTypeInv
  <1> QED BY <1>1, MixedTypeInit, MixedTypeStep, PTL DEF MixedSpec

LiveIsFirst(c) == ~IsTerminal(c.state) => c.at = 0

HeldSafe(p) ==
    /\ ~At(p, "idle") => LiveIsFirst(proc[p].con)
    /\ proc[p].pc \in {"reconcile", "apply"} => IsTerminal(proc[p].con.state)
    /\ Recorded(p) => EventOf(proc[p].req) \in timeline
    /\ ~At(p, "idle") /\ proc[p].req.dryRun => proc[p].pc \in {"row", "mirror", "decide"}

MixedInv ==
    /\ LiveIsFirst(row)
    /\ \A b \in Buckets : LiveIsFirst(mirror[b])
    /\ \A p \in Procs : HeldSafe(p)
    /\ \A q \in Shells : ~ShellAt(q, "idle") => LiveIsFirst(shell[q].con)
    /\ acked \subseteq timeline

LEMMA FirstOps ==
    /\ LiveIsFirst(Absent) /\ LiveIsFirst(Started)
    /\ \A c \in Contract : LiveIsFirst(c) => LiveIsFirst(TakeSlot(c)) /\ LiveIsFirst(ReturnSlot(c))
    /\ \A db, fs \in Contract : LiveIsFirst(fs) /\ PreferMirror(db, fs) => IsTerminal(fs.state)
  <1>1. LiveIsFirst(Absent) /\ LiveIsFirst(Started)
    BY DEF LiveIsFirst, Absent, Started, IsTerminal
  <1>2. ASSUME NEW c \in Contract, LiveIsFirst(c)
        PROVE  LiveIsFirst(TakeSlot(c)) /\ LiveIsFirst(ReturnSlot(c))
    BY <1>2, SlotFields DEF LiveIsFirst
  <1>3. ASSUME NEW db \in Contract, NEW fs \in Contract, LiveIsFirst(fs), PreferMirror(db, fs),
               ~IsTerminal(fs.state)
        PROVE  FALSE
    <2>1. fs.at = 0 /\ fs.at > db.at  BY <1>3 DEF LiveIsFirst, PreferMirror
    <2> QED BY <2>1 DEF Contract
  <1> QED BY <1>1, <1>2, <1>3

\* A step of the service: what the process that moves holds afterwards.
LEMMA MixedHeld ==
    ASSUME TypeInv, MixedInv, NEW p \in Procs, Step(p)
    PROVE  Others(p) /\ timeline \subseteq timeline' /\ LiveIsFirst(row') /\ HeldSafe(p)'
  <1>0. /\ ProcType /\ TypeOK /\ row \in Contract /\ mirror \in [Buckets -> Contract]
        /\ HeldSafe(p) /\ LiveIsFirst(row) /\ WellFormedAt(p)
    BY DEF TypeInv, TypeOK, ProcType, MixedInv, WellFormed
  <1> USE DEF Labels
  <1>1. CASE Begin(p)
    <2>1. /\ Others(p) /\ proc'[p].pc = "row" /\ proc'[p].con = Absent
      BY <1>0, <1>1 DEF Begin, Others, ProcType
    <2> QED BY <1>0, <1>1, <2>1, FirstOps DEF Begin, HeldSafe, Recorded, At
  <1>2. CASE ~At(p, "idle")
    <2>0. /\ proc[p] \in Process /\ proc[p].con \in Contract /\ proc[p].req \in Request
          /\ LiveIsFirst(proc[p].con)
      BY <1>0, <1>2, BusyProcess, ServiceAssumption DEF Process, HeldSafe
    <2>1. CASE Return(p) /\ timeline \subseteq timeline' /\ row' = row
      BY <1>0, <2>1, ReturnEffect DEF HeldSafe, Recorded, At
    <2>2. CASE LoadRow(p)
      <3>1. /\ Others(p) /\ proc'[p].pc = "mirror" /\ proc'[p].con \in {row, Absent}
        BY <1>0, <1>2, <2>2, GotoWithEffect, AbsentIsContract DEF LoadRow
      <3> QED BY <1>0, <2>2, <3>1, FirstOps DEF LoadRow, HeldSafe, Recorded, At, stored
    <2>3. CASE LoadMirror(p)
      <3> DEFINE r == proc[p].req  db == proc[p].con
                 mine == IF r.kind = "list" THEN mirror[r.bucket] ELSE FirstCopy
      <3>1. mine \in Contract /\ LiveIsFirst(mine)
        BY <1>0, <2>0, FirstCopyType DEF Request, MixedInv
      <3>2. PICK fs \in {mine, Absent} :
              \/ Return(p)
              \/ GotoWith(p, "decide", fs)
              \/ PreferMirror(db, fs) /\ GotoWith(p, OnMirror(r), fs)
              \/ GotoWith(p, "decide", db)
        BY <2>3 DEF LoadMirror
      <3>3. LiveIsFirst(fs) /\ fs \in Contract
        BY <3>1, <3>2, FirstOps, AbsentIsContract
      <3>4. UNCHANGED stored  BY <2>3 DEF LoadMirror
      <3> HIDE DEF mine
      <3>5. CASE GotoWith(p, "decide", fs) \/ GotoWith(p, "decide", db)
        <4>1. /\ Others(p) /\ proc'[p].pc = "decide" /\ proc'[p].con \in {fs, db}
          BY <1>0, <1>2, <2>0, <3>3, <3>5, GotoWithEffect
        <4> QED BY <1>0, <2>0, <3>3, <3>4, <4>1 DEF HeldSafe, Recorded, At, stored
      <3>6. CASE PreferMirror(db, fs) /\ GotoWith(p, OnMirror(r), fs)
        <4>1. /\ Others(p) /\ proc'[p].con = fs /\ proc'[p].req = r
              /\ proc'[p].pc = OnMirror(r) /\ OnMirror(r) \in {"decide", "reconcile"}
          BY <1>0, <1>2, <3>3, <3>6, GotoWithEffect DEF OnMirror
        <4>2. IsTerminal(fs.state)
          BY <2>0, <3>3, <3>6, FirstOps
        <4> QED BY <1>0, <3>3, <3>4, <4>1, <4>2 DEF HeldSafe, Recorded, At, stored, OnMirror
      <3> QED BY <2>1, <3>2, <3>4, <3>5, <3>6 DEF stored
    <2>4. CASE Reconcile(p) \/ Recognise(p) \/ Admit(p)
      <3>1. /\ Others(p) /\ proc'[p].pc \in {"decide", "ensure", "reserve"}
            /\ proc'[p].con = proc[p].con /\ proc'[p].req = proc[p].req
        BY <1>0, <1>2, <2>4, GotoEffect DEF Reconcile, Recognise, Admit
      <3>2. proc'[p].pc # "decide" => ~proc[p].req.dryRun
        <4>1. Admit(p) => ~proc[p].req.dryRun
          BY <1>0, <2>0, ServiceAssumption DEF Admit, MayAsk, ProcType, Process
        <4> QED BY <1>0, <1>2, <2>4, <4>1, GotoEffect DEF Reconcile, Recognise
      <3>3. row' \in {row, proc[p].con} /\ timeline' = timeline
        BY <2>4 DEF Reconcile, Recognise, Admit, stored
      <3> QED BY <1>0, <2>0, <3>1, <3>2, <3>3 DEF HeldSafe, Recorded, At
    <2>5. CASE Plan(p)
      <3>1. /\ Others(p) /\ proc'[p].pc = "apply" /\ proc'[p].con = Planned(p)
            /\ proc'[p].req = proc[p].req
        BY <1>0, <1>2, <2>0, <2>5, GotoWithEffect, PlannedType, TypeParts DEF Plan
      <3>2. IsTerminal(Planned(p).state)  BY <1>0, <2>0, PlannedType, TypeParts
      <3> QED BY <1>0, <2>5, <3>1, <3>2 DEF Plan, HeldSafe, Recorded, LiveIsFirst, At, stored
    <2>6. CASE Apply(p)
      <3>1. /\ Others(p) /\ proc'[p].pc = "copy" /\ proc'[p].con = proc[p].con
            /\ proc'[p].req = proc[p].req
        BY <1>0, <2>6, ApplyEffect
      <3>2. ~proc[p].req.dryRun  BY <1>0, <2>6 DEF HeldSafe, Apply, At
      <3> QED BY <1>0, <2>0, <2>6, <3>1, <3>2 DEF Apply, HeldSafe, Recorded, At
    <2>7. CASE Reserve(p) \/ Release(p)
      <3>1. /\ Others(p) /\ proc'[p].pc = "copy" /\ proc'[p].con = row'
            /\ proc'[p].ret \in {"opinion", "idle"} /\ proc'[p].req = proc[p].req
            /\ row' \in {TakeSlot(row), ReturnSlot(row)} /\ timeline' = timeline
        BY <1>0, <2>7, ReserveEffect, ReleaseEffect DEF Reserve, Release
      <3>2. ~proc[p].req.dryRun  BY <1>0, <2>7 DEF HeldSafe, Reserve, Release, At
      <3> QED BY <1>0, <3>1, <3>2, FirstOps DEF HeldSafe, Recorded, At
    <2>8. CASE Copy(p) \/ WriteOpinion(p) \/ RemoveOpinion(p)
      <3>1. /\ Others(p) /\ proc'[p].pc \in {"prune", "emit", "release"}
            /\ proc'[p].con = proc[p].con /\ proc'[p].req = proc[p].req
            /\ proc'[p].ret = proc[p].ret /\ (proc'[p].pc = "prune" => Copy(p))
            /\ row' = row /\ timeline' = timeline
        BY <1>0, <1>2, <2>8, GotoEffect DEF Copy, WriteOpinion, RemoveOpinion
      <3>2. ~proc[p].req.dryRun
        BY <1>0, <2>8 DEF HeldSafe, Copy, WriteOpinion, RemoveOpinion, At
      <3> QED BY <1>0, <2>0, <2>8, <3>1, <3>2 DEF Copy, HeldSafe, Recorded, At
    <2>9. CASE Prune(p) /\ ~Return(p)
      <3>1. proc[p].ret \in {"reply", "opinion"} /\ Goto(p, proc[p].ret)
        BY <1>0, <2>9 DEF Prune, At, WellFormedAt
      <3>2. /\ Others(p) /\ proc'[p].pc = proc[p].ret
            /\ proc'[p].con = proc[p].con /\ proc'[p].req = proc[p].req
        BY <1>0, <1>2, <3>1, GotoEffect
      <3>3. (Recorded(p)' => Recorded(p)) /\ ~proc[p].req.dryRun
        BY <1>0, <2>9, <3>1, <3>2 DEF Recorded, Prune, At, HeldSafe
      <3> QED BY <1>0, <2>0, <2>9, <3>1, <3>2, <3>3 DEF HeldSafe, Prune, At
    <2>10. CASE Fail(p) /\ ~Return(p)
      <3>1. /\ Goto(p, AfterFailure(p)) /\ UNCHANGED <<row, timeline>>
            /\ AfterFailure(p) \in {"decide", "reply", "opinion", "release", "remove"}
            /\ AfterFailure(p) = "reply" => Recorded(p)
            /\ AfterFailure(p) # "decide" => proc[p].pc \notin {"row", "mirror", "decide"}
        BY <1>0, <2>10 DEF Fail, AfterFailure, At, WellFormedAt, Recorded, stored
      <3>2. /\ Others(p) /\ proc'[p].pc = AfterFailure(p)
            /\ proc'[p].con = proc[p].con /\ proc'[p].req = proc[p].req
        BY <1>0, <1>2, <3>1, GotoEffect
      <3>3. Recorded(p)' => Recorded(p)
        BY <3>1, <3>2 DEF Recorded
      <3> QED BY <1>0, <1>2, <2>0, <3>1, <3>2, <3>3 DEF HeldSafe, At
    <2> QED
      BY <1>2, <2>1, <2>2, <2>3, <2>4, <2>5, <2>6, <2>7, <2>8, <2>9, <2>10
      DEF Step, Begin, Conclude, Ensure, Reply, RefuseSlot, Emit, Crash, Prune, Fail, stored
  <1> QED BY <1>1, <1>2, BusySteps

LEMMA MixedServiceStep ==
    ASSUME TypeInv, ShellType, MixedInv, NEW p \in Procs, Step(p), UNCHANGED psVars
    PROVE  MixedInv'
  <1>0. /\ Others(p) /\ timeline \subseteq timeline' /\ LiveIsFirst(row') /\ HeldSafe(p)'
        /\ ProcType /\ mirror \in [Buckets -> Contract]
    BY MixedHeld DEF TypeInv, TypeOK, ProcType
  <1>1. ASSUME NEW q \in Procs PROVE HeldSafe(q)'
    <2>1. CASE q # p
      <3>1. proc'[q] = proc[q] /\ HeldSafe(q)  BY <1>0, <2>1 DEF Others, MixedInv
      <3> QED BY <1>0, <3>1 DEF HeldSafe, Recorded, At
    <2> QED BY <1>0, <2>1
  <1>2. \A b \in Buckets : LiveIsFirst(mirror'[b])
    <2>1. CASE Copy(p)
      BY <1>0, <2>1 DEF Copy, At, MixedInv, HeldSafe
    <2>2. CASE Prune(p)
      BY <1>0, <2>2, FirstOps DEF Prune, MixedInv
    <2>3. CASE mirror' = mirror
      BY <2>3 DEF MixedInv
    <2> QED
      BY <2>1, <2>2, <2>3
      DEF Step, Begin, LoadRow, LoadMirror, Reconcile, Recognise, Plan, Admit, Conclude, Ensure,
          Apply, Reply, Reserve, Release, RefuseSlot, WriteOpinion, Emit, RemoveOpinion, Fail,
          Crash, stored
  <1>3. \A q \in Shells : (~ShellAt(q, "idle") => LiveIsFirst(shell[q].con))'
    BY DEF psVars, MixedInv, ShellAt
  <1>4. acked' \subseteq timeline'
    <2>1. CASE Ensure(p)  BY <1>0, <2>1 DEF Ensure, MixedInv
    <2>2. CASE Reply(p)
      BY <1>0, <2>2 DEF Reply, MixedInv, HeldSafe, Recorded, At, stored
    <2>3. CASE acked' = acked  BY <1>0, <2>3 DEF MixedInv
    <2> QED
      BY <2>1, <2>2, <2>3
      DEF Step, Begin, LoadRow, LoadMirror, Reconcile, Recognise, Plan, Admit, Conclude, Apply,
          Copy, Prune, Reserve, Release, RefuseSlot, WriteOpinion, Emit, RemoveOpinion, Fail,
          Crash
  <1> QED BY <1>0, <1>1, <1>2, <1>3, <1>4 DEF MixedInv

LEMMA MixedShellStep ==
    ASSUME TypeOK, ShellType, MixedInv, NEW q \in Shells, PsStep(q)
    PROVE  MixedInv'
  <1>1. /\ OtherShells(q) /\ UNCHANGED <<row, timeline, proc, acked>>
        /\ \A b \in Buckets : \/ mirror'[b] \in {mirror[b], Absent}
                              \/ ShellAt(q, "write") /\ mirror'[b] = shell[q].con
        /\ shell'[q] # Resting =>
             \/ ~ShellAt(q, "idle") /\ shell'[q].con \in {shell[q].con, TakeSlot(shell[q].con)}
             \/ shell'[q].con = Absent
             \/ \E b \in Buckets : shell'[q].con = mirror[b]
             \/ IsTerminal(shell'[q].con.state)
    BY ShellStep
  <1>2. ~ShellAt(q, "idle") => shell[q].con \in Contract /\ LiveIsFirst(shell[q].con)
    BY BusyShell DEF Invocation, MixedInv
  <1>3. \A b \in Buckets : LiveIsFirst(mirror'[b])
    BY <1>1, <1>2, FirstOps DEF MixedInv, ShellAt
  <1>4. \A s \in Shells : (~ShellAt(s, "idle") => LiveIsFirst(shell[s].con))'
    <2>1. ShellAt(q, "idle")' \/ LiveIsFirst(shell'[q].con)
      <3>1. shell'[q] = Resting => ShellAt(q, "idle")'  BY DEF ShellAt, Resting
      <3> QED BY <1>1, <1>2, <3>1, FirstOps DEF MixedInv, LiveIsFirst
    <2> QED BY <1>1, <2>1 DEF OtherShells, MixedInv, ShellAt
  <1> QED BY <1>1, <1>3, <1>4 DEF MixedInv, HeldSafe, Recorded, At

\* Both invariants together are inductive.
LEMMA MixedInductive ==
    /\ MixedInit => MixedTypeInv /\ MixedInv
    /\ MixedTypeInv /\ MixedInv /\ [MixedNext]_allVars => MixedInv'
  <1>1. ASSUME MixedInit PROVE MixedInv
    BY <1>1, FirstOps DEF MixedInit, Init, MixedInv, HeldSafe, Recorded, At, ShellAt, Resting
  <1>2. ASSUME MixedTypeInv, MixedInv, MixedNext PROVE MixedInv'
    BY <1>2, MixedServiceStep, MixedShellStep, MixedTypeShape DEF MixedNext, MixedTypeInv, TypeInv
  <1>3. ASSUME MixedInv, UNCHANGED allVars PROVE MixedInv'
    BY <1>3 DEF allVars, vars, psVars, MixedInv, HeldSafe, Recorded, At, ShellAt
  <1> QED BY <1>1, <1>2, <1>3, MixedTypeInit

\* What the Go service told a caller stays on the timeline, whatever PowerShell
\* does to the files next to it.
THEOREM MixedAcknowledgedIsRecorded == MixedSpec => []AckedOnTimeline
  <1>1. MixedInv => AckedOnTimeline  BY DEF MixedInv, AckedOnTimeline
  <1> QED BY <1>1, MixedInductive, MixedTypeStep, PTL DEF MixedSpec

\* A finished row is never revived, although PowerShell writes the mirror files
\* that readers put back, and knows nothing of the row.
THEOREM MixedNoRevival == MixedSpec => MixedTerminalStaysTerminal
  <1>1. MixedTypeInv /\ MixedInv /\ [MixedNext]_allVars
          => [IsTerminal(row.state) => IsTerminal(row'.state)]_allVars
    <2>1. ASSUME MixedTypeInv, MixedInv, NEW p \in Procs, Step(p)
          PROVE  IsTerminal(row.state) => IsTerminal(row'.state)
      <3>1. HeldSafe(p) /\ row \in Contract
        BY <2>1, MixedTypeShape DEF MixedInv, MixedTypeInv, TypeOK
      <3>2. CASE Reconcile(p) \/ Apply(p)
        BY <3>1, <3>2 DEF Reconcile, Apply, HeldSafe, At
      <3>3. CASE Reserve(p) \/ Release(p)
        BY <3>1, <3>3, SlotFields DEF Reserve, Release
      <3>4. CASE row' = row
        BY <3>4
      <3> QED
        BY <2>1, <3>2, <3>3, <3>4
        DEF Step, Begin, LoadRow, LoadMirror, Recognise, Plan, Admit, Conclude, Ensure, Copy,
            Prune, Reply, RefuseSlot, WriteOpinion, Emit, RemoveOpinion, Fail, Crash, stored
    <2>2. ASSUME MixedTypeInv, NEW q \in Shells, PsStep(q) PROVE row' = row
      BY <2>2, ShellStep, MixedTypeShape DEF MixedTypeInv
    <2> QED BY <2>1, <2>2 DEF MixedNext
  <1> QED
    BY <1>1, MixedInductive, MixedTypeStep, PTL DEF MixedSpec, MixedTerminalStaysTerminal

\* A dry run of Complete or Block writes to no store on any of its steps: it loads
\* and decides, and a fresher mirror copy it comes across stays where it is.
THEOREM DryRunIsDry == MixedSpec => DryRunWritesNothing
  <1> DEFINE Dry(p) == ~At(p, "idle") /\ proc'[p] # proc[p] /\ proc[p].req.dryRun
                         => UNCHANGED stored
  <1>1. MixedTypeInv /\ MixedInv /\ [MixedNext]_allVars => [\A p \in Procs : Dry(p)]_allVars
    <2>1. ASSUME MixedTypeInv, MixedInv, NEW p \in Procs, Step(p), NEW q \in Procs
          PROVE  Dry(q)
      <3>1. TypeInv  BY <2>1, MixedTypeShape DEF MixedTypeInv, TypeInv
      <3>2. Others(p) /\ HeldSafe(p)  BY <2>1, <3>1, MixedHeld DEF MixedInv
      <3>3. CASE q # p  BY <3>2, <3>3 DEF Others
      <3>4. CASE q = p /\ ~At(p, "idle") /\ proc[p].req.dryRun
        <4>1. proc[p].pc \in {"row", "mirror", "decide"}  BY <3>2, <3>4 DEF HeldSafe
        <4> QED
          BY <2>1, <3>4, <4>1
          DEF Step, Begin, LoadRow, LoadMirror, Reconcile, Recognise, Plan, Admit, Conclude,
              Ensure, Apply, Copy, Prune, Reply, Reserve, Release, RefuseSlot, WriteOpinion, Emit,
              RemoveOpinion, Fail, Crash, At
      <3> QED BY <3>3, <3>4
    <2>2. ASSUME MixedTypeInv, NEW q \in Shells, PsStep(q) PROVE proc' = proc
      BY <2>2, ShellStep, MixedTypeShape DEF MixedTypeInv
    <2> QED BY <2>1, <2>2 DEF MixedNext
  <1> QED BY <1>1, MixedInductive, MixedTypeStep, PTL DEF MixedSpec, DryRunWritesNothing

-------------------------------------------------------------------------------
(* TaskCreation: what is gone after an abort, what is there after a success, and
   that a verdict is recorded with its event until an abort takes the task away. *)

(***************************************************************************)
(* The abort.  The steps of failCreate take away one kind of record after  *)
(* the other; the invariant says which are gone at each of them, as long   *)
(* as no other process has changed the task meanwhile.                     *)
(***************************************************************************)
CreatorRecord ==
    /\ creator = [pc |-> creator.pc, snapshot |-> creator.snapshot, failed |-> creator.failed]
    /\ creator.failed \in BOOLEAN /\ briefing \in BOOLEAN /\ touched \in BOOLEAN

NoCopies == \A b \in Buckets : ~Exists(mirror[b])

AbortSoFar ==
    /\ outcome # "none" => Doing("over")
    /\ ~touched =>
         /\ Doing("artifacts") /\ ~creator.failed => NoCopies
         /\ Doing("transaction") => NoCopies /\ opinions = {} /\ ~briefing
    /\ AbortLeavesNothing

AbortInv == CreatorRecord /\ AbortSoFar

-------------------------------------------------------------------------------
LEMMA AbortInit == CreationInit => AbortInv
<1> SUFFICES ASSUME CreationInit PROVE AbortInv
  OBVIOUS
<1>1. creator = [pc |-> creator.pc, snapshot |-> creator.snapshot, failed |-> creator.failed]
  BY DEF CreationInit
<1>2. creator.failed = FALSE /\ briefing = FALSE /\ touched = FALSE
  BY DEF CreationInit
<1>3. AbortSoFar
  BY DEF CreationInit, AbortSoFar, AbortLeavesNothing, Doing
<1> QED  BY <1>1, <1>2, <1>3 DEF AbortInv, CreatorRecord

\* What moving on and answering do to the creator.
LEMMA ProceedEffect ==
    ASSUME CreatorRecord, NEW label, Proceed(label)
    PROVE  /\ creator' = [pc |-> creator'.pc, snapshot |-> creator'.snapshot,
                          failed |-> creator'.failed]
           /\ creator'.pc = label /\ creator'.failed = creator.failed
           /\ creator'.snapshot = creator.snapshot /\ outcome' = outcome
<1>1. creator' = [pc |-> label, snapshot |-> creator.snapshot, failed |-> creator.failed]
  BY DEF CreatorRecord, Proceed
<1> QED  BY <1>1 DEF Proceed

LEMMA AnswerEffect ==
    ASSUME CreatorRecord, NEW result, Answer(result)
    PROVE  /\ creator' = [pc |-> creator'.pc, snapshot |-> creator'.snapshot,
                          failed |-> creator'.failed]
           /\ creator'.pc = "over" /\ creator'.failed = creator.failed
           /\ outcome' = result
<1>1. creator' = [pc |-> "over", snapshot |-> creator.snapshot, failed |-> creator.failed]
  BY DEF CreatorRecord, Answer
<1> QED  BY <1>1 DEF Answer

\* Every step of Create and of its abort takes away what it should.
LEMMA CreatorKeeps == AbortInv /\ CreatorStep => AbortInv'
<1> SUFFICES ASSUME AbortInv, CreatorStep PROVE AbortInv'
  OBVIOUS
<1>0. CreatorRecord /\ AbortSoFar
  BY DEF AbortInv
<1> USE DEF AbortInv, AbortSoFar, AbortLeavesNothing, CreatorRecord, Doing, workers, stored
<1>1. ASSUME NEW label \in CreatorSteps \ {"artifacts", "transaction", "over"}, Proceed(label),
             outcome = "none", UNCHANGED touched, briefing' \in BOOLEAN
      PROVE  AbortInv'
  BY <1>0, <1>1, ProceedEffect DEF CreatorSteps
<1>2. ASSUME NEW result \in {"none", "created", "refused", "abort failed"}, Answer(result),
             UNCHANGED touched, briefing' \in BOOLEAN
      PROVE  AbortInv'
  BY <1>0, <1>2, AnswerEffect
<1>3. outcome # "none" => Doing("over")
  BY <1>0
<1>4. CASE SaveRow \/ SaveCopy \/ SavePrune \/ WriteBriefing \/ EmitCreated
  <2>1. PICK label \in {"copy", "prune", "briefing", "created", "started"} : Proceed(label)
    BY <1>4 DEF SaveRow, SaveCopy, SavePrune, WriteBriefing, EmitCreated
  <2>2. outcome = "none" /\ UNCHANGED touched /\ briefing' \in BOOLEAN
    BY <1>0, <1>3, <1>4 DEF SaveRow, SaveCopy, SavePrune, WriteBriefing, EmitCreated
  <2> QED  BY <1>1, <2>1, <2>2 DEF CreatorSteps
<1>5. CASE EmitStarted
  BY <1>0, <1>2, <1>5 DEF EmitStarted
<1>6. CASE TakeSnapshot
  <2>1. /\ outcome = "none" /\ UNCHANGED <<touched, briefing, outcome>>
        /\ creator' = [pc |-> "buckets", snapshot |-> IF Exists(row) THEN row ELSE FirstCopy,
                       failed |-> creator.failed]
    BY <1>0, <1>3, <1>6 DEF TakeSnapshot
  <2> QED  BY <1>0, <2>1
<1>7. CASE DeleteCopies
  <2>1. PICK stuck \in SUBSET {b \in Buckets : Exists(mirror[b])} :
           /\ mirror' = [b \in Buckets |-> IF b \in stuck THEN mirror[b] ELSE Absent]
           /\ creator' = [creator EXCEPT !.pc = "artifacts", !.failed = stuck # {}]
    BY <1>7 DEF DeleteCopies
  <2>2. creator' = [pc |-> "artifacts", snapshot |-> creator.snapshot, failed |-> stuck # {}]
    BY <1>0, <2>1
  <2>3. ~creator'.failed => NoCopies'
    BY <2>1, <2>2 DEF NoCopies, Exists, Absent
  <2>4. outcome = "none" /\ UNCHANGED <<touched, briefing, outcome>>
    BY <1>0, <1>3, <1>7 DEF DeleteCopies
  <2> QED  BY <1>0, <2>2, <2>3, <2>4
<1>8. CASE DeleteArtifacts
  <2>1. PICK left \in SUBSET opinions, kept \in {FALSE, briefing} :
           /\ opinions' = left /\ briefing' = kept
           /\ AfterFiles(creator.failed \/ left # {} \/ kept)
    BY <1>8 DEF DeleteArtifacts
  <2>2. kept \in BOOLEAN
    BY <1>0, <2>1
  <2>3. UNCHANGED <<mirror, touched>> /\ outcome = "none" /\ Doing("artifacts")
    BY <1>0, <1>3, <1>8 DEF DeleteArtifacts
  <2>4. CASE creator.failed \/ left # {} \/ kept
    <3>1. Answer("abort failed")
      BY <2>1, <2>4 DEF AfterFiles
    <3> QED  BY <1>2, <2>1, <2>2, <2>3, <3>1
  <2>5. CASE ~(creator.failed \/ left # {} \/ kept)
    <3>1. Proceed("transaction")
      BY <2>1, <2>5 DEF AfterFiles
    <3>2. opinions' = {} /\ ~briefing' /\ ~creator.failed
      BY <2>1, <2>5
    <3>3. ~touched => NoCopies'
      BY <1>0, <2>3, <3>2 DEF NoCopies
    <3>4. creator'.pc = "transaction" /\ creator'.failed = creator.failed /\ outcome' = "none"
          /\ CreatorRecord'
      BY <1>0, <2>1, <2>2, <2>3, <3>1, ProceedEffect
    <3> QED  BY <2>3, <3>2, <3>3, <3>4
  <2> QED  BY <2>4, <2>5
<1>9. CASE DeleteRows
  <2>1. /\ timeline' = {} /\ row' = Absent /\ Answer("aborted")
        /\ UNCHANGED <<mirror, opinions, briefing, touched>> /\ Doing("transaction")
    BY <1>9 DEF DeleteRows, DeletedRow
  <2>2. ~Exists(row')
    BY <2>1 DEF Exists, Absent
  <2>3. ~touched => NoCopies' /\ opinions' = {} /\ ~briefing'
    BY <1>0, <2>1 DEF NoCopies
  <2>4. creator'.pc = "over" /\ CreatorRecord' /\ outcome' = "aborted"
    BY <1>0, <2>1, AnswerEffect
  <2> QED  BY <2>1, <2>2, <2>3, <2>4 DEF NoCopies
<1>10. CASE Restore \/ Tidy
  <2>1. Proceed("tidy") \/ Answer("abort failed")
    BY <1>10 DEF Restore, Tidy
  <2>2. outcome = "none" /\ UNCHANGED <<touched, briefing>>
    BY <1>0, <1>3, <1>10 DEF Restore, Tidy
  <2> QED  BY <1>0, <1>1, <1>2, <2>1, <2>2 DEF CreatorSteps
<1>11. CASE WriteFails
  <2>1. outcome = "none" /\ UNCHANGED <<touched, briefing>>
    BY <1>0, <1>3, <1>11 DEF WriteFails
  <2>2. \/ \E label \in {"briefing", "snapshot", "restore"} : Proceed(label)
        \/ \E result \in {"refused", "abort failed"} : Answer(result)
    BY <1>11 DEF WriteFails, OnFailure
  <2> QED  BY <1>0, <1>1, <1>2, <2>1, <2>2 DEF CreatorSteps
<1>12. CASE CreatorDies
  BY <1>0, <1>2, <1>12 DEF CreatorDies
<1> QED
  BY <1>4, <1>5, <1>6, <1>7, <1>8, <1>9, <1>10, <1>11, <1>12 DEF CreatorStep

\* What another process does either leaves the task as it is or is noted.
LEMMA WorkerKeeps == AbortInv /\ WorkerStep => AbortInv'
<1> SUFFICES ASSUME AbortInv, WorkerStep PROVE AbortInv'
  OBVIOUS
<1> USE DEF AbortInv, AbortSoFar, AbortLeavesNothing, CreatorRecord, Doing
<1>1. UNCHANGED <<creator, briefing, outcome>> /\ touched' = (touched \/ stored' # stored)
  BY DEF WorkerStep
<1>2. CASE touched \/ stored' # stored
  BY <1>1, <1>2
<1>3. CASE ~touched /\ stored' = stored
  BY <1>1, <1>3 DEF stored, NoCopies
<1> QED  BY <1>2, <1>3

LEMMA AbortStep == AbortInv /\ [CreationNext]_everything => AbortInv'
<1>1. AbortInv /\ UNCHANGED everything => AbortInv'
  BY DEF AbortInv, AbortSoFar, AbortLeavesNothing, CreatorRecord, Doing, NoCopies,
         everything, vars, creation
<1> QED  BY <1>1, CreatorKeeps, WorkerKeeps DEF CreationNext

\* A creation that failed and says so leaves no row, file, event, opinion or briefing,
\* unless another process has changed the task (service.go, failCreate; Delete of
\* sqlitestore/store.go and fsstore/store.go).
THEOREM AbortClean == CreationSpec => []AbortLeavesNothing
<1>1. AbortInv => AbortLeavesNothing
  BY DEF AbortInv, AbortSoFar
<1> QED  BY <1>1, AbortInit, AbortStep, PTL DEF CreationSpec

-------------------------------------------------------------------------------
(* Types: those of the service's records next to the creator's. *)

CreationTypeInv == CreationTypeOK /\ RecordInv

\* No step of the creator moves another process or touches its histories.
LEMMA CreatorAlone ==
    ASSUME CreatorStep
    PROVE  UNCHANGED workers
  BY DEF CreatorStep, SaveRow, SaveCopy, SavePrune, WriteBriefing, EmitCreated, EmitStarted,
         TakeSnapshot, DeleteCopies, DeleteArtifacts, DeleteRows, Restore, Tidy, WriteFails,
         CreatorDies

LEMMA CreationTypeInit == CreationInit => CreationTypeInv
<1> SUFFICES ASSUME CreationInit PROVE CreationTypeInv
  OBVIOUS
<1>1. RecordsOK
  BY AbsentIsContract DEF CreationInit, RecordsOK, Process, Resting
<1>2. WellFormed
  BY DEF CreationInit, WellFormed, WellFormedAt, Holding, Resting
<1>3. CreationTypeOK
  BY <1>1, AbsentIsContract DEF CreationInit, CreationTypeOK, CreatorSteps, RecordsOK
<1> QED  BY <1>1, <1>2, <1>3 DEF CreationTypeInv, RecordInv

\* Moving on and answering keep the creator's record typed.
LEMMA CreatorMoves ==
    ASSUME CreationTypeOK,
           NEW label \in CreatorSteps,
           NEW result \in {"none", "created", "refused", "aborted", "abort failed"},
           Proceed(label) \/ Answer(result)
    PROVE  /\ creator' \in [pc: CreatorSteps, snapshot: Contract, failed: BOOLEAN]
           /\ outcome' \in {"none", "created", "refused", "aborted", "abort failed"}
           /\ creator'.snapshot = creator.snapshot
<1>1. creator \in [pc: CreatorSteps, snapshot: Contract, failed: BOOLEAN]
  BY DEF CreationTypeOK
<1>2. CASE Proceed(label)
  <2>1. creator' = [creator EXCEPT !.pc = label] /\ outcome' = outcome
    BY <1>2 DEF Proceed
  <2> QED  BY <1>1, <2>1 DEF CreationTypeOK
<1>3. CASE Answer(result)
  <2>1. creator' = [creator EXCEPT !.pc = "over"] /\ outcome' = result
    BY <1>3 DEF Answer
  <2> QED  BY <1>1, <2>1 DEF CreatorSteps
<1> QED  BY <1>2, <1>3

LEMMA CreatorKeepsTypes == CreationTypeInv /\ CreatorStep => CreationTypeInv'
<1> SUFFICES ASSUME CreationTypeInv, CreatorStep PROVE CreationTypeInv'
  OBVIOUS
<1>0. /\ CreationTypeOK /\ RecordsOK /\ WellFormed /\ UNCHANGED workers
      /\ creator \in [pc: CreatorSteps, snapshot: Contract, failed: BOOLEAN]
      /\ row \in Contract /\ mirror \in [Buckets -> Contract]
  BY CreatorAlone DEF CreationTypeInv, RecordInv, CreationTypeOK
<1>1. WellFormed'
  BY <1>0 DEF WellFormed, WellFormedAt, Holding, workers
<1>2. SUFFICES /\ creator' \in [pc: CreatorSteps, snapshot: Contract, failed: BOOLEAN]
               /\ outcome' \in {"none", "created", "refused", "aborted", "abort failed"}
               /\ briefing' \in BOOLEAN /\ touched' \in BOOLEAN
               /\ row' \in Contract /\ mirror' \in [Buckets -> Contract]
               /\ timeline' \subseteq EventIds \cup {TaskCreated, TaskStarted}
               /\ opinions' \subseteq Opinions
  BY <1>0, <1>1 DEF CreationTypeInv, RecordInv, CreationTypeOK, RecordsOK, workers
<1>3. /\ briefing \in BOOLEAN /\ touched \in BOOLEAN /\ opinions \subseteq Opinions
      /\ timeline \subseteq EventIds \cup {TaskCreated, TaskStarted}
      /\ outcome \in {"none", "created", "refused", "aborted", "abort failed"}
  BY <1>0 DEF CreationTypeOK, RecordsOK
<1> DEFINE Moves == \/ \E label \in CreatorSteps : Proceed(label)
                    \/ \E result \in {"created", "refused", "aborted", "abort failed", "none"} :
                         Answer(result)
<1>4. Moves => /\ creator' \in [pc: CreatorSteps, snapshot: Contract, failed: BOOLEAN]
               /\ outcome' \in {"none", "created", "refused", "aborted", "abort failed"}
  BY <1>0, CreatorMoves DEF CreatorSteps
<1>5. CASE SaveRow \/ SaveCopy \/ WriteBriefing \/ EmitCreated \/ EmitStarted
  <2>1. Moves
    BY <1>5 DEF SaveRow, SaveCopy, WriteBriefing, EmitCreated, EmitStarted, CreatorSteps
  <2>2. mirror' \in [Buckets -> Contract] /\ row' \in Contract
    BY <1>0, <1>5, AbsentIsContract
    DEF SaveRow, SaveCopy, WriteBriefing, EmitCreated, EmitStarted, Buckets, stored
  <2> QED
    BY <1>3, <1>4, <1>5, <2>1, <2>2
    DEF SaveRow, SaveCopy, WriteBriefing, EmitCreated, EmitStarted, stored
<1>6. CASE SavePrune \/ Restore \/ Tidy
  <2>1. Moves
    BY <1>6 DEF SavePrune, Restore, Tidy, CreatorSteps
  <2>2. mirror' \in [Buckets -> Contract]
    BY <1>0, <1>6, AbsentIsContract, BucketOfType DEF SavePrune, Restore, Tidy
  <2> QED
    BY <1>0, <1>3, <1>4, <1>6, <2>1, <2>2 DEF SavePrune, Restore, Tidy, stored
<1>7. CASE TakeSnapshot
  <2> DEFINE snap == IF Exists(row) THEN row ELSE FirstCopy
  <2>1. snap \in Contract
    BY <1>0, FirstCopyType
  <2>2. creator' = [creator EXCEPT !.pc = "buckets", !.snapshot = snap]
    BY <1>7 DEF TakeSnapshot
  <2> HIDE DEF snap
  <2>3. creator' \in [pc: CreatorSteps, snapshot: Contract, failed: BOOLEAN]
    BY <1>0, <2>1, <2>2 DEF CreatorSteps
  <2> QED  BY <1>0, <1>3, <1>7, <2>3 DEF TakeSnapshot, stored
<1>8. CASE DeleteCopies
  <2>1. PICK stuck \in SUBSET Buckets :
          /\ mirror' = [b \in Buckets |-> IF b \in stuck THEN mirror[b] ELSE Absent]
          /\ creator' = [creator EXCEPT !.pc = "artifacts", !.failed = stuck # {}]
    BY <1>8 DEF DeleteCopies
  <2>2. creator' \in [pc: CreatorSteps, snapshot: Contract, failed: BOOLEAN]
    BY <1>0, <2>1 DEF CreatorSteps
  <2> QED  BY <1>0, <1>3, <1>8, <2>1, <2>2, AbsentIsContract DEF DeleteCopies
<1>9. CASE DeleteArtifacts
  <2>1. PICK left \in SUBSET opinions, kept \in {FALSE, briefing} :
           /\ opinions' = left /\ briefing' = kept
           /\ AfterFiles(creator.failed \/ left # {} \/ kept)
    BY <1>9 DEF DeleteArtifacts
  <2>2. Moves
    BY <2>1 DEF AfterFiles, CreatorSteps
  <2> QED  BY <1>0, <1>3, <1>4, <1>9, <2>1, <2>2 DEF DeleteArtifacts
<1>10. CASE DeleteRows
  <2>1. Moves
    BY <1>10 DEF DeleteRows
  <2> QED
    BY <1>0, <1>3, <1>4, <1>10, <2>1, AbsentIsContract DEF DeleteRows, DeletedRow
<1>11. CASE WriteFails \/ CreatorDies
  <2>1. Moves
    BY <1>11 DEF WriteFails, OnFailure, CreatorDies, CreatorSteps
  <2> QED  BY <1>0, <1>3, <1>4, <1>11, <2>1 DEF WriteFails, CreatorDies, stored
<1> QED
  BY <1>5, <1>6, <1>7, <1>8, <1>9, <1>10, <1>11 DEF CreatorStep

LEMMA WorkerKeepsTypes == CreationTypeInv /\ WorkerStep => CreationTypeInv'
<1> SUFFICES ASSUME CreationTypeInv, WorkerStep PROVE CreationTypeInv'
  OBVIOUS
<1>1. PICK p \in Procs : Step(p)
  BY DEF WorkerStep
<1>2. RecordsOK' /\ WellFormed' /\ timeline' \subseteq timeline \cup EventIds
  BY <1>1, RecordStep, WellFormedStep DEF CreationTypeInv
<1>3. UNCHANGED <<creator, briefing, outcome>> /\ touched' \in BOOLEAN
  BY DEF WorkerStep, CreationTypeInv, CreationTypeOK
<1> QED  BY <1>2, <1>3 DEF CreationTypeInv, CreationTypeOK, RecordInv, RecordsOK

LEMMA CreationTypeStep == CreationTypeInv /\ [CreationNext]_everything => CreationTypeInv'
<1>1. CreationTypeInv /\ UNCHANGED everything => CreationTypeInv'
  BY DEF CreationTypeInv, CreationTypeOK, RecordInv, RecordsOK, WellFormed, WellFormedAt, Holding,
         everything, vars, creation
<1> QED  BY <1>1, CreatorKeepsTypes, WorkerKeepsTypes DEF CreationNext

\* The creator's state, and what it and the processes next to it store, keep their types.
THEOREM CreationTypeCorrect == CreationSpec => []CreationTypeOK
<1>1. CreationTypeInv => CreationTypeOK  BY DEF CreationTypeInv
<1> QED  BY <1>1, CreationTypeInit, CreationTypeStep, PTL DEF CreationSpec

-------------------------------------------------------------------------------
(***************************************************************************)
(* What a successful creation leaves.  Every copy of the contract that may *)
(* be written back is one of a task that exists, so that no process next   *)
(* to the creator takes the row away once it is saved.                     *)
(***************************************************************************)

HeldExists(p) == proc[p].pc \in {"reconcile", "decide", "apply"} => Exists(proc[p].con)

CompleteSoFar ==
    /\ \A p \in Procs : HeldExists(p)
    /\ creator.pc \in {"copy", "prune", "briefing", "created", "started"} => Exists(row)
    /\ creator.pc \in {"created", "started"} => briefing
    /\ Doing("started") => TaskCreated \in timeline
    /\ CreationComplete

\* What each process holds before it writes, and that it writes no absent row.
LEMMA HeldStep ==
    ASSUME RecordInv, \A q \in Procs : HeldExists(q), NEW p \in Procs, Step(p)
    PROVE  /\ \A q \in Procs : HeldExists(q)'
           /\ Exists(row) => Exists(row')
           /\ timeline \subseteq timeline'
<1>0. /\ ProcType /\ RecordsOK /\ row \in Contract /\ mirror \in [Buckets -> Contract]
      /\ HeldExists(p) /\ WellFormedAt(p)
  BY DEF RecordInv, RecordsOK, ProcType, WellFormed
<1>1. timeline \subseteq timeline'
  BY DEF Step, Begin, LoadRow, LoadMirror, Reconcile, Recognise, Plan, Admit, Conclude, Ensure,
         Apply, Copy, Prune, Reply, Reserve, RefuseSlot, WriteOpinion, Emit, RemoveOpinion,
         Release, Fail, Crash, stored
<1>2. Exists(row) => Exists(row')
  <2>1. CASE Reconcile(p) \/ Apply(p)
    BY <1>0, <2>1 DEF Reconcile, Apply, HeldExists, At
  <2>2. CASE Reserve(p) \/ Release(p)
    BY <1>0, <2>2, SlotFields DEF Reserve, Release, Exists
  <2>3. CASE row' = row
    BY <2>3
  <2> QED
    BY <2>1, <2>2, <2>3
    DEF Step, Begin, LoadRow, LoadMirror, Recognise, Plan, Admit, Conclude, Ensure, Copy, Prune,
        Reply, RefuseSlot, WriteOpinion, Emit, RemoveOpinion, Fail, Crash, stored
<1> USE DEF Labels
<1>3. Others(p) /\ HeldExists(p)'
  <2>1. CASE Begin(p)
    <3>1. Others(p) /\ proc'[p].pc = "row"
      BY <1>0, <2>1 DEF Begin, Others, ProcType
    <3> QED  BY <3>1 DEF HeldExists
  <2>2. CASE ~At(p, "idle")
    <3>0. proc[p] \in Process /\ proc[p].con \in Contract /\ proc[p].req \in Request
      BY <1>0, <2>2, BusyProcess, ServiceAssumption DEF Process
    <3>1. CASE LoadRow(p)
      <4>1. Others(p) /\ proc'[p].pc = "mirror"
        BY <1>0, <2>2, <3>1, GotoWithEffect, AbsentIsContract DEF LoadRow
      <4> QED  BY <4>1 DEF HeldExists
    <3>2. CASE LoadMirror(p)
      <4> DEFINE r == proc[p].req  db == proc[p].con
                 mine == IF r.kind = "list" THEN mirror[r.bucket] ELSE FirstCopy
      <4>1. mine \in Contract
        BY <1>0, <3>0, FirstCopyType DEF Request
      <4>2. PICK fs \in {mine, Absent} :
              \/ Return(p)
              \/ Exists(fs) /\ GotoWith(p, "decide", fs)
              \/ PreferMirror(db, fs) /\ GotoWith(p, OnMirror(r), fs)
              \/ Exists(db) /\ GotoWith(p, "decide", db)
        BY <3>2 DEF LoadMirror
      <4>3. fs \in Contract /\ db \in Contract
        BY <3>0, <4>1, <4>2, AbsentIsContract
      <4> HIDE DEF r, db, mine
      <4>4. CASE Return(p)
        BY <1>0, <4>4, ReturnEffect DEF HeldExists
      <4>5. ASSUME NEW label \in {"decide", "reconcile"}, NEW c \in Contract, Exists(c),
                   GotoWith(p, label, c)
            PROVE  Others(p) /\ HeldExists(p)'
        <5>1. Others(p) /\ proc'[p].con = c
          BY <1>0, <2>2, <4>5, GotoWithEffect
        <5> QED  BY <4>5, <5>1 DEF HeldExists
      <4>6. OnMirror(r) \in {"decide", "reconcile"} /\ (PreferMirror(db, fs) => Exists(fs))
        BY DEF OnMirror, PreferMirror
      <4> QED  BY <4>2, <4>3, <4>4, <4>5, <4>6
    <3>3. CASE Reconcile(p)
      <4>1. Others(p) /\ proc'[p].con = proc[p].con
        BY <1>0, <2>2, <3>3, GotoEffect DEF Reconcile
      <4> QED  BY <1>0, <3>3, <4>1 DEF HeldExists, Reconcile, At
    <3>4. CASE Plan(p)
      <4>1. Others(p) /\ proc'[p].con = Planned(p)
        BY <1>0, <2>2, <3>0, <3>4, GotoWithEffect, PlannedType DEF Plan
      <4>2. Exists(Planned(p))
        BY <1>0, <3>0, PlannedType DEF Exists, IsTerminal
      <4> QED  BY <4>1, <4>2 DEF HeldExists
    <3>5. CASE \/ Recognise(p) \/ Admit(p) \/ Copy(p) \/ WriteOpinion(p) \/ RemoveOpinion(p)
      <4>1. Others(p) /\ proc'[p].pc \in {"ensure", "reserve", "prune", "emit", "release"}
        BY <1>0, <2>2, <3>5, GotoEffect
        DEF Recognise, Admit, Copy, WriteOpinion, RemoveOpinion
      <4> QED  BY <4>1 DEF HeldExists
    <3>6. CASE Apply(p) \/ Reserve(p) \/ Release(p)
      BY <1>0, <3>6, ApplyEffect, ReserveEffect, ReleaseEffect DEF HeldExists
    <3>7. CASE Return(p)
      BY <1>0, <3>7, ReturnEffect DEF HeldExists
    <3>8. CASE Prune(p) /\ Goto(p, proc[p].ret) /\ proc[p].ret # "idle"
      <4>1. proc[p].ret \in {"reply", "opinion"}
        BY <1>0, <3>8 DEF Prune, At, WellFormedAt
      <4> QED  BY <1>0, <2>2, <3>8, <4>1, GotoEffect DEF HeldExists
    <3>9. CASE Fail(p) /\ Goto(p, AfterFailure(p)) /\ AfterFailure(p) # "idle"
      <4>1. /\ AfterFailure(p) \in {"decide", "reply", "opinion", "release", "remove"}
            /\ AfterFailure(p) = "decide" => proc[p].pc = "reconcile"
        BY <1>0, <3>9 DEF AfterFailure, At, WellFormedAt, Fail
      <4>2. Others(p) /\ proc'[p].pc = AfterFailure(p) /\ proc'[p].con = proc[p].con
        BY <1>0, <2>2, <3>9, <4>1, GotoEffect
      <4> QED  BY <1>0, <4>1, <4>2 DEF HeldExists
    <3> QED
      BY <2>2, <3>1, <3>2, <3>3, <3>4, <3>5, <3>6, <3>7, <3>8, <3>9
      DEF Step, Begin, Conclude, Ensure, Prune, Reply, RefuseSlot, Emit, Fail, Crash
  <2> QED  BY <2>1, <2>2, BusySteps
<1>4. ASSUME NEW q \in Procs \ {p} PROVE HeldExists(q)'
  BY <1>3 DEF Others, HeldExists
<1> QED  BY <1>1, <1>2, <1>3, <1>4

LEMMA CompleteInit == CreationInit => CompleteSoFar
  BY DEF CreationInit, CompleteSoFar, HeldExists, CreationComplete, Doing, Resting

LEMMA CompleteWorker ==
    ASSUME CreationTypeInv, CompleteSoFar, WorkerStep
    PROVE  CompleteSoFar'
<1>1. PICK p \in Procs : Step(p)
  BY DEF WorkerStep
<1>2. /\ \A q \in Procs : HeldExists(q)'
      /\ Exists(row) => Exists(row')
      /\ timeline \subseteq timeline'
  BY <1>1, HeldStep DEF CreationTypeInv, CompleteSoFar
<1>3. UNCHANGED <<creator, briefing, outcome>>
  BY DEF WorkerStep
<1> QED  BY <1>2, <1>3 DEF CompleteSoFar, CreationComplete, Doing

LEMMA CompleteCreator ==
    ASSUME CreationTypeInv, AbortInv, CompleteSoFar, CreatorStep
    PROVE  CompleteSoFar'
<1>0. /\ creator \in [pc: CreatorSteps, snapshot: Contract, failed: BOOLEAN]
      /\ outcome # "none" => Doing("over")
  BY DEF CreationTypeInv, CreationTypeOK, AbortInv, AbortSoFar
<1>1. \A p \in Procs : HeldExists(p)'
  BY CreatorAlone DEF CompleteSoFar, HeldExists, workers
<1>2. \A label : Proceed(label) => creator'.pc = label /\ outcome' = outcome
  BY <1>0 DEF Proceed
<1>3. \A result : Answer(result) => creator'.pc = "over" /\ outcome' = result
  BY <1>0 DEF Answer
<1> USE DEF CompleteSoFar, CreationComplete, Doing
<1>4. CASE SaveRow
  <2>1. creator'.pc = "copy" /\ outcome' = outcome /\ outcome = "none" /\ Exists(row')
    BY <1>0, <1>2, <1>4 DEF SaveRow, Started, Absent, Exists
  <2> QED  BY <1>1, <2>1
<1>5. CASE SaveCopy \/ SavePrune
  <2>1. /\ creator'.pc \in {"prune", "briefing"} /\ outcome' = outcome /\ outcome = "none"
        /\ creator.pc \in {"copy", "prune"} /\ row' = row
    BY <1>0, <1>2, <1>5 DEF SaveCopy, SavePrune
  <2> QED  BY <1>1, <2>1
<1>6. CASE WriteBriefing
  <2>1. creator'.pc = "created" /\ outcome' = outcome /\ outcome = "none"
        /\ creator.pc = "briefing" /\ row' = row /\ briefing'
    BY <1>0, <1>2, <1>6 DEF WriteBriefing, stored
  <2> QED  BY <1>1, <2>1
<1>7. CASE EmitCreated
  <2>1. creator'.pc = "started" /\ outcome' = outcome /\ outcome = "none"
        /\ creator.pc = "created" /\ row' = row /\ briefing' = briefing
        /\ TaskCreated \in timeline'
    BY <1>0, <1>2, <1>7 DEF EmitCreated
  <2> QED  BY <1>1, <2>1
<1>8. CASE EmitStarted
  <2>1. creator'.pc = "over" /\ outcome' = "created"
        /\ creator.pc = "started" /\ row' = row /\ briefing' = briefing
        /\ timeline' = timeline \cup {TaskStarted}
    BY <1>0, <1>3, <1>8 DEF EmitStarted
  <2> QED  BY <1>1, <2>1
<1>9. CASE WriteFails
  <2>1. /\ UNCHANGED <<row, briefing, timeline>> /\ outcome = "none"
    BY <1>0, <1>9 DEF WriteFails, stored
  <2>2. \/ creator.pc = "copy" /\ Proceed("briefing")
        \/ Proceed("snapshot") \/ Proceed("restore")
        \/ Answer("refused") \/ Answer("abort failed")
    BY <1>9 DEF WriteFails, OnFailure
  <2>3. /\ \/ creator.pc = "copy" /\ creator'.pc = "briefing"
           \/ creator'.pc \in {"snapshot", "restore", "over"}
        /\ outcome' # "created"
    <3>1. CASE creator.pc = "copy" /\ Proceed("briefing")
      BY <1>2, <2>1, <3>1
    <3>2. CASE Proceed("snapshot") \/ Proceed("restore")
      BY <1>2, <2>1, <3>2
    <3>3. CASE Answer("refused") \/ Answer("abort failed")
      BY <1>0, <3>3 DEF Answer
    <3> QED  BY <2>2, <3>1, <3>2, <3>3
  <2> QED  BY <1>1, <2>1, <2>3
<1>10. CASE TakeSnapshot \/ DeleteCopies
  <2>1. creator'.pc \in {"buckets", "artifacts"} /\ outcome' = outcome /\ outcome = "none"
    BY <1>0, <1>10 DEF TakeSnapshot, DeleteCopies
  <2> QED  BY <1>1, <2>1
<1>11. CASE DeleteArtifacts \/ DeleteRows \/ Restore \/ Tidy \/ CreatorDies
  <2>1. outcome = "none"
    BY <1>0, <1>11 DEF DeleteArtifacts, DeleteRows, Restore, Tidy, CreatorDies
  <2>2. \/ Proceed("transaction") \/ Proceed("tidy")
        \/ Answer("aborted") \/ Answer("abort failed") \/ Answer("none")
    BY <1>11 DEF DeleteArtifacts, AfterFiles, DeleteRows, Restore, Tidy, CreatorDies
  <2>3. creator'.pc \in {"transaction", "tidy", "over"} /\ outcome' # "created"
    <3>1. CASE Proceed("transaction") \/ Proceed("tidy")
      BY <1>2, <2>1, <3>1
    <3>2. CASE Answer("aborted") \/ Answer("abort failed") \/ Answer("none")
      BY <1>0, <3>2 DEF Answer
    <3> QED  BY <2>2, <3>1, <3>2
  <2> QED  BY <1>1, <2>3
<1> QED
  BY <1>4, <1>5, <1>6, <1>7, <1>8, <1>9, <1>10, <1>11 DEF CreatorStep

LEMMA CompleteStep ==
    CreationTypeInv /\ AbortInv /\ CompleteSoFar /\ [CreationNext]_everything => CompleteSoFar'
<1>1. CompleteSoFar /\ UNCHANGED everything => CompleteSoFar'
  BY DEF CompleteSoFar, CreationComplete, HeldExists, Doing, everything, vars, creation
<1> QED  BY <1>1, CompleteWorker, CompleteCreator DEF CreationNext

\* A task whose creation was reported as successful has its row, its briefing and the two
\* events that open its timeline, whatever writes failed and whoever works on it already
\* (service.go, Create).
THEOREM CreatedIsComplete == CreationSpec => []CreationComplete
<1>1. CompleteSoFar => CreationComplete  BY DEF CompleteSoFar
<1> QED
  BY <1>1, CreationTypeInit, CreationTypeStep, AbortInit, AbortStep, CompleteInit, CompleteStep,
     PTL DEF CreationSpec

-------------------------------------------------------------------------------
(***************************************************************************)
(* The verdicts of the processes next to the creator.  Until the abort has *)
(* deleted the task, the invariant of TaskService holds: the creator only  *)
(* writes the contract it started with, or the copy its abort had taken.   *)
(* Its first write is unconditional, and nobody can have been there before.*)
(***************************************************************************)

NobodyYet ==
    Doing("save") =>
        /\ row = Absent /\ \A b \in Buckets : mirror[b] = Absent
        /\ \A p \in Procs :
             \/ At(p, "idle")
             \/ proc[p].pc \in {"row", "mirror"} /\ proc[p].con = Absent

VerdictSoFar ==
    /\ NobodyYet
    /\ outcome # "aborted" => VerdictInv /\ SafeIn(creator.snapshot, row, timeline)

LEMMA VerdictSoFarInit == CreationInit => VerdictSoFar
<1> SUFFICES ASSUME CreationInit PROVE VerdictSoFar
  OBVIOUS
<1>1. /\ row = Absent /\ creator.snapshot = Absent /\ acked = {}
      /\ \A b \in Buckets : mirror[b] = Absent
      /\ \A p \in Procs : proc[p].pc = "idle"
  BY DEF CreationInit, Resting
<1>2. VerdictInv
  BY <1>1, SafeAbsent DEF VerdictInv, CopySafe, Recorded
<1> QED  BY <1>1, <1>2, SafeAbsent DEF VerdictSoFar, NobodyYet, At

LEMMA NobodyStep ==
    ASSUME RecordInv, NobodyYet, Doing("save"), NEW p \in Procs, Step(p)
    PROVE  /\ row' = Absent /\ \A b \in Buckets : mirror'[b] = Absent
           /\ \A q \in Procs :
                \/ At(q, "idle")'
                \/ proc'[q].pc \in {"row", "mirror"} /\ proc'[q].con = Absent
<1>0. /\ ProcType /\ row = Absent /\ \A b \in Buckets : mirror[b] = Absent
      /\ \A q \in Procs :
            At(q, "idle") \/ (proc[q].pc \in {"row", "mirror"} /\ proc[q].con = Absent)
  BY DEF RecordInv, RecordsOK, ProcType, NobodyYet
<1> USE DEF Labels
<1>1. /\ UNCHANGED <<row, mirror>> /\ Others(p)
      /\ proc'[p].pc = "idle" \/ (proc'[p].pc \in {"row", "mirror"} /\ proc'[p].con = Absent)
  <2>1. CASE Begin(p)
    BY <1>0, <2>1 DEF Begin, Others, ProcType
  <2>2. CASE LoadRow(p)
    <3>1. ~At(p, "idle") /\ GotoWith(p, "mirror", Absent) /\ UNCHANGED <<row, mirror>>
      BY <1>0, <2>2 DEF LoadRow, At, stored
    <3> QED  BY <1>0, <3>1, GotoWithEffect, AbsentIsContract
  <2>3. CASE LoadMirror(p)
    <3>1. ~At(p, "idle") /\ proc[p].con = Absent /\ UNCHANGED <<row, mirror>>
      BY <1>0, <2>3 DEF LoadMirror, At, stored
    <3>2. proc[p].req.bucket \in Buckets
      BY <1>0, <3>1, BusyProcess, ServiceAssumption DEF Process, Request, Buckets
    <3>3. FirstCopy = Absent /\ mirror[proc[p].req.bucket] = Absent
      BY <1>0, <3>2 DEF FirstCopy, Buckets
    <3>4. ~Exists(Absent)
      BY DEF Exists, Absent
    <3>5. Return(p)
      BY <2>3, <3>1, <3>3, <3>4 DEF LoadMirror
    <3> QED  BY <1>0, <3>1, <3>5, ReturnEffect
  <2>4. CASE Fail(p) \/ Crash(p)
    <3>1. Return(p) /\ UNCHANGED <<row, mirror>>
      BY <1>0, <2>4 DEF Fail, AfterFailure, Crash, At, stored
    <3> QED  BY <1>0, <3>1, ReturnEffect
  <2> QED
    BY <1>0, <2>1, <2>2, <2>3, <2>4
    DEF Step, Reconcile, Recognise, Plan, Admit, Conclude, Ensure, Apply, Copy, Prune, Reply,
        Reserve, RefuseSlot, WriteOpinion, Emit, RemoveOpinion, Release, At
<1> QED  BY <1>0, <1>1 DEF Others, At

LEMMA VerdictWorker ==
    ASSUME CreationTypeInv, VerdictSoFar, WorkerStep
    PROVE  VerdictSoFar'
<1>1. PICK p \in Procs : Step(p)
  BY DEF WorkerStep
<1>2. UNCHANGED <<creator, briefing, outcome>> /\ RecordInv
  BY DEF WorkerStep, CreationTypeInv
<1>3. NobodyYet'
  <2>1. CASE Doing("save")
    BY <1>1, <1>2, <2>1, NobodyStep DEF VerdictSoFar, NobodyYet, At
  <2>2. CASE ~Doing("save")
    BY <1>2, <2>2 DEF NobodyYet, Doing
  <2> QED  BY <2>1, <2>2
<1>4. ASSUME outcome # "aborted"
      PROVE  VerdictInv' /\ SafeIn(creator.snapshot, row', timeline')
  <2>1. VerdictInv /\ SafeIn(creator.snapshot, row, timeline)
    BY <1>4 DEF VerdictSoFar
  <2>2. VerdictInv'
    BY <1>1, <1>2, <2>1, VerdictStep
  <2>3. timeline \subseteq timeline' /\ (IsTerminal(row.state) => IsTerminal(row'.state))
    BY <1>1, <1>2, <2>1, RowStep
  <2> QED  BY <2>1, <2>2, <2>3, SafeGrows
<1> QED  BY <1>2, <1>3, <1>4 DEF VerdictSoFar

\* A step of the creator that keeps the row, or sets it when no verdict is about.
LEMMA VerdictKept ==
    ASSUME VerdictInv, UNCHANGED workers, timeline \subseteq timeline',
           IsTerminal(row.state) => IsTerminal(row'.state),
           SafeIn(row', row', timeline'),
           \A b \in Buckets : SafeIn(mirror'[b], row', timeline')
    PROVE  VerdictInv'
<1>1. \A c : SafeIn(c, row, timeline) => SafeIn(c, row', timeline')
  BY SafeGrows
<1>2. \A p \in Procs : CopySafe(p)'
  BY <1>1 DEF VerdictInv, CopySafe, workers
<1>3. \A p \in Procs : (Recorded(p) => EventOf(proc[p].req) \in timeline)'
  BY DEF VerdictInv, Recorded, workers
<1> QED  BY <1>2, <1>3 DEF VerdictInv, workers

LEMMA VerdictCreator ==
    ASSUME CreationTypeInv, AbortInv, VerdictSoFar, CreatorStep
    PROVE  VerdictSoFar'
<1>0. /\ creator \in [pc: CreatorSteps, snapshot: Contract, failed: BOOLEAN]
      /\ outcome = "none" /\ UNCHANGED workers
      /\ mirror \in [Buckets -> Contract] /\ row \in Contract
  <2>1. ~Doing("over")
    BY DEF CreatorStep, SaveRow, SaveCopy, SavePrune, WriteBriefing, EmitCreated, EmitStarted,
           TakeSnapshot, DeleteCopies, DeleteArtifacts, DeleteRows, Restore, Tidy, WriteFails,
           CreatorDies, Doing
  <2> QED  BY <2>1, CreatorAlone DEF CreationTypeInv, CreationTypeOK, AbortInv, AbortSoFar
<1>1. VerdictInv /\ SafeIn(creator.snapshot, row, timeline) /\ SafeIn(row, row, timeline)
      /\ \A b \in Buckets : SafeIn(mirror[b], row, timeline)
  BY <1>0 DEF VerdictSoFar, VerdictInv
<1> DEFINE Moves == \/ \E label \in CreatorSteps \ {"save"} : Proceed(label)
                    \/ \E result \in {"created", "refused", "aborted", "abort failed", "none"} :
                         Answer(result)
<1>2. Moves => creator'.pc # "save" /\ creator'.snapshot = creator.snapshot
  <2>1. ASSUME NEW label \in CreatorSteps \ {"save"}, Proceed(label)
        PROVE  creator'.pc # "save" /\ creator'.snapshot = creator.snapshot
    BY <1>0, <2>1 DEF Proceed
  <2>2. ASSUME NEW result, Answer(result)
        PROVE  creator'.pc # "save" /\ creator'.snapshot = creator.snapshot
    BY <1>0, <2>2 DEF Answer
  <2> QED  BY <2>1, <2>2
<1>3. ASSUME creator'.pc # "save", VerdictInv', SafeIn(creator'.snapshot, row', timeline')
      PROVE  VerdictSoFar'
  BY <1>3 DEF VerdictSoFar, NobodyYet, Doing
<1>4. \A c, log : SafeIn(c, row, timeline) /\ timeline \subseteq log => SafeIn(c, row, log)
  BY SafeGrows
<1>5. CASE SaveRow
  <2>1. /\ row' = Started /\ mirror' = mirror /\ timeline' = timeline
        /\ row = Absent
    BY <1>5 DEF SaveRow, VerdictSoFar, NobodyYet
  <2>2. ~IsTerminal(row.state) /\ SafeIn(Started, Started, timeline)
    BY <2>1, AbsentIsContract, SafeAbsent
  <2>3. \A c : SafeIn(c, row, timeline) => SafeIn(c, row', timeline')
    BY <2>1, <2>2, SafeGrows
  <2>4. VerdictInv'
    BY <1>0, <1>1, <2>1, <2>2, <2>3, VerdictKept
  <2>5. Moves
    BY <1>5 DEF SaveRow, CreatorSteps
  <2> QED  BY <1>1, <1>2, <1>3, <2>3, <2>4, <2>5
<1>6. CASE \/ SaveCopy \/ SavePrune \/ Restore \/ Tidy
  <2>1. Moves /\ UNCHANGED <<row, timeline>>
    BY <1>6 DEF SaveCopy, SavePrune, Restore, Tidy, CreatorSteps
  <2>2. \A b \in Buckets : SafeIn(mirror'[b], row, timeline)
    <3>1. CASE SaveCopy
      BY <1>0, <1>1, <3>1, SafeAbsent DEF SaveCopy
    <3>2. CASE Restore
      BY <1>0, <1>1, <3>2 DEF Restore
    <3>3. CASE SavePrune \/ Tidy
      BY <1>1, <3>3, SafeAbsent DEF SavePrune, Tidy
    <3> QED  BY <1>6, <3>1, <3>2, <3>3
  <2>3. VerdictInv'
    BY <1>0, <1>1, <2>1, <2>2, VerdictKept
  <2> QED  BY <1>1, <1>2, <1>3, <2>1, <2>3
<1>7. CASE \/ WriteBriefing \/ EmitCreated \/ EmitStarted \/ WriteFails \/ CreatorDies
           \/ DeleteArtifacts
  <2>1. UNCHANGED <<row, mirror>> /\ timeline \subseteq timeline'
    BY <1>7
    DEF WriteBriefing, EmitCreated, EmitStarted, WriteFails, CreatorDies, DeleteArtifacts, stored
  <2>2. Moves
    <3>1. CASE WriteBriefing \/ EmitCreated \/ EmitStarted \/ CreatorDies
      BY <3>1 DEF WriteBriefing, EmitCreated, EmitStarted, CreatorDies, CreatorSteps
    <3>2. CASE WriteFails
      BY <3>2 DEF WriteFails, OnFailure, CreatorSteps
    <3>3. CASE DeleteArtifacts
      BY <3>3 DEF DeleteArtifacts, AfterFiles, CreatorSteps
    <3> QED  BY <1>7, <3>1, <3>2, <3>3
  <2>3. \A c : SafeIn(c, row, timeline) => SafeIn(c, row', timeline')
    BY <1>4, <2>1
  <2>4. VerdictInv'
    BY <1>0, <1>1, <2>1, <2>3, VerdictKept
  <2> QED  BY <1>1, <1>2, <1>3, <2>2, <2>3, <2>4
<1>8. CASE TakeSnapshot
  <2> DEFINE snap == IF Exists(row) THEN row ELSE FirstCopy
  <2>1. SafeIn(snap, row, timeline)
    BY <1>0, <1>1, FirstCopyType
  <2>2. creator' = [creator EXCEPT !.pc = "buckets", !.snapshot = snap]
    BY <1>8 DEF TakeSnapshot
  <2> HIDE DEF snap
  <2>3. creator'.pc = "buckets" /\ creator'.snapshot = snap
    BY <1>0, <2>2
  <2>4. UNCHANGED <<row, mirror, timeline>>
    BY <1>8 DEF TakeSnapshot, stored
  <2>5. VerdictInv'
    BY <1>0, <1>1, <2>4, VerdictKept
  <2> QED  BY <1>3, <2>1, <2>3, <2>4, <2>5
<1>9. CASE DeleteCopies
  <2>1. PICK stuck \in SUBSET Buckets :
          /\ mirror' = [b \in Buckets |-> IF b \in stuck THEN mirror[b] ELSE Absent]
          /\ creator' = [creator EXCEPT !.pc = "artifacts", !.failed = stuck # {}]
    BY <1>9 DEF DeleteCopies
  <2>2. creator'.pc = "artifacts" /\ creator'.snapshot = creator.snapshot
    BY <1>0, <2>1
  <2>3. UNCHANGED <<row, timeline>>
    BY <1>9 DEF DeleteCopies
  <2>4. \A b \in Buckets : SafeIn(mirror'[b], row, timeline)
    BY <1>1, <2>1, SafeAbsent
  <2>5. VerdictInv'
    BY <1>0, <1>1, <2>3, <2>4, VerdictKept
  <2> QED  BY <1>1, <1>3, <2>2, <2>3, <2>5
<1>10. CASE DeleteRows
  <2>1. Answer("aborted")
    BY <1>10 DEF DeleteRows
  <2>2. creator'.pc = "over" /\ outcome' = "aborted"
    BY <1>0, <2>1 DEF Answer
  <2> QED  BY <2>2 DEF VerdictSoFar, NobodyYet, Doing
<1> QED
  BY <1>5, <1>6, <1>7, <1>8, <1>9, <1>10 DEF CreatorStep

LEMMA VerdictSoFarStep ==
    CreationTypeInv /\ AbortInv /\ VerdictSoFar /\ [CreationNext]_everything => VerdictSoFar'
<1>1. VerdictSoFar /\ UNCHANGED everything => VerdictSoFar'
  BY DEF VerdictSoFar, NobodyYet, VerdictInv, CopySafe, Recorded, Doing, At,
         everything, vars, creation
<1> QED  BY <1>1, VerdictWorker, VerdictCreator DEF CreationNext

\* A verdict given to a task while it is being created is in the row together with its
\* event, for any number of processes and until an abort takes the task away.
THEOREM CreationVerdict == CreationSpec => []VerdictHasEvent
<1>1. VerdictSoFar => VerdictHasEvent
  BY DEF VerdictSoFar, VerdictInv, SafeIn, VerdictHasEvent, TimelineMatchesRow, OnTimeline
<1> QED
  BY <1>1, CreationTypeInit, CreationTypeStep, AbortInit, AbortStep, VerdictSoFarInit,
     VerdictSoFarStep, PTL DEF CreationSpec
===============================================================================
