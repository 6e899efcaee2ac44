----------------------------- MODULE MixedRuntime -----------------------------
(***************************************************************************)
(* The Go service next to the PowerShell runtime it is replacing           *)
(* (scripts/agents/task-control.ps1 over execution-lib.ps1).  PowerShell   *)
(* knows nothing of runtime.db: it reads and writes the YAML files under   *)
(* .arah/local/execution, the tree the Go store keeps as a mirror, with no *)
(* lock, and appends no event.                                             *)
(*                                                                         *)
(* Evidence is taken to name paths inside the contract's scope, and the    *)
(* contract's executor to be an agent that may execute: the other checks   *)
(* of validate-execution-contract.ps1 are kept.                            *)
(***************************************************************************)
EXTENDS TaskService

CONSTANTS
    Shells,        \* PowerShell invocations
    ShellRequests, \* what they are asked
    MaxShells      \* bound on the PowerShell requests of one behaviour

ShellRequest ==
    [kind: {"complete", "block", "consult"}, evidence: SUBSET Evidence,
     reason: Reasons \cup {NoReason}, agent: Agents, blocking: BOOLEAN]

ASSUME ShellAssumption == ShellRequests \subseteq ShellRequest /\ MaxShells \in Nat

VARIABLES
    shell,         \* what each PowerShell invocation is doing
    shells         \* PowerShell requests made so far

psVars == <<shell, shells>>
allVars == <<vars, psVars>>

ShellAt(q, label) == shell[q].pc = label
ShellReturn(q) == shell' = [shell EXCEPT ![q] = Resting]

\* The bucket Find-EcpContractPath stops at.
FirstBucket ==
    CASE Exists(mirror["active"]) -> "active"
      [] Exists(mirror["completed"]) -> "completed"
      [] OTHER -> "blocked"

MixedInit == Init /\ shell = [q \in Shells |-> Resting] /\ shells = 0

PsBegin(q) ==
    /\ ShellAt(q, "idle") /\ shells < MaxShells
    /\ shells' = shells + 1
    /\ \E r \in ShellRequests :
         shell' = [shell EXCEPT ![q] =
            [pc |-> "find", req |-> r, con |-> Absent, from |-> "active"]]
    /\ UNCHANGED <<vars>>

\* Get-ContractOrThrow, and the checks made before anything else is read.
PsAccepts(r, c) ==
    /\ Exists(c)
    /\ r.kind = "complete" => ~IsTerminal(c.state) /\ r.evidence # {}
    /\ r.kind = "block" => r.reason # NoReason
    /\ r.kind = "consult" =>
         /\ c.state \in {"routed", "executing", "verifying"}
         /\ r.agent \in Consultants
         /\ c.used < MaxConsultations

PsFind(q) ==
    /\ ShellAt(q, "find")
    /\ LET r == shell[q].req
           c == mirror[FirstBucket]
       IN  IF PsAccepts(r, c)
             THEN shell' = [shell EXCEPT
                    ![q].pc = IF r.kind = "consult" THEN "opinion" ELSE "validate",
                    ![q].con = c, ![q].from = FirstBucket]
             ELSE ShellReturn(q)
    /\ UNCHANGED <<vars, shells>>

\* validate-execution-contract.ps1 reads the file again, at the path found before.
PsValid(r, file) ==
    /\ Exists(file)
    /\ Primary \notin Consultants
    /\ TransitionAllowed(file.state, IF r.kind = "complete" THEN "done" ELSE "blocked")
    /\ file.used <= MaxConsultations
    /\ r.kind = "complete" => HasConcreteEvidence(file, r.evidence)

\* Mutant of PsVerdictOf: the action's name is stored as the state.
PsRawState(r, c) == [c EXCEPT !.state = r.kind]

\* Set-EcpState on the contract read by PsFind.
PsVerdictOf(r, c) ==
    IF r.kind = "complete" THEN Complete(c, r.evidence, clock + 1)
                           ELSE [Transition(c, "blocked", clock + 1) EXCEPT !.reason = r.reason]

PsValidate(q) ==
    /\ ShellAt(q, "validate")
    /\ LET r == shell[q].req
       IN  IF PsValid(r, mirror[shell[q].from])
             THEN /\ clock' = clock + 1
                  /\ shell' = [shell EXCEPT ![q].pc = "remove",
                                            ![q].con = PsVerdictOf(r, shell[q].con)]
             ELSE ShellReturn(q) /\ UNCHANGED clock
    /\ UNCHANGED <<stored, proc, requested, granted, acked, shells>>

\* consult: the opinion file is written first; a blocking opinion blocks the task.
PsOpinion(q) ==
    /\ ShellAt(q, "opinion")
    /\ \E o \in Opinions \ (granted \cup opinions) : opinions' = opinions \cup {o}
    /\ LET r == shell[q].req
           counted == TakeSlot(shell[q].con)
       IN  IF r.blocking
             THEN /\ clock' = clock + 1
                  /\ shell' = [shell EXCEPT ![q].pc = "remove",
                                            ![q].con = PsVerdictOf(r, counted)]
             ELSE /\ shell' = [shell EXCEPT ![q].pc = "remove", ![q].con = counted]
                  /\ UNCHANGED clock
    /\ UNCHANGED <<row, mirror, timeline, proc, requested, granted, acked, shells>>

\* Save-EcpContract removes the copies in the other buckets first ...
PsRemove(q) ==
    /\ ShellAt(q, "remove")
    /\ mirror' = [b \in Buckets |->
         IF b = BucketOf(shell[q].con.state) THEN mirror[b] ELSE Absent]
    /\ shell' = [shell EXCEPT ![q].pc = "write"]
    /\ UNCHANGED <<row, timeline, opinions, proc, clock, requested, granted, acked,
                   shells>>

\* ... and then writes its own, and reports.
PsWrite(q) ==
    /\ ShellAt(q, "write")
    /\ mirror' = [mirror EXCEPT ![BucketOf(shell[q].con.state)] = shell[q].con]
    /\ ShellReturn(q)
    /\ UNCHANGED <<row, timeline, opinions, proc, clock, requested, granted, acked, shells>>

\* The invocation is interrupted between two of its writes.
PsCrash(q) ==
    /\ MayFail /\ ~ShellAt(q, "idle")
    /\ ShellReturn(q)
    /\ UNCHANGED <<vars, shells>>

PsStep(q) ==
    \/ PsBegin(q) \/ PsFind(q) \/ PsValidate(q) \/ PsOpinion(q)
    \/ PsRemove(q) \/ PsWrite(q) \/ PsCrash(q)

MixedNext ==
    \/ \E p \in Procs : Step(p) /\ UNCHANGED psVars
    \/ \E q \in Shells : PsStep(q)

MixedSpec == MixedInit /\ [][MixedNext]_allVars

-------------------------------------------------------------------------------
MixedTypeOK ==
    /\ TypeOK
    /\ shells \in Nat
    /\ shell \in [Shells ->
         [pc: {"find", "validate", "opinion", "remove", "write"}, req: ShellRequests,
          con: Contract, from: Buckets] \cup {Resting}]

\* A dry run of Complete or Block changes nothing that outlives the process, even
\* when the mirror is fresher than the row and Get would have put it back.
DryRunWritesNothing ==
    [][\A p \in Procs :
         ~At(p, "idle") /\ proc'[p] # proc[p] /\ proc[p].req.dryRun => UNCHANGED stored]_allVars

\* Readers that put mirror copies back into the row never revive a finished task,
\* whatever PowerShell has done to the mirror meanwhile.
MixedTerminalStaysTerminal == [][IsTerminal(row.state) => IsTerminal(row'.state)]_allVars
===============================================================================
