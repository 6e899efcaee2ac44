--------------------------- MODULE ExecutionContract ---------------------------
(***************************************************************************)
(* The execution contract of internal/core/domain.go: its life cycle as    *)
(* operators on a contract record.  The fields that never change after the *)
(* contract is built (intent type, participants, limits) are constants of  *)
(* the task under study; a contract record carries the rest:               *)
(*   state     the life cycle state, or Absent when there is no contract   *)
(*   evidence  the completion evidence, as the set evidenceSameSet compares *)
(*   reason    the blocking reason, or NoReason                            *)
(*   used      Counters.Consultations                                      *)
(*   at        the time of the last history entry, as a logical clock      *)
(* The other counters and the list of changed files are never written by   *)
(* the Go core.  History is abstracted to its last time stamp: two copies  *)
(* of a contract with the same last stamp have the same history.           *)
(***************************************************************************)
EXTENDS Naturals, FiniteSets

CONSTANTS
    Evidence,          \* the pieces of evidence callers may hand in
    Concrete,          \* those that name a file, a command or a test
    Reasons,           \* non-blank blocking reasons
    NoReason,          \* a blank or missing reason
    Agents,            \* agent ids
    Primary,           \* the contract's primary executor
    Consultants,       \* Participants.Consultants
    ExecutionIntent,   \* whether intent_type is "execution"
    MaxConsultations   \* Limits.MaxConsultations

ASSUME ContractAssumption ==
    /\ Concrete \subseteq Evidence
    /\ NoReason \notin Reasons
    /\ Primary \in Agents /\ Consultants \subseteq Agents
    /\ ExecutionIntent \in BOOLEAN
    /\ MaxConsultations \in Nat

-------------------------------------------------------------------------------
States == {"intake", "routed", "executing", "verifying", "done", "blocked"}

\* validTransitions: the successors of each state.
Successors ==
    [s \in States |->
        CASE s = "intake"    -> {"routed", "blocked"}
          [] s = "routed"    -> {"executing", "blocked"}
          [] s = "executing" -> {"verifying", "blocked", "done"}
          [] s = "verifying" -> {"done", "blocked", "executing"}
          [] OTHER           -> {}]

TransitionAllowed(from, to) == from \in States /\ to \in Successors[from]

IsTerminal(state) == state \in {"done", "blocked"}

Contract ==
    [state: States \cup {"absent"}, evidence: SUBSET Evidence,
     reason: Reasons \cup {NoReason}, used: Nat, at: Nat]

\* No row, or no file: what a lookup that finds nothing stands for.
Absent == [state |-> "absent", evidence |-> {}, reason |-> NoReason, used |-> 0, at |-> 0]

Exists(c) == c.state # "absent"

\* NewContract followed by Start: the contract TaskService.Create persists.
Started == [Absent EXCEPT !.state = "executing"]

-------------------------------------------------------------------------------
\* Transition succeeds in place when the state does not change, is refused from
\* a terminal state, and otherwise follows the table.
MayTransition(c, to) == c.state = to \/ TransitionAllowed(c.state, to)

Transition(c, to, now) ==
    IF c.state = to THEN c ELSE [c EXCEPT !.state = to, !.at = now]

\* Any evidence closes a task of another intent; execution wants a concrete one.
HasConcreteEvidence(c, extra) ==
    LET all == extra \cup c.evidence
    IN  IF ExecutionIntent THEN all \cap Concrete # {} ELSE all # {}

\* Mutant of MayComplete: a finished task may be completed again.
MayCompleteAgain(c, evidence) == evidence # {} /\ HasConcreteEvidence(c, evidence)

MayComplete(c, evidence) ==
    /\ ~IsTerminal(c.state)
    /\ evidence # {}
    /\ HasConcreteEvidence(c, evidence)
    /\ c.state = "executing" \/ MayTransition(c, "done")

\* Complete goes through verifying when it starts from executing.
Complete(c, evidence, now) ==
    LET verified == IF c.state = "executing" THEN Transition(c, "verifying", now) ELSE c
    IN  [Transition(verified, "done", now) EXCEPT !.evidence = @ \cup evidence]

MayBlock(c, reason) == reason # NoReason /\ MayTransition(c, "blocked")

\* A contract that is already blocked keeps its state and takes the new reason.
Block(c, reason, now) == [Transition(c, "blocked", now) EXCEPT !.reason = reason]

-------------------------------------------------------------------------------
\* A consultation needs a live contract and a consultant that is not the executor.
MayConsult(c, agent) ==
    /\ Exists(c) /\ ~IsTerminal(c.state)
    /\ agent \in Consultants \ {Primary}

\* Mutant of SlotFree: an off-by-one in the limit.
SlotFreeOffByOne(c) == ~IsTerminal(c.state) /\ c.used <= MaxConsultations

\* The condition ReserveConsultationSlot checks under the write lock.
SlotFree(c) == ~IsTerminal(c.state) /\ c.used < MaxConsultations

TakeSlot(c) == [c EXCEPT !.used = @ + 1]

\* Mutant of ReturnSlot: the counter is not guarded against zero.
ReturnSlotUnguarded(c) == [c EXCEPT !.used = @ - 1]

ReturnSlot(c) == IF c.used > 0 THEN [c EXCEPT !.used = @ - 1] ELSE c

-------------------------------------------------------------------------------
\* The retry tests of TaskService.Complete and TaskService.Block.
AlreadyCompleted(c, evidence) ==
    c.state = "done" /\ evidence # {} /\ c.evidence = evidence

AlreadyBlocked(c, reason) ==
    c.state = "blocked" /\ reason # NoReason /\ c.reason = reason

\* Mutant of PreferMirror: the mirror is trusted whenever it exists.
PreferAlways(db, fs) == Exists(fs)

\* preferFresher: a terminal copy beats a live one, then the later history wins,
\* and the database copy wins ties.
PreferMirror(db, fs) ==
    /\ Exists(fs)
    /\ \/ IsTerminal(fs.state) /\ ~IsTerminal(db.state)
       \/ /\ IsTerminal(fs.state) = IsTerminal(db.state)
          /\ fs.at > db.at
===============================================================================
