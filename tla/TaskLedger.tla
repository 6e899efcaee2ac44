------------------------------ MODULE TaskLedger ------------------------------
(***************************************************************************)
(* What the task service promises for one task, with no processes, no two  *)
(* copies and no failures: a verdict, the consultation slots taken, and an *)
(* append-only timeline that a verdict enters in the same step it is given.*)
(*                                                                         *)
(* The one liberty is Amend: Contract.Block on a blocked contract succeeds *)
(* and replaces the reason, because Transition returns nil when the state  *)
(* does not change (internal/core/domain.go).  A task that is done is      *)
(* final.                                                                  *)
(***************************************************************************)
EXTENDS Naturals, FiniteSets

CONSTANTS Evidence, Reasons, Opinions, MaxConsultations

VARIABLES verdict, slots, log

ledger == <<verdict, slots, log>>

Live == [kind |-> "live", key |-> {}]
Completed(e) == [kind |-> "task.completed", key |-> e]
Blocked(r) == [kind |-> "task.blocked", key |-> r]
Submitted(o) == [kind |-> "consultation.submitted", key |-> o]

Init == verdict = Live /\ slots = {} /\ log = {}

Decide(v) == verdict' = v /\ log' = log \cup {v} /\ UNCHANGED slots

Finish(e) == verdict = Live /\ Decide(Completed(e))

Obstruct(r) == verdict = Live /\ Decide(Blocked(r))

Amend(r) == verdict.kind = "task.blocked" /\ Decide(Blocked(r))

TakeSlot(o) ==
    /\ verdict = Live /\ o \notin slots /\ Cardinality(slots) < MaxConsultations
    /\ slots' = slots \cup {o}
    /\ UNCHANGED <<verdict, log>>

\* Only a consultation that never reached the timeline gives its slot back.
ReturnSlot(o) ==
    /\ o \in slots /\ Submitted(o) \notin log
    /\ slots' = slots \ {o}
    /\ UNCHANGED <<verdict, log>>

Submit(o) ==
    /\ o \in slots
    /\ log' = log \cup {Submitted(o)}
    /\ UNCHANGED <<verdict, slots>>

Next ==
    \/ \E e \in (SUBSET Evidence) \ {{}} : Finish(e)
    \/ \E r \in Reasons : Obstruct(r) \/ Amend(r)
    \/ \E o \in Opinions : TakeSlot(o) \/ ReturnSlot(o) \/ Submit(o)

Spec == Init /\ [][Next]_ledger
===============================================================================
