SPECIFICATION CreationSpec
CONSTANTS
    p1 = p1
    e1 = e1
    r1 = r1
    none = none
    exec = exec
    advisor = advisor
    o1 = o1
    o2 = o2
    Evidence = {e1}
    Concrete = {e1}
    Reasons = {r1}
    NoReason = none
    Agents = {exec, advisor}
    Primary = exec
    Consultants = {advisor}
    ExecutionIntent = TRUE
    MaxConsultations = 1
    Procs = {p1}
    Requests <- MCRequests
    Opinions = {o1, o2}
    NoOpinion = none
    MayFail = TRUE
    MaxRequests = 2
INVARIANTS
    CreationTypeOK
    CreationComplete
    AbortLeavesNothing
    VerdictHasEvent
CHECK_DEADLOCK FALSE
