SPECIFICATION Spec
CONSTANTS
    p1 = p1
    p2 = p2
    e1 = e1
    e2 = e2
    e3 = e3
    r1 = r1
    r2 = r2
    none = none
    exec = exec
    advisor = advisor
    o1 = o1
    o2 = o2
    o3 = o3
    o4 = o4
    Evidence = {e1, e2, e3}
    Concrete = {e1, e2}
    Reasons = {r1, r2}
    NoReason = none
    Agents = {exec, advisor}
    Primary = exec
    Consultants = {advisor}
    ExecutionIntent = TRUE
    MaxConsultations = 1
    Procs = {p1, p2}
    Requests <- MCRequests
    Opinions = {o1, o2, o3}
    NoOpinion = none
    MayFail = FALSE
    MaxRequests = 3
PROPERTY TerminalStateImmutable
CHECK_DEADLOCK FALSE
