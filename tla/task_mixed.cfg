SPECIFICATION MixedSpec
CONSTANTS
    p1 = p1
    q1 = q1
    e1 = e1
    e2 = e2
    r1 = r1
    r2 = r2
    none = none
    exec = exec
    advisor = advisor
    o1 = o1
    o2 = o2
    o3 = o3
    o4 = o4
    Evidence = {e1, e2}
    Concrete = {e1}
    Reasons = {r1, r2}
    NoReason = none
    Agents = {exec, advisor}
    Primary = exec
    Consultants = {advisor}
    ExecutionIntent = TRUE
    MaxConsultations = 1
    Procs = {p1}
    Requests <- MCRequests
    Opinions = {o1, o2, o3, o4}
    NoOpinion = none
    MayFail = TRUE
    MaxRequests = 2
    Shells = {q1}
    ShellRequests <- MCShellRequests
    MaxShells = 2
INVARIANTS
    MixedTypeOK
    AckedOnTimeline
PROPERTIES
    DryRunWritesNothing
    MixedTerminalStaysTerminal
CHECK_DEADLOCK FALSE
