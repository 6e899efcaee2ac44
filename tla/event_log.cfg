SPECIFICATION Spec
CONSTANTS
    p1 = p1
    p2 = p2
    e1 = e1
    e2 = e2
    Procs = {p1, p2}
    Events = {e1, e2}
    RetainDays = 1
    DaysPerMonth = 2
    MaxDays = 3
    MaxRuns = 3
    MaxMigrations = 2
SYMMETRY EventLogSymmetry
INVARIANTS
    EventTypeOK
    NothingLost
    ExactlyOnce
    QuietReadSeesAll
CHECK_DEADLOCK FALSE
