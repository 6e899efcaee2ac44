SPECIFICATION Spec
CONSTANTS
    p1 = p1
    p2 = p2
    old = old
    t1 = t1
    t2 = t2
    Procs = {p1, p2, old}
    Supports <- MCSupports
    Tasks = {t1, t2}
    MaxOpens = 4
    MaxRollbacks = 1
SYMMETRY OpenSymmetry
INVARIANTS
    OpenTypeOK
    SchemaBacksVersion
    ReadyFindsSchema
    ImportComplete
CHECK_DEADLOCK FALSE
