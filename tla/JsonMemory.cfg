SPECIFICATION FairSpec
CONSTANTS
    p1 = p1
    p2 = p2
    k1 = k1
    k2 = k2
    Procs = {p1, p2}
    Keys = {k1, k2}
    Values = {v1}
    MaxEntries = 1
    LockAttempts = 2
    None = None
INVARIANTS
    TypeOK
    ExclusiveUnlessMishap
PROPERTIES
    NoLostUpdateUnlessMishap
    CallsReturn
