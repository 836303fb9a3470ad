SPECIFICATION Spec
CONSTANTS
    p1 = p1
    p2 = p2
    k1 = k1
    k2 = k2
    k3 = k3
    Procs = {p1, p2}
    MemoryAllowed = {p1}
    Keys = {k1, k2, k3}
    MaxEntries = 2
    MaxBytes = 2
    Bytes <- MCBytes
    Batch = 1
    Rounds = 1
SYMMETRY Symmetry
INVARIANTS
    TypeOK
    RowsLostOnlyByMishap
    LimitsKept
    RemovedStaysRemoved
PROPERTIES
    EvictsOnlyExcess
