SPECIFICATION Spec
CONSTANTS
    t1 = t1
    t2 = t2
    a = a
    b = b
    Files = {f1}
    Contents = {a, b}
    Depths = {signature}
    Tasks = {t1, t2}
    MaxEntries = 2
    MaxClock = 1
    None = None
SYMMETRY Symmetry
INVARIANTS
    TypeOK
    StaleOnlyFromRace
    HitIsCurrentUnlessRaced
