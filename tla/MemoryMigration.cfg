SPECIFICATION Spec
CONSTANTS
    p1 = p1
    p2 = p2
    k1 = k1
    k2 = k2
    v1 = v1
    v2 = v2
    Procs = {p1, p2}
    Keys = {k1, k2}
    Values = {v1, v2}
    MaxEntries = 1
    None = None
SYMMETRY Symmetry
CONSTRAINT TableKept
INVARIANTS
    TypeOK
    MovedRowsSurvive
    RacesHideNothing
    FilePutAsideComplete
PROPERTIES
    MoveUndoesNothing
