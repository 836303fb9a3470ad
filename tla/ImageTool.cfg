SPECIFICATION Spec
CONSTANTS
    t1 = t1
    t2 = t2
    w1 = w1
    w2 = w2
    w3 = w3
    Images = {i1, i2}
    Names = {n1}
    NameOf <- MCNameOf
    Tasks = {t1, t2}
    Workers = {w1, w2, w3}
    None = None
    Torn = Torn
SYMMETRY Symmetry
INVARIANTS
    TypeOK
    OwnPictureUnlessClash
    OneWorkerPerHandler
\* The process exits.
CHECK_DEADLOCK FALSE
