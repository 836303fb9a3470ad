SPECIFICATION Spec
CONSTANTS
    r1 = r1
    r2 = r2
    s1 = s1
    c1 = c1
    c2 = c2
    c3 = c3
    t1 = t1
    t2 = t2
    Roots = {r1}
    Servers = {s1}
    DefaultRoot = r1
    Tasks = {t1, t2}
    Children = {c1, c2}
    Home <- MCHome
    NoChild = NoChild
    NoKey = NoKey
INVARIANTS
    NoOrphans
\* The process exits.
CHECK_DEADLOCK FALSE
