SPECIFICATION Spec
CONSTANTS
  a = a  b = b  c = c
  top = top  sub = sub
  old = old  new = new
  d1 = d1  d2 = d2  d3 = d3
  Files = {a, b, c}
  Roots = {top, sub}
  Texts = {old, new}
  Decls = {d1, d2, d3}
  Gone = Gone
  NoRoot = NoRoot
  MaxFiles = 2
  MaxClock = 2
  MaxEdits = 2
  WalkOf <- MCWalkOf
  SourceOf <- MCSourceOf
  SizeOf <- MCSizeOf
  Candidates <- MCCandidates
INVARIANTS
  TypeOK
  HitIsCurrentUnlessMissed
