SPECIFICATION Spec
CONSTANTS
  Items = {m1, m2, m3, r1, r2}
  Seeds = {m1, m2, m3}
  None = None
  Ops = {p1, p2}
  Cands = {c1, c2}
  WindowLimit = 2
  MaxRows = 2
  MaxVersion = 2
  MaxCommits = 4
  MaxMixed = 2
SYMMETRY Interchangeable
INVARIANT TypeOK
INVARIANT AlwaysRestorable
INVARIANT EndpointBinds
INVARIANT ReviewedIsPublished
INVARIANT RowsOnce
CHECK_DEADLOCK FALSE
