CONSTANTS
  Paths = {p1}
  Workers = {w1, w2}
  Repos = {r1, r2, r3}
  NoRepo = NoRepo
  MaxClock = 2
  Changes = {"edit", "remove"}
  QuietLoads = TRUE
  DrainFirst = TRUE
  p1 = p1
  r1 = r1
  r2 = r2
  r3 = r3
  w1 = w1
  w2 = w2
SPECIFICATION Spec
SYMMETRY Symmetry
INVARIANT FreshMeansCurrent
INVARIANT RowNeverAhead
INVARIANT ShutdownReapsServers
