CONSTANTS
  Paths = {p1}
  Workers = {w1}
  Repos = {r1, r2}
  NoRepo = NoRepo
  MaxClock = 2
  Changes = {"edit"}
  QuietLoads = FALSE
  DrainFirst = TRUE
  p1 = p1
  r1 = r1
  r2 = r2
  w1 = w1
SPECIFICATION Spec
SYMMETRY Symmetry
INVARIANT FreshMeansCurrent
