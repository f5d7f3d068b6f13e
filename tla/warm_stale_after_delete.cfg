CONSTANTS
  Paths = {p1}
  Workers = {w1, w2}
  Repos = {r1, r2, r3}
  NoRepo = NoRepo
  MaxClock = 1
  Changes = {"edit"}
  QuietLoads = FALSE
  DrainFirst = TRUE
  p1 = p1
  r1 = r1
  r2 = r2
  r3 = r3
  w1 = w1
  w2 = w2
SPECIFICATION HistorySpec
SYMMETRY Symmetry
INVARIANT NoStaleAfterDelete
