CONSTANTS
  Paths = {p1, p2}
  Workers = {w1, w2}
  Repos = {r1, r2, r3}
  NoRepo = NoRepo
  MaxClock = 0
  Changes = {"edit"}
  QuietLoads = FALSE
  DrainFirst = FALSE
  p1 = p1
  p2 = p2
  r1 = r1
  r2 = r2
  r3 = r3
  w1 = w1
  w2 = w2
SPECIFICATION Spec
SYMMETRY Symmetry
INVARIANT TypeOK
INVARIANT WarmEntriesLive
INVARIANT NoOrphanedServers
INVARIANT UnpinnedIsPrivate
PROPERTY ReapedAtItsOwnPath
PROPERTY LifecycleSpec
