SPECIFICATION Spec
CONSTANTS
  Parts = {"disk", "files", "server", "graph", "edges", "locate", "architecture", "changes", "renames", "chunks", "code", "search", "symbols", "hybrid"}
  Paths = {1, 2}
  Loaders = {l1, l2}
  Cap = 2
  Readers = {r1, r2}
  FileCap = 1
  MaxEdits = 2
  Stdio = {s1}
  Handlers = {h1, h2}
  MaxFaults = 1
  MaxVisited = 3
  RRFK = 60
  MaxRank = 3
INVARIANTS
  TypeOK LoadedIsCurrent BudgetKept AnswersFresh AnsweredIsLogged WalkExact
  EdgesExact LocateInverts CyclesExact HunksAttributed ChunksExact RankingExact
SYMMETRY Symmetry
CHECK_DEADLOCK FALSE
