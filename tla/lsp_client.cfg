CONSTANTS
  Callers = {c1, c2}
  MaxId = 3
  Concurrency = 1
  PipeSize = 1
  OutSize = 1
  ServerIds = {1}
  None = None
  c1 = c1
  c2 = c2
SPECIFICATION FairSpec
INVARIANT TypeOK
INVARIANT NothingLeaks
INVARIANT RepliesAnswer
INVARIANT FramesIntact
INVARIANT NoChildLeft
PROPERTY CloseEnds
PROPERTY CloseReleases
