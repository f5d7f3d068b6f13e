CONSTANTS
  Ids = {i1, i2}
  NoId = NoId
  Handlers = {h1, h2}
  MaxSessions = 1
  Idle = 1
  EarlySignal = FALSE
  i1 = i1
  i2 = i2
  h1 = h1
  h2 = h2
SPECIFICATION FairSpec
INVARIANT TypeOK
INVARIANT CapRespected
INVARIANT RemovedAreCancelled
INVARIANT StopReachesAll
PROPERTY NoResurrection
PROPERTY IdleGoesAway
PROPERTY StreamsEnd
PROPERTY SignalEnds
