CONSTANTS
  Callers = {c1}
  MaxId = 2
  Concurrency = 1
  PipeSize = 2
  OutSize = 1
  ServerIds = {}
  None = None
  c1 = c1
SPECIFICATION TimedSpec
PROPERTY CallsReturn
