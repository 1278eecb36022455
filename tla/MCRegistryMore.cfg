SPECIFICATION SuiteSpec
CONSTANTS
  r0 = r0
  r1 = r1
  r2 = r2
  i1 = i1
  i2 = i2
  n1 = n1
  p1 = p1
  Runs = {r0}
  StreamRuns = {r0}
  Instances = {i1}
  NoInstance = NoInstance
  Interactions = {n1}
  NoInteraction = NoInteraction
  Responses = {p1}
  MaxConcurrent = 1
  MaxQueued = 0
  Lease = 1
  MaxClock = 0
  MaxFence = 2
  MaxEvents = 2
  Buffer = 5
  ReadCount = 2
SYMMETRY Symmetry
INVARIANTS TasksSound StreamSound
CHECK_DEADLOCK FALSE
