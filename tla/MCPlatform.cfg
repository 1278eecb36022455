SPECIFICATION SuiteSpec
CONSTANTS
  Boards <- ReleaseBoards
  Batches <- ReleaseBatches
  MaxPrints = 3
  Rounds = 3
  MaxStops = 1
  MaxLate = 1
  Runs = {1}
  StreamRuns = {1}
  Answers = {1}
  MaxConcurrent = 1
  MaxQueued = 1
  Buffer = 3
  MaxData = 1
  Relays = {1, 2}
  Entries = 3
  Malformed = {1}
  BatchSize = 1
  MaxFaults = 1
  EvalIds <- Core
  RegressionSuites = {"holdout"}
  SealedSuites = {"holdout"}
  TrialAttempts = 2
  TrialSetups <- Trials
  MaxRestarts = 1
INVARIANTS
  PlanSound   AuditSound  TrialSound 
  RoutingSound ReleaseSound LayoutSound
CHECK_DEADLOCK FALSE
