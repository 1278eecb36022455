SPECIFICATION Spec
CONSTANTS
    Runs = {r1}
    StreamRuns = {r1}
    Instances = {i1, i2}
    NoInstance = NoInstance
    Interactions = {n1}
    NoInteraction = NoInteraction
    Responses = {p1}
    MaxConcurrent = 1
    MaxQueued = 0
    Lease = 2
    MaxClock = 3
    MaxFence = 2
    MaxEvents = 12
    HeartbeatEvery = 1
    MaxData = 1
    MaxFaults = 1
    LoopFaults = FALSE
    Prompt = TRUE
    Horizon = 3
SYMMETRY InstanceSymmetry
INVARIANTS RegistryTypeOK ExclusiveExecution CancelledByRequest TerminalHasDone
CHECK_DEADLOCK FALSE
