SPECIFICATION Spec
CONSTANTS
    Runs = {r1}
    StreamRuns = {r1}
    Instances = {i1, i2}
    NoInstance = NoInstance
    Interactions = {}
    NoInteraction = NoInteraction
    Responses = {p1}
    MaxConcurrent = 1
    MaxQueued = 0
    Lease = 2
    MaxClock = 3
    MaxFence = 3
    MaxEvents = 12
    HeartbeatEvery = 1
    MaxData = 0
    MaxFaults = 1
    LoopFaults = TRUE
    Prompt = TRUE
    Horizon = 3
SYMMETRY InstanceSymmetry
INVARIANTS SingleProducer
CHECK_DEADLOCK FALSE
