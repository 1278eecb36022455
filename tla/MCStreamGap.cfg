SPECIFICATION StreamSpec
CONSTANTS
    Runs = {r1}
    StreamRuns = {r1}
    Instances = {i1}
    NoInstance = NoInstance
    Interactions = {n1}
    NoInteraction = NoInteraction
    Responses = {p1}
    MaxConcurrent = 1
    MaxQueued = 0
    Lease = 1
    MaxClock = 0
    MaxFence = 2
    MaxEvents = 3
    Buffer = 2
    ReadCount = 1
INVARIANTS NoSilentGap
CHECK_DEADLOCK FALSE
