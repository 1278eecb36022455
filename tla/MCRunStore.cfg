SPECIFICATION StoreSpec
CONSTANTS
    Runs = {r1}
    StreamRuns = {r1}
    Instances = {i1, i2}
    NoInstance = NoInstance
    Interactions = {n1, n2}
    NoInteraction = NoInteraction
    Responses = {p1}
    MaxConcurrent = 1
    MaxQueued = 0
    Lease = 1
    MaxClock = 2
    MaxFence = 3
    MaxEvents = 2
INVARIANTS StoreTypeOK StoreConsistent MetricsCount
PROPERTIES Sealed LifecycleSpec
CHECK_DEADLOCK FALSE
