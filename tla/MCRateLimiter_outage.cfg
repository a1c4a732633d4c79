CONSTANTS
    i1 = i1  i2 = i2  r1 = r1  r2 = r2  r3 = r3
    RATE_LIMIT_MAX = 2
    Window = 4
    Instances <- TwoInstances
    Skew <- Ahead
    MaxSkew = 1
    MaxDelay = 1
    Requests <- ThreeRequests
    MaxBatch = 2
    MaxTime = 5
SPECIFICATION Spec
CHECK_DEADLOCK FALSE
INVARIANT PerInstanceLimit
