CONSTANTS
    i1 = i1  i2 = i2  i3 = i3  w1 = w1  w2 = w2  c1 = c1  c2 = c2
    Instances <- TwoInstances
    Workers <- OneWorker
    NumWorkers = 1
    Clients <- OneClient
    Priorities = {1}
    CreatedAt = {1}
    RetryLimits = {1}
    MaxTasks = 1
    MaxBatch = 1
    SlowHandlers = TRUE
    Crashable = {i1}
    Stoppable = {i1}
    MaxStops = 2
    FaultPoints = {"record", "recover"}
    Cancels = TRUE
    Clears = TRUE
SPECIFICATION FairSpec
CHECK_DEADLOCK FALSE
PROPERTIES StartedTaskIsRescued
