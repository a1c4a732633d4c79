CONSTANTS
    i1 = i1  i2 = i2  i3 = i3  w1 = w1  w2 = w2  c1 = c1  c2 = c2
    Instances <- OneInstance
    Workers <- OneWorker
    NumWorkers = 1
    Clients <- OneClient
    Priorities = {1}
    CreatedAt = {1}
    RetryLimits = {1}
    MaxTasks = 3
    MaxBatch = 3
    SlowHandlers = FALSE
    Crashable = {i1}
    Stoppable = {i1}
    MaxStops = 2
    FaultPoints = {"record"}
    Cancels = FALSE
    Clears = FALSE
SPECIFICATION RestartSpec
CHECK_DEADLOCK FALSE
PROPERTIES EveryTaskSettles ShutdownTerminates
