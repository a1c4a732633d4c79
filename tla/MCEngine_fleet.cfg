CONSTANTS
    i1 = i1  i2 = i2  i3 = i3  w1 = w1  w2 = w2  c1 = c1  c2 = c2
    Instances <- TwoInstances
    Workers <- OneWorker
    NumWorkers = 1
    Clients <- TwoClients
    Priorities = {1, 2}
    CreatedAt = {1, 2}
    RetryLimits = {1}
    MaxTasks = 2
    MaxBatch = 2
    SlowHandlers = FALSE
    Crashable <- TwoInstances
    Stoppable <- TwoInstances
    MaxStops = 1
    FaultPoints = {}
    Cancels = TRUE
    Clears = FALSE
SPECIFICATION Spec
SYMMETRY Symmetry
CHECK_DEADLOCK FALSE
INVARIANTS TypeOK StopLeavesNothingRunning
PROPERTY ImplementsJobQueue
