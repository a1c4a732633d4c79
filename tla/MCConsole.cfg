CONSTANTS
    i1 = i1  w1 = w1  c1 = c1  p1 = p1  p2 = p2  s1 = s1  s2 = s2
    Publishers = {p1, p2}
    Streams = {s1, s2}
    FeedClients = {"a", "b"}
    StreamClient <- BothOfA
    Buffer = 2
    MaxEvents <- TwoAndOne
    Backends = {"backend-1", "backend-2", "backend-3"}
    First = "backend-1"
    MaxKills = 2
    Fleet = {i1}
    HeartbeatEvery = 2
    HeartbeatTTL = 6
    MaxHalts = 2
    Instances = {i1}
    Workers = {w1}
    NumWorkers = 1
    Clients = {c1}
    Priorities = {1}
    CreatedAt = {1, 2, 3}
    RetryLimits = {1}
    MaxTasks = 3
    MaxBatch = 2
    SlowHandlers = FALSE
    Crashable = {i1}
    Stoppable = {}
    MaxStops = 1
    FaultPoints = {"record"}
    Cancels = FALSE
    Clears = TRUE
    Filters <- Queries
    DefaultPageSize = 2
    MaxPageSize = 2
    Batches = 1
    BatchSize = 2
    bucketSeconds = 2
    bucketCount = 3
    Window = 6
    Skew = 1
    MaxTime = 8
    Finished = {1, 2}
SPECIFICATION ConsoleSpec
CHECK_DEADLOCK FALSE
INVARIANTS ConsoleTypeOK NoSendOnClosed OwnEventsInOrder LostOnlyWhenBehind SeededBeforeServing LiveIsListed StoppedIsUnlisted UnheldCancelAnswer WalkMissesNothing ChartIsComplete
PROPERTIES PublishEnds StreamEnds GhostsFade DrainVerdict
