CONSTANTS
    g1 = g1  g2 = g2
    NumClients = 2
    QUANTUM = 2
    NumPeers = 1
    Passes <- TwoPasses
    Capacity = 1
    MaxPending = 2
    MaxFaults = 1
SPECIFICATION FairSpec
CHECK_DEADLOCK FALSE
INVARIANTS TypeOK OnePassAtATime StopIsQuiescent NoHoarding BoundedOvertaking
PROPERTIES NoStarvation StopTerminates
