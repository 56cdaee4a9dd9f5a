SPECIFICATION Spec
CONSTANTS
    NumPorts = 1
    NumPackets = 0
    NumFactories = 1
    NumThreads = 3
    Synchronization <- MCNone
    Semaphores <- MCNone
    Levels <- MCNone
    MaxQueue = 2
    MaxHandles = 2
    MaxSignal = 2
    MaxReleases = 2
    Waits <- MCWaits
    MaxWorkers = 2
    Ops = {"create", "duplicate", "close", "factory", "minimum", "timeout", "shutdown", "release", "work", "exit", "ready"}
INVARIANTS IoInv ReleaseUnderWay
PROPERTIES WorkersWithinLimits
CHECK_DEADLOCK FALSE
