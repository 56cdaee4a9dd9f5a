SPECIFICATION FairSpec
CONSTANTS
    NumPorts = 1
    NumPackets = 2
    NumFactories = 0
    NumThreads = 2
    Synchronization <- MCNone
    Semaphores <- MCSemaphore
    Levels <- MCNone
    MaxQueue = 2
    MaxHandles = 1
    MaxSignal = 2
    MaxReleases = 2
    Waits <- MCWaits
    MaxWorkers = 2
    Ops = {"create", "exit", "close", "post", "associate", "cancel", "remove", "signal", "take", "thread", "post_packet", "observe"}
INVARIANTS IoInv RefsBalanced QueuedOnce
PROPERTIES CompletionTakesSignal WaiterServed
CHECK_DEADLOCK FALSE
