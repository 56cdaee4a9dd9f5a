SPECIFICATION Spec
CONSTANTS
    auto = auto
    manual = manual
    mutant = mutant
    semaphore = semaphore
    NumVcpus = 1
    NumThreads = 2
    AutoEvents <- MCAuto
    ManualEvents <- MCNone
    Mutants <- MCMutant
    Semaphores <- MCSemaphore
    MaxCount = 2
    CountRange = 8
    MaxSuspend = 1
    ReleaseCounts = {1, 7}
    WaitLists <- MCLists
    Timeouts = {"none"}
    Alertables = {FALSE}
    MaxApcs = 1
    MaxRecursion = 2
    Ops = {"wait", "wait_multiple", "set", "clear", "pulse", "signal_wait", "release", "close", "create", "terminate", "alert", "debug"}
INVARIANTS TypeOK ThrowsOnlyOnDuplicates MutantOwnerAlive
PROPERTIES  MutantHandover
CHECK_DEADLOCK FALSE
