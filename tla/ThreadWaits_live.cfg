SPECIFICATION FairSpec
CONSTANTS
    auto = auto
    manual = manual
    mutant = mutant
    semaphore = semaphore
    NumVcpus = 2
    NumThreads = 2
    AutoEvents <- MCAuto
    ManualEvents <- MCNone
    Mutants <- MCNone
    Semaphores <- MCNone
    MaxCount = 2
    CountRange = 8
    MaxSuspend = 1
    ReleaseCounts = {1}
    WaitLists <- MCNone
    Timeouts = {"none", "future"}
    Alertables = {TRUE, FALSE}
    MaxApcs = 1
    MaxRecursion = 2
    Ops = {"wait", "apc", "alert"}
PROPERTIES TimedWaitEnds WakeUpArrives
CHECK_DEADLOCK FALSE
