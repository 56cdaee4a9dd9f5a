SPECIFICATION Spec
CONSTANTS
    auto = auto
    manual = manual
    mutant = mutant
    semaphore = semaphore
    NumVcpus = 2
    NumThreads = 2
    AutoEvents <- MCNone
    ManualEvents <- MCManual
    Mutants <- MCNone
    Semaphores <- MCNone
    MaxCount = 2
    CountRange = 8
    MaxSuspend = 1
    ReleaseCounts = {1}
    WaitLists <- MCNone
    Timeouts = {"none", "future"}
    Alertables = {TRUE, FALSE}
    MaxApcs = 1
    MaxRecursion = 2
    Ops = {"wait", "set", "pulse", "apc", "continue", "suspend", "alert", "delay"}
INVARIANTS RunningIsSettled IInv
PROPERTIES AlertNotLost DecidedStatusDelivered SignalBeatsTimeout
CHECK_DEADLOCK FALSE
