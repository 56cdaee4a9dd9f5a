CONSTANTS
    NumVcpus = 1
    NumThreads = 2
    Ops <- MCAllOps
SPECIFICATION FairSpec
INVARIANTS
    InlineLoopHasThread
    SchedulerInv
PROPERTIES
    ReadyThreadRuns
