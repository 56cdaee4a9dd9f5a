CONSTANTS
    NumVcpus = 2
    NumThreads = 2
    Ops <- MCExit
SPECIFICATION FairSpec
PROPERTIES
    StopEndsRun
