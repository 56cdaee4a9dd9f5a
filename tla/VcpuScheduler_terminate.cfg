CONSTANTS
    NumVcpus = 2
    NumThreads = 2
    Ops <- MCEnd
SPECIFICATION FairSpec
PROPERTIES
    TerminationTakesEffect
