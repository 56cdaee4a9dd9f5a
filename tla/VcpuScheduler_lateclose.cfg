CONSTANTS
    NumVcpus = 2
    NumThreads = 2
    Ops <- MCLateClose
SPECIFICATION Spec
INVARIANTS
    ActiveThreadExists
