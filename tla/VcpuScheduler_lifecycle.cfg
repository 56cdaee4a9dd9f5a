CONSTANTS
    NumVcpus = 2
    NumThreads = 2
    Ops <- MCLifecycle
SPECIFICATION Spec
INVARIANTS
    ThreadOnOneVcpu
    RegistersNotLost
    WindDownJustified
    GuestEntryJustified
    SchedulerInv
