CONSTANTS
    N = 4
    Granularity = 1
    Default = 1
    Sizes = {1, 2, 3}
    Protections <- MCProtections
    Kusd = 3
    MaxForeign = 2
    Ops = {"host", "allocate", "commit", "protect", "guard", "free", "internal", "dep", "alias", "restore"}
SPECIFICATION Spec
CHECK_DEADLOCK FALSE
PROPERTIES
    ImplementsAddressSpace
INVARIANTS
    RegionsDisjoint
    BackendAgrees
    NothingClobbered
    ReservationsClaimed
    
    QueryExact
