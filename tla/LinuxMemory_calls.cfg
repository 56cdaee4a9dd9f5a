CONSTANTS
    N = 5
    MmapBase = 2
    BrkBase = 3
    Sizes = {1, 2}
    Hints = {0, 3}
    Protections <- MCProtections
    Values = {1}
SPECIFICATION Spec
INVARIANTS
    BackendAgrees
    
PROPERTIES
    MoveKeepsContents
    ImplementsAddressSpace
CHECK_DEADLOCK FALSE
