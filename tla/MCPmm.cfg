SPECIFICATION Spec
CONSTANTS
    NPage = 5
    NULL = NULL
    Clients = {"keep_top", "ascending"}
INVARIANTS
    ListExact
    HandsOutFree
PROPERTIES
    CallReturns
    ImplementsPhysMem
