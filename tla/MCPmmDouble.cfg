SPECIFICATION Spec
CONSTANTS
    NPage = 4
    NULL = NULL
    Clients = {"any"}
INVARIANTS
    HandsOutFree
