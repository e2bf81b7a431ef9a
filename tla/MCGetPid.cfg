SPECIFICATION Spec
CONSTANTS
    MAX_PID = 7
    MAX_PROCESS = 5
INVARIANTS
    PidsDistinct
    SearchExact
PROPERTIES
    GetPidReturns
    ImplementsPidAlloc
