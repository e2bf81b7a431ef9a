CONSTANTS
    p1 = p1
    p2 = p2
    p3 = p3
    idleproc = idleproc
    initproc = initproc
    NULL = NULL
    UserPid <- ThreePids
    MAX_PROCESS = 5
    TICK_NUM = 2
    NKStack = 3
    Failures = {}
    Suite <- Programs
    NYield = 2
    MaxChild = 2
    DEPTH = 1
    AnyUsers = 2
SPECIFICATION PFairSpec
INVARIANTS ProgramsPass
PROPERTIES ProgramsEnd RunnableRuns InitReaps KilledStops
