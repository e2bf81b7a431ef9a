SPECIFICATION FairSpec
CONSTANTS
    p1 = p1
    p2 = p2
    p3 = p3
    idleproc = idleproc
    initproc = initproc
    NULL = NULL
    UserPid <- TwoUsers
    MAX_PROCESS = 4
    TICK_NUM = 2
    NKStack = 2
    Failures <- NoFailures
PROPERTY KilledDies
