SPECIFICATION Spec
CONSTANTS
    p1 = p1
    p2 = p2
    p3 = p3
    idleproc = idleproc
    initproc = initproc
    NULL = NULL
    UserPid <- ThreeUsers
    MAX_PROCESS = 5
    TICK_NUM = 2
    NKStack = 4
    Failures <- AllFailures
SYMMETRY UserSymmetry
INVARIANTS
    TableAgrees
    FamilyLinks
    ChildrenListed
    NoOrphans
    NoLostWakeup
    SomeoneRunnable
    InitAsserts
    StacksBounded
PROPERTIES
    ImplementsProcessTree
