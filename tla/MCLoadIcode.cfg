CONSTANTS
    PGSIZE = 3
    USERBASE = 3
    USERTOP = 24
    Top = 27
    STACKPAGES = 2
    STACKMAPPED = 1
    MayFail = TRUE
    Binaries <- OneOrTwo
    NULL = NULL
SPECIFICATION Spec
INVARIANTS ImageExact FailsCleanly
