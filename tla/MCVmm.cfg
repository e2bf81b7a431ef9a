CONSTANTS
    Mm = {x, y}
    PGSIZE = 2
    USERBASE = 2
    USERTOP = 10
    Top = 12
    STACKPAGES = 2
    MaxVma = 3
    MaxLen = 5
    NULL = NULL
SYMMETRY Symm
SPECIFICATION Spec
INVARIANTS Sorted UserMemCheckExact ForkCopies AllowedAccessServed
