CONSTANTS
    VPage = {1, 2, 3, 4, 5}
    Frame = {1, 2, 3}
    Val = {x, y}
    max_swap_offset = 6
    UInt = 3
    NULL = NULL
SPECIFICATION Spec
INVARIANTS OnlyOffDevice
PROPERTIES FifoPaging
