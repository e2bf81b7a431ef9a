CONSTANTS
    L = 4
    Byte <- SomeBytes
    Base = {0, 8, 10, 16, 36}
    Directives <- Some
    Unknown <- NotKnown
    Ints <- SomeInts
    Longs <- SomeLongs
    Widths = {0, 2, 5}
    Strings <- SomeStrings
    IntMod = 16
    LongMod = 64
    MAXERROR = 6
    BufSizes = {0, 1, 4}
    SLOB_UNIT = 2
    UPP = 7
    NPage = 4
    Sizes = {1, 4, 8, 10, 12, 29}
    MaxLive = 3
    NULL = NULL
SPECIFICATION LibSpec
INVARIANTS MemoryExact StrtolExact FormatExact HeapExact LargeEnough
