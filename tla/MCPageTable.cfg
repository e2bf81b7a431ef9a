CONSTANTS
    Frame = {1, 2, 3, 4, 5, 6, 7, 8, 9}
    N = 2
    Areas <- TextBss
    Val = {v0, v1}
    MaxMm = 2
    NULL = NULL
SPECIFICATION LiveSpec
INVARIANTS RefExact NoLeak
PROPERTIES TablesFreed PrivateMemory CallsEnd
