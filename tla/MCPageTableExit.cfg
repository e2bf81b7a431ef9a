CONSTANTS
    Frame = {1, 2, 3, 4, 5, 6, 7, 8, 9}
    N = 2
    Areas <- TextBss
    Val = {v0}
    MaxMm = 1
    NULL = NULL
SPECIFICATION Spec
PROPERTY DirectoryFreedEmpty
