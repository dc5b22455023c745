\* As many places as results: nothing is ever evicted.
CONSTANTS
    Ids = {i1, i2, i3}
    Sizes = {1, 3}
    MaxBytesPerResult = 2
    MaxBytesTotal = 2
    MaxEntries = 3
    Ttl = 1
    MaxTime = 2
    Rows = 2
    MaxFetches = 2
SPECIFICATION Spec
SYMMETRY IdSymmetry
INVARIANTS CursorHonoured
\* Once every id is used and every row read nothing is left to do.
CHECK_DEADLOCK FALSE
