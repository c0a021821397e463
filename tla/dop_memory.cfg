CONSTANTS
    Components = {a, p, q}
    Regions = {r1, r2, r3}
    Paranoid = {p, q}
    MaxUsage = 3
    MaxBoundaries = 4
    ListCapacity = 3
    MaxSize = 2
    Word = 8
SPECIFICATION MemorySpec
INVARIANTS QuotaIsExact FreedAfterLastReference
SYMMETRY RegionSymmetry
CHECK_DEADLOCK FALSE
