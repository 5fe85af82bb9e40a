SPECIFICATION Spec
CONSTANTS
    w1 = w1  w2 = w2  f1 = f1  u1 = u1  u2 = u2  p1 = p1  p2 = p2
    Workers <- OneWorker
    Files <- OneFile
    Users <- TwoUsers
    PermIds <- TwoRows
    GrantLevels <- ReadAdmin
    Needs <- ReadOnly
    Durations <- ShortOrNever
    TTL = 2
    MaxLag = 1
    MaxTime = 2
SYMMETRY RowAndUserSymmetry
CHECK_DEADLOCK FALSE
INVARIANTS CacheCoherent RevocationImmediate
