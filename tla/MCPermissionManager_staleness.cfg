SPECIFICATION Spec
CONSTANTS
    w1 = w1  w2 = w2  f1 = f1  u1 = u1  u2 = u2  p1 = p1  p2 = p2
    Workers <- TwoWorkers
    Files <- OneFile
    Users <- OneUser
    PermIds <- OneRow
    GrantLevels <- ReadWrite
    Needs <- ApiNeeds
    Durations <- NegativeOrShort
    TTL = 2
    MaxLag = 1
    MaxTime = 4
SYMMETRY AllSymmetry
CHECK_DEADLOCK FALSE
INVARIANTS TypeOK AllowedJustified DeniedJustified AuditFaithful
PROPERTY AnswersFromTheTable
