SPECIFICATION ApiSpec
CONSTANTS
    w1 = w1  w2 = w2  f1 = f1  alice = alice  bob = bob  p1 = p1
    Workers <- OneWorker
    FileIds <- OneFile
    Sites <- QuietSite
    Users <- Both
    Callers <- OnlyAlice
    Owner <- AliceOwns
    PermIds <- OneRow
    GrantLevels <- ReadOnly
    Durations <- ShortOrNever
    Lag = 1
    Stay = 1
    MaxTime = 2
CHECK_DEADLOCK FALSE
INVARIANT OwnerMayDownload
