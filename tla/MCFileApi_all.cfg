SPECIFICATION ApiSpec
CONSTANTS
    w1 = w1  w2 = w2  f1 = f1  alice = alice  bob = bob  p1 = p1
    Workers <- TwoWorkers
    FileIds <- OneFile
    Sites <- AnySite
    Users <- Both
    Callers <- Both
    Owner <- AliceOwns
    PermIds <- OneRow
    GrantLevels <- ReadDelete
    Durations <- ShortOrNever
    Lag = 2
    Stay = 0
    MaxTime = 3
SYMMETRY Symmetry
CHECK_DEADLOCK FALSE
INVARIANTS ApiTypeOK UploadDurable DownloadableHasKey ListedHasObject
INVARIANTS RightsStayVisible ListingAgrees
PROPERTIES ActsByRight StoreIsLifecycle
