SPECIFICATION Spec
CONSTANTS
    a1 = a1  a2 = a2  a3 = a3  zero = zero
    Accounts <- ThreeAccounts
    Zero <- zero
    Lifetimes <- PastAndFuture
    MaxFiles = 1
    MaxTime = 3
SYMMETRY AccountSymmetry
CHECK_DEADLOCK FALSE
INVARIANTS TypeOK ViewsAgree EventsTellAll
PROPERTIES AccessGainedFromOwner OwnerLosesOnlyByItself
