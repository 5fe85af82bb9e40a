SPECIFICATION Spec
CONSTANTS
    a1 = a1  a2 = a2  c1 = c1  c2 = c2  alice = alice  l1 = l1  l2 = l2
    NoDid = NoDid  NoClaim = NoClaim  Malformed = Malformed
    Accounts <- OneAccount
    Proprietaire = a1
    Callers <- TwoCallers
    Users <- OneUser
    Logins <- OneLogin
    Lifespan = 1
    MaxTxs = 3
    MaxLives = 2
    MaxTime = 3
CHECK_DEADLOCK FALSE
INVARIANTS TypeOK RegistryConsistent SessionsRestOnChain
PROPERTIES ServiceIsLife RevokedForEver RevocationLands
