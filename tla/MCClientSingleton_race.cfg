SPECIFICATION Spec
CONSTANTS
    t1 = t1  t2 = t2  t3 = t3
    Threads <- ThreeThreads
INVARIANTS TypeOK BareOnlyInRace BucketBehindInstance
PROPERTY BareEnds
