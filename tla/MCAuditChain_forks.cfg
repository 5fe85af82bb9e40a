SPECIFICATION Spec
CONSTANTS
    w1 = w1  w2 = w2  w3 = w3
    Workers <- ThreeWorkers
    MaxInstant = 9
SYMMETRY WorkerSymmetry
CHECK_DEADLOCK FALSE
INVARIANTS TypeOK ForkBounded
PROPERTY ChainIsLedger
