SPECIFICATION Spec
CONSTANTS
    w1 = w1  w2 = w2  w3 = w3
    Workers <- OneWorker
    MaxInstant = 9
CHECK_DEADLOCK FALSE
INVARIANT ChainVerifies
