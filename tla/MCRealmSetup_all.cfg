SPECIFICATION Spec
CONSTANTS
    o1 = o1  o2 = o2  NoUser = NoUser
    Operators <- TwoOperators
    MaxFailures = 2
SYMMETRY OperatorSymmetry
INVARIANTS TypeOK CleanRunConfigures
PROPERTY NothingTakenBack
