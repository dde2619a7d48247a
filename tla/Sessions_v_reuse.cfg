SPECIFICATION Spec
CONSTANTS
    Users = {u1}
    Workers = {k1}
    MaxTime = 3
    Lifetime = 2
    MaxRevocations = 1
    None = None
SYMMETRY Symmetry
PROPERTIES
    ReuseRevokesAll
CHECK_DEADLOCK FALSE
