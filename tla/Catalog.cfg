SPECIFICATION Spec
CONSTANTS
    Clients = {c1, c2}
    Codes = {x1, x2}
    Locations = {l1, l2}
    Tokens = {q0, q1}
    Blank = q0
    WorkOrders = {w1, w2}
    Workers = {k1, k2}
    None = None
SYMMETRY Symmetry
CONSTRAINT OnePair
INVARIANTS
    TypeOK
    ClashExplained
    DeletedPlacesIdle
CHECK_DEADLOCK FALSE
