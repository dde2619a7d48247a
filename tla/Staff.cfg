SPECIFICATION Spec
CONSTANTS
    Tenants = {n1, n2}
    Emails = {e1, e2}
    Users = {u1, u2, u3}
    Crews = {c1, c2}
    Codes = {x0, x1}
    Blank = x0
    Workers = {k1, k2}
    None = None
SYMMETRY Symmetry
CONSTRAINT Small
INVARIANTS
    TypeOK
    ClashExplained
PROPERTIES
    AdminGoesForGood
    LoginKept
CHECK_DEADLOCK FALSE
