SPECIFICATION Spec
CONSTANTS
    Users = {u1}
    Workers = {k1, k2}
    MaxTime = 3
    Lifetime = 2
    MaxRevocations = 1
    None = None
SYMMETRY Symmetry
INVARIANTS
    ExchangedIsRevoked
    LiveSinceLastRevocation
    DeletedIsDisabled
PROPERTIES
    SpentBuysNothing
    TokensForActiveUsers
CHECK_DEADLOCK FALSE
