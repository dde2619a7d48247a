SPECIFICATION FairSpec
CONSTANTS
    Calls = {c1, c2, c3}
    MaxLogins = 1
INVARIANTS
    TypeOK
    SingleFlight
    RefusedWithNewer
PROPERTIES
    EveryCallSettles
CHECK_DEADLOCK FALSE
