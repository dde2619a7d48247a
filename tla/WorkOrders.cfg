SPECIFICATION Spec
CONSTANTS
    WorkOrders = {w1, w2, w3}
    Tasks = {t1}
    CheckIns = {1, 2}
    Users = {u1}
    Workers = {k1, k2}
    Dates = {}
    Today = {1}
    Counts = {3}
    Untils = {3}
    Horizons = {3}
    Invalid = Invalid
    None = None
SYMMETRY Symmetry
CONSTRAINT OneOrderOrSeries
INVARIANTS
    TypeOK
    InProgressStarted
PROPERTIES
    TerminalLeftByStale
    NobodyOnEndedOrder
    DeletedNotInProgress
    RequiredDoneAtCompletion
    SpawnsExactlyOne
    ImplementsLifecycle
CHECK_DEADLOCK FALSE
