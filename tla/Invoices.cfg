SPECIFICATION Spec
CONSTANTS
    Invoices = {i1, i2}
    Jobs = {j1, j2}
    JobPrice = 1
    Subtotals = {1}
    Rates = {0, 1}
    Discounts = {0, 2}
    Amounts = {0, 1}
    MaxReceived = 2
    Workers = {k1, k2}
SYMMETRY Symmetry
CONSTRAINT OneInvoiceOrAmount
INVARIANTS
    NumbersGapless
PROPERTIES
    
    StatusTellsMoney
    NoneAlreadyInvoiced
    ImplementsLedger
CHECK_DEADLOCK FALSE
