SPECIFICATION Spec
CONSTANTS
    Sectors = 2
    Payloads = {p1, p2}
    StaleLsns = {2}
    InOrder = TRUE
    IoErrors = FALSE
    MaxLsn = 4
    MaxGen = 6
INVARIANTS TypeOK AckedRecovered RecoveredInSequence LsnNeverReused WindowIntact
PROPERTY ImplementsDurableLog
