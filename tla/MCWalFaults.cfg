SPECIFICATION Spec
CONSTANTS
    Sectors = 2
    Payloads = {p1, p2}
    StaleLsns = {2}
    InOrder = TRUE
    IoErrors = TRUE
    MaxLsn = 3
    MaxGen = 4
INVARIANTS LsnNeverReused
