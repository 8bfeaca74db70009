SPECIFICATION Spec
CONSTANTS
    Sectors = 2
    Payloads = {p1, p2}
    StaleLsns = {}
    InOrder = FALSE
    IoErrors = FALSE
    MaxLsn = 3
    MaxGen = 4
INVARIANTS TornEntryDiscarded
