SPECIFICATION Spec
CONSTANTS
    e1 = e1
    e2 = e2
    short = short
    long = long
    Entries = {e1, e2}
    Contents = {short, long}
    Size <- Lengths
    ShardOf <- OneShard
    Expiring = {long}
    Updates = TRUE
    Limit = 1
SYMMETRY Symmetry
CHECK_DEADLOCK FALSE
INVARIANTS ChargesCover CapacityIsEvidence HaltIsExplained
PROPERTY RefundsNeedEvidence
