SPECIFICATION Spec
CONSTANTS
    e1 = e1
    e2 = e2
    short = short
    long = long
    Entries = {e1, e2}
    Contents = {short, long}
    Size <- Lengths
    ShardOf <- OwnShard
    Expiring = {short, long}
    Updates = FALSE
    Limit = 1
SYMMETRY Symmetry
CHECK_DEADLOCK FALSE
INVARIANTS HaltIsExplained
