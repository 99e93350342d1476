SPECIFICATION Spec
CONSTANTS
    c1 = c1
    w1 = w1
    w2 = w2
    keeper = keeper
    A = A
    B = B
    Candidates = {c1}
    Captures = {c1}
    CaptureOf <- OwnCapture
    Workers = {w1, w2}
    Keeper = keeper
    YesVerdicts = {A, B}
    Horizon = 2
    LeaseTime = 1
    CooldownTime = 1
    RetryTime = 1
    TTL = 2
    MaxFaults = 0
    MaxAttempts = 2
    AttemptBound = 2
    MaxAccepts = 2
CHECK_DEADLOCK FALSE
SYMMETRY Symmetry
INVARIANTS BodyCustody LedgerBeforeIntent OneVerdict
PROPERTIES AttachedResultStands ImplementsCustody
