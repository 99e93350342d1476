SPECIFICATION FairSpec
CONSTANTS
    c1 = c1
    w1 = w1
    keeper = keeper
    A = A
    Candidates = {c1}
    Captures = {c1}
    CaptureOf <- OwnCapture
    Workers = {w1}
    Keeper = keeper
    YesVerdicts = {A}
    Horizon = 2
    LeaseTime = 1
    CooldownTime = 1
    RetryTime = 1
    TTL = 2
    MaxFaults = 1
    MaxAttempts = 2
    AttemptBound = 2
    MaxAccepts = 2
CHECK_DEADLOCK FALSE
PROPERTIES CandidatesSettle BodiesLeave
