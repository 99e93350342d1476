SPECIFICATION Spec
CONSTANTS
    w1 = w1
    w2 = w2
    c1 = c1
    c2 = c2
    f1 = f1
    f2 = f2
    Workers = {w1, w2}
    Candidates = {c1, c2}
    SettledLocally = {c2}
    Configs = {f1, f2}
    Enabled = {f1}
    Backoff <- TwoBackoff
    MalformedLimit = 1
    DayLength = 2
    Reserve = 1
    PerRun = 1
    PerDay = 2
    PerCandidate = 2
    RetryLimit = 1
    MaxUse = 1
    MaxRetryAfter = 1
    MaxClock = 2
    MaxRequests = 1
SYMMETRY Symmetry
CHECK_DEADLOCK FALSE
INVARIANTS HeldCallsAreAsked HoldReadable LatchIsResumable CallsAreCounted SpendIsCharged
PROPERTIES CallsAreSpaced
