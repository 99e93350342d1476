SPECIFICATION Spec
CONSTANTS
    Machines = {"m1", "m2"}
    Events = {"e1", "e2"}
    Author <- MCAuthor
    Shown = {"e1", "e2"}
    Paths <- MCPaths
    MaxRaces = 1
    SyncFaults = 1
    Publishers = {"p1"}
    Readers = {"r1"}
    MaxVersion = 2
    MaxCli = 2
    ProjectionFaults = 1
    Tree <- MCTree
    Allowed = {"r1", "r2", "k"}
    Keys = {"k"}
    Forbidden = {"k", "n"}
    MaxMoves = 1
    PublicationFaults = 2
    Workflows = {"ci", "security"}
    Receipts = {"security_remediation"}
    Producer <- MCProducer
    Kinds = {"security", "production"}
    MaxCommits = 2
    MaxRuns = 3
    MaxFiles = 4
    Sessions = {"s1", "s2", "s3"}
    Arm <- MCArm
    Minimum = 1
    MaxPrompts = 1
    MaxOutcomes = 2
    MaxEdits = 1
    ExperimentFaults = 1
CHECK_DEADLOCK FALSE
INVARIANTS HookArmAgrees
