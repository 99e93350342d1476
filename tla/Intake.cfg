SPECIFICATION FairSpec
CONSTANTS
    Agents = {"a1", "a2"}
    Keys = {"k1", "k2"}
    Turns = {"t1"}
    MaxPerSession = 1
    CaptureFaults = 2
    Contents <- MCContents
    Private = {"p"}
    Missing = Missing
    SourceChanges = 1
    SourceFaults = 1
    Live = {"p"}
    Maint = {"m"}
    Targets = {"t", "u"}
    OwnCaptures = {"t"}
    CloseoutFaults = 1
    HookCalls = {"h1"}
    Maintenance = "m"
    OperationChanges = 2
    OperationFaults = 1
    Machines = {"m1"}
    Events = {"e1"}
    Owner <- MCOwner
    Readers <- MCReaders
    TeamFaults = 2
    HelperFaults = 3
CHECK_DEADLOCK FALSE
INVARIANTS ObservedIsStoredOnce ReportIsDurable
PROPERTIES CloseoutIsProven IncidentsAreTrue ForeignIsKept IntakeProgresses
