SPECIFICATION Spec
CONSTANTS
    Hosts = {"h1", "h2"}
    Selections <- MCSelections
    Kind <- MCKind
    InstallerFaults = 2
    MaxSetups = 2
    Actions = {"a1", "a2"}
    Interval = 2
    Allowance = 1
    SchedulerFaults = 2
    SchedulerTime = 7
    Paths = {1, 2}
    Contents = {"a", "b", "bad", "art"}
    ClassOf <- MCClassOf
    RecordsOf <- MCRecordsOf
    KindOf <- MCKindOf
    ImportEdits = 1
    ImportFaults = 2
    Authorised = 2
    RootEdits = 2
    RootFaults = 2
    Procs = {"doctor", "setup"}
    Required = {"start", "stop"}
    Outcomes = {"SENT", "FAILED"}
    Fallback = FALSE
    Ttl = 1
    ActivationTime = 2
    MaxChanges = 1
    MaxStarts = 2
    ActivationFaults = 1
CHECK_DEADLOCK FALSE
PROPERTIES RollbackUndoes
