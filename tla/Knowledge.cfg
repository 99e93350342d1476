SPECIFICATION FairSpec
CONSTANTS
    Candidates = {"a", "b", "d"}
    Against = {"b"}
    Rich = {"a"}
    Workers = {"w1", "w2"}
    Needed = 2
    JournalFaults = 1
    MaxTime = 4
    Procs = {"p1", "p2", "p3"}
    Kinds = {"age", "pid"}
    NoFile = "none"
    LockFaults = 2
    Publishers = {"p1"}
    Readers = {}
    MaxVersion = 4
    MaxCli = 1
    ProjectionFaults = 1
    MaxRunVersion = 2
    MaxBad = 1
    Slack = 1
    SetupFaults = 2
CHECK_DEADLOCK FALSE
INVARIANTS ExclusiveWithoutFaults PublishedIsReadable
PROPERTIES JournalIsSound RunIsComplete RootIsWhole KnowledgeProgresses
