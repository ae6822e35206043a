\* Three requests in two processes, three versions: the pinned one is the oldest.
SPECIFICATION FairSpec
CONSTANTS
    Versions = {1, 2, 3}
    AsksFor <- Asked
    Pinned = 1
    Callers = {"a", "b", "c"}
    ProcessOf <- TwoProcesses
    Retention = 1
    MaxFaults = 1
INVARIANTS
    TypeOK
    OnlyVerified
    OneDownload
    SuccessHonest
    PinnedKept
PROPERTIES
    JoinersAnswered
