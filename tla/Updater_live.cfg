\* A build that cannot serve, and database writes that fail.
\* Nobody has to start another update, so the system may stop at the newest build.
SPECIFICATION FairSpec
CONSTANTS
    Builds <- FourBuilds
    Installed = 1
    SchemaOf <- SchemaBranched
    Bad = {3}
    MaxBootAttempts = 3
    Handlers = {h1}
    Clis = {}
    Faults = {"db"}
    MaxFaults = 2
INVARIANTS
    GivenUpIsReplaced
PROPERTIES
    KeepsPromise
    ServiceReturns
    InstalledRestarts
CHECK_DEADLOCK FALSE
