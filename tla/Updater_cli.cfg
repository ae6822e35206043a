\* The serve process and a `tumika update` beside it, with a mutex of its own.
SPECIFICATION FairSpec
CONSTANTS
    Builds <- ThreeBuilds
    Installed = 1
    SchemaOf <- SchemaFlat
    Bad = {2}
    MaxBootAttempts = 3
    Handlers = {}
    Clis = {cli}
    Faults = {"db", "rename", "kill"}
    MaxFaults = 1
PROPERTIES
    PendingEndsWell
    StoppedIsStarted
CHECK_DEADLOCK FALSE
