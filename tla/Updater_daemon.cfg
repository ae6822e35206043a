\* One serve process, its runner and two concurrent requests, every kind of failure.
\* A kill between Apply's two renames leaves no binary to start: the system stops.
SPECIFICATION Spec
CONSTANTS
    Builds <- FourBuilds
    Installed = 1
    SchemaOf <- SchemaBranched
    Bad = {3}
    MaxBootAttempts = 3
    Handlers = {h1, h2}
    Clis = {}
    Faults = {"kill", "rename", "db", "reply", "grace"}
    MaxFaults = 4
INVARIANTS
    TypeOK
    FallbackKept
    UnprovenOnRecord
    ConfirmedIsInstalled
    SchemaFits
PROPERTIES
    FallbackSpent
CHECK_DEADLOCK FALSE
