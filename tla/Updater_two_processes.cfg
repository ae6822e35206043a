\* The runner and `tumika update` at the same time, and nothing fails.
SPECIFICATION Spec
CONSTANTS
    Builds <- ThreeBuilds
    Installed = 1
    SchemaOf <- SchemaFlat
    Bad = {}
    MaxBootAttempts = 3
    Handlers = {}
    Clis = {cli}
    Faults = {}
    MaxFaults = 0
INVARIANTS
    FallbackKept
CHECK_DEADLOCK FALSE
