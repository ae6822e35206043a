\* One removal of .old that fails; everything else works.
SPECIFICATION Spec
CONSTANTS
    Builds <- ThreeBuilds
    Installed = 1
    SchemaOf <- SchemaFlat
    Bad = {}
    MaxBootAttempts = 3
    Handlers = {h1}
    Clis = {}
    Faults = {"rename"}
    MaxFaults = 1
INVARIANTS
    RestoresReplaced
CHECK_DEADLOCK FALSE
