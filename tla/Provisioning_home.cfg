\* Without --home and TUMIKA_HOME on Linux: the unit names the system home, and the
\* commands open root's own.
SPECIFICATION Spec
CONSTANTS
    Hosts <- OneServer
    Homes = {"system", "root"}
    ServiceHome = "system"
    CliHome = "root"
    Rotators = {}
    MaxCommands = 1
    MaxFaults = 0
INVARIANTS
    NeverRefused
CHECK_DEADLOCK FALSE
