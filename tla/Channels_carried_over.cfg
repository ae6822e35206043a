\* Two releases that ship the same daemon, an honest host.
SPECIFICATION Spec
CONSTANTS
    Releases <- TwoReleases
    CutInto <- CutIntoStable
    VersionOf <- VersionsCarried
    Failing = {}
    MaxLies = 0
    MaxSwitches = 0
    MaxMishaps = 0
PROPERTIES
    NeverReinstalled
CHECK_DEADLOCK FALSE
