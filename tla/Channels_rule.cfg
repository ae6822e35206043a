\* A host that withholds documents and replays heads, and an operator who changes channel.
\* Once the newest release is installed nothing is left to do: the system may stop.
SPECIFICATION FairSpec
CONSTANTS
    Releases <- SevenReleases
    CutInto <- CutIntoAll
    VersionOf <- VersionsOfAll
    Failing = {5}
    MaxLies = 3
    MaxSwitches = 1
    MaxMishaps = 1
INVARIANTS
    TypeOK
    FloorBelongs
PROPERTIES
    NeverOlder
    ReinstalledInKind
    CatchesUp
CHECK_DEADLOCK FALSE
