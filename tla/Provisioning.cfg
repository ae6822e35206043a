\* One install at a time and a rotation beside it, in one home, on five kinds of host.
\* Nobody has to run another command: the system may stop once MaxCommands were.
SPECIFICATION FairSpec
CONSTANTS
    Hosts <- FiveHosts
    Homes = {"system", "root"}
    ServiceHome = "system"
    CliHome = "system"
    Rotators = {"rotate"}
    MaxCommands = 3
    MaxFaults = 2
INVARIANTS
    TypeOK
    Readable
    NeverRefused
    AcceptedIsShown
    CustodyAgrees
    RunsInstalled
PROPERTIES
    InstalledServes
    KeepsPromise
CHECK_DEADLOCK FALSE
