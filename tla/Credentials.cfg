\* Two requests at a time, against both providers.
SPECIFICATION Spec
CONSTANTS
    Cli = {"claude"}
    Http = {"api"}
    t1 = t1
    t2 = t2
    k1 = k1
    Secrets = {t1, t2, k1}
    ShapeOf <- Prefixes
    Ids = {1, 2, 3}
    Callers = {a, b}
    MaxFaults = 1
SYMMETRY Symmetric
INVARIANTS
    TypeOK
    OneLive
    VerdictsEarned
    MetaHonest
PROPERTIES
    CredentialKept
    RevokedStays
    KeepsPromise
