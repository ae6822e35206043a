\* Up to three processes at once on a host without a key, or with one; one at a time, killed
\* and started again, over an empty file.  Once every key was minted a further first run has
\* none to mint, which is the bound's doing and not the code's.
SPECIFICATION Spec
CONSTANTS
    Processes = {p1, p2, p3}
    Keys = {k1, k2, k3, k4}
    Stores = {"file", "blob"}
    Debris <- OneAtATime
SYMMETRY Symmetric
INVARIANTS
    Agreed
    LoserLoads
