SPECIFICATION AdoptSpec
CONSTANTS
    Pub = {a}
    NoPub = NoPub
    MaxId = 2
    MaxBytes = 2
    Limits = {0, 1}
    Handler = {h1}
    Ops = {"delete"}
    Faults = {"restart", "recreate"}
    Overwrites = {TRUE}
INVARIANTS NeverSuspendedByOldBytes
