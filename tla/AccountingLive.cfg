SPECIFICATION FairSpec
CONSTANTS
    Pub = {a, b}
    NoPub = NoPub
    MaxId = 1
    MaxBytes = 1
    Limits = {1}
    Handler = {h1}
    Ops = {"delete", "suspend", "patch", "reset", "rotate", "expire"}
    Faults = {"recreate", "list"}
INVARIANTS TypeOK SnapshotCurrent
PROPERTIES QuotaEnforced SuspendedIsCutOff
