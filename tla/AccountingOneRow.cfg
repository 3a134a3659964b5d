SPECIFICATION Spec
CONSTANTS
    Pub = {a, b}
    NoPub = NoPub
    MaxId = 1
    MaxBytes = 2
    Limits = {1}
    Handler = {h1}
    Ops = {"delete", "suspend", "patch", "reset", "rotate", "expire"}
    Faults = {"restart", "recreate", "store", "list", "backend"}
SYMMETRY KeySymmetry
INVARIANTS TypeOK SnapshotCurrent NeverOverbilled
PROPERTIES LifetimeMonotone
