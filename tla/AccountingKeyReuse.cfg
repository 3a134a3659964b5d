SPECIFICATION Spec
CONSTANTS
    Pub = {a, b}
    NoPub = NoPub
    MaxId = 2
    MaxBytes = 2
    Limits = {0}
    Handler = {h1}
    Ops = {"delete", "rotate", "patch"}
    Faults = {"recreate", "store", "restart"}
SYMMETRY KeySymmetry
INVARIANTS NeverOverbilled
PROPERTIES LifetimeMonotone
