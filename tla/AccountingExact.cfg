SPECIFICATION Spec
CONSTANTS
    Pub = {a, b}
    NoPub = NoPub
    MaxId = 2
    MaxBytes = 2
    Limits = {1}
    Handler = {h1}
    Ops = {"patch"}
    Faults = {"restart", "list", "backend"}
SYMMETRY KeySymmetry
INVARIANTS BilledExactlyOnce
