SPECIFICATION Spec
CONSTANTS
    Pub = {a, b}
    NoPub = NoPub
    MaxId = 1
    MaxBytes = 1
    Limits = {0}
    Handler = {h1}
    Ops = {"rotate"}
    Faults = {}
INVARIANTS RotatedShowsZero
