SPECIFICATION Spec
CONSTANTS
    Pub = {a, b}
    Handler = {h1, h2}
    Editor = {e1, e2}
    Width = 4
    ScanLimit = 4
    MaxEdits = 0
    Addresses <- MCAddresses
    Assigned <- MCAssigned
    Allowed <- MCAllowed
SYMMETRY KeySymmetry
INVARIANTS AllocatedApart
