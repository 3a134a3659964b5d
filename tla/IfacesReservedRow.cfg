SPECIFICATION Spec
CONSTANTS
    Name = {wg0, mesh0}
    Reserved = {mesh0}
    Handler = {}
    MaxWrites = 2
    MaxFaults = 0
    Ops = {"create", "delete", "import"}
    Faults = {}
INVARIANTS ReservedNeverOwned
