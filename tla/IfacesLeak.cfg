SPECIFICATION FairSpec
CONSTANTS
    Name = {wg0}
    Reserved = {}
    Handler = {}
    MaxWrites = 1
    MaxFaults = 1
    Ops = {"create", "delete"}
    Faults = {"remove", "restart"}
PROPERTIES DeletedIsRemoved
