SPECIFICATION FairSpec
CONSTANTS
    Name = {wg0, mesh0}
    Reserved = {mesh0}
    Handler = {h1}
    MaxWrites = 3
    MaxFaults = 1
    Ops = {"create", "update", "delete", "import", "export"}
    Faults = {"ensure", "setup", "export", "remove", "devices", "list", "linkLost", "restart"}
INVARIANTS TypeOK ReservedUntouched NoOrphanLink
PROPERTIES AppliedInOrder HookOrder Converges
