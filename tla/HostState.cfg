SPECIFICATION FairSpec
CONSTANTS
    wg0 = wg0
    wg1 = wg1
    any = any
    h0 = h0
    h1 = h1
    Iface = {wg0, wg1}
    NoIface = NoIface
    Default = {any}
    Host = {h0, h1}
    Canonical = {h0, h1}
    Rows <- MCRows
    MaxEdits = 3
    MaxFaults = 2
    Faults = {"add", "del", "list", "apply", "clear", "linkLost", "restart"}
INVARIANTS MemoryIsExact
PROPERTIES RoutesSettle ResumedIsReachable
