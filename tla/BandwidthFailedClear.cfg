SPECIFICATION BwFairSpec
CONSTANTS
    p1 = p1
    p2 = p2
    Peers <- MCPeers
    Hint <- Colliding
    Slots = 10
    Limits <- MCLimits
    MaxBwEdits = 3
    MaxBwFaults = 2
    BwFaults = {"command"}
PROPERTIES StaleRemoved
