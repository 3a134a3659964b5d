SPECIFICATION FairSpec
CONSTANTS
    DBs = {"timeseries"}
    Peer = {1, 2}
    Deleted = {2}
    Reset = {1}
    Legacy = {1, 3}
    Bucket = 4
    Slice = 4
    Raw = 4
    Windows = {4, 8}
    Retention = 12
    Instants = {5, 6, 9, 14}
    MaxPasses = 3
    MaxFaults = 1
CHECK_DEADLOCK FALSE
INVARIANTS TypeOK ThinnedToOne WindowBounds
PROPERTIES WalSettles
