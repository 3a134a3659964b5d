SPECIFICATION FairSpec
CONSTANTS
    DBs = {"timeseries"}
    Peer = {1, 2}
    Deleted = {2}
    Reset = {1}
    Legacy = {1, 3}
    Bucket = 4
    Slice = 4
    Raw = 4
    Windows = {4, 8}
    Retention = 8
    Instants = {5, 8, 11, 13, 15, 17}
    MaxPasses = 4
    MaxFaults = 0
CHECK_DEADLOCK FALSE
INVARIANT WindowCostsOneBucket
