SPECIFICATION FairSpec
CONSTANTS
    Iface = {1}
    Peer = {1, 2}
    Home <- MCHome
    MaxPending = 2
    MaxEvents = 2
CHECK_DEADLOCK FALSE
INVARIANTS TypeOK OneCallAtATime
PROPERTIES ActsOnTheShown NeverShowsOlder CatchesUp
