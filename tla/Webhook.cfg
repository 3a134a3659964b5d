SPECIFICATION FairSpec
CONSTANTS
    Emitter = {g1, g2}
    QueueSize = 2
    Wanted = {1, 2, 4, 5}
    MaxEvents = 5
INVARIANTS TypeOK AtMostOnceInOrder
PROPERTIES AcceptedIsTried CloseTerminates ImplementsQueue
