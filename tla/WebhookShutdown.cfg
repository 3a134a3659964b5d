SPECIFICATION Spec
CONSTANTS
    Emitter = {g1}
    QueueSize = 2
    Wanted = {1, 2}
    MaxEvents = 2
PROPERTIES CloseFindsWorker
