SPECIFICATION Spec
CONSTANTS
    stream = stream
    call1 = call1
    call2 = call2
    id1 = id1
    id2 = id2
    Requests <- MCStreams
    Streams <- MCStreams
    Ids <- MCIds
    IdOf <- MCOneIdOf
    Lengths <- MCLongest
    QueueCapacity = 256
    StoreCapacity = 32
INVARIANTS
    DisconnectedRunFinishes
CHECK_DEADLOCK FALSE
