SPECIFICATION Spec
CONSTANTS
    stream = stream
    call1 = call1
    call2 = call2
    id1 = id1
    id2 = id2
    Requests <- MCRequests
    Streams <- MCStreams
    Ids <- MCIds
    IdOf <- MCIdOf
    Lengths <- MCLengths
    QueueCapacity = 3
    StoreCapacity = 1
INVARIANTS
    TypeOK
    StreamIsTheRun
    ToldMeansFetchable
    CountsMatchStore
PROPERTIES
    ReaderIsAnswered
    OnlyOverflowStrands
\* Every request is served and the system stops; a stranded worker stops too.
CHECK_DEADLOCK FALSE
