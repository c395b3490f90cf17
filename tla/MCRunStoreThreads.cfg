SPECIFICATION Spec
CONSTANTS
    th1 = th1
    th2 = th2
    i1 = i1
    i2 = i2
    i3 = i3
    first = first
    second = second
    NoThread = NoThread
    Threads <- MCThreads
    Ids <- MCIds
    Owners <- MCOwners
    Capacity = 2
    MaxPuts = 3
INVARIANTS
    StoreIsLatest
    FetchSeesWholePuts
PROPERTIES
    ImplementsRunStore
    LockComesBack
