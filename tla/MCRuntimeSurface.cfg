SPECIFICATION Spec
CONSTANTS
    r1 = r1
    r2 = r2
    r3 = r3
    c1 = c1
    c2 = c2
    NoId = NoId
    Requests <- MCRequests
    CallerIds <- MCCallerIds
    Asks <- MCAsks
    Capacity = 1
SYMMETRY Interchangeable
INVARIANTS
    TypeOK
    EnvelopeIsCorrelated
    CountsAddUp
    FetchTellsHistory
    AnswersAgree
\* Every request is answered and the system stops.
CHECK_DEADLOCK FALSE
