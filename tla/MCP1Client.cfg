SPECIFICATION Spec
CONSTANTS
    c1 = c1
    c2 = c2
    x = x
    y = y
    Chunks <- MCChunks
    Ranks <- MCRanks
    Texts <- MCTexts
    MaxCitations = 3
    TopKs <- MCTopKs
    Statuses <- MCStatuses
    Pieces <- MCPieces
    MaxBytes = 3
INVARIANTS
    TypeOK
    PassagesAreBest
    EmptyIsExplained
PROPERTIES
    CallEnds
\* A call ends.
CHECK_DEADLOCK FALSE
