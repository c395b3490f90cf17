SPECIFICATION Spec
CONSTANTS
    MaxSubmissions = 3
    Lengths <- MCLengths
INVARIANTS
    TypeOK
    PageShowsOneRun
    NoSilentEnd
PROPERTIES
    WaitsEnd
\* The bound on submissions ends every behaviour.
CHECK_DEADLOCK FALSE
