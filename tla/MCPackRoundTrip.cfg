SPECIFICATION Spec
CONSTANTS
    i1 = i1
    i2 = i2
    q = q
    sep = sep
    o1 = o1
    o2 = o2
    p1 = p1
    p2 = p2
    Derived = Derived
    Absent = Absent
    Torn = Torn
    NoPack = NoPack
    Refused = Refused
    Ids <- MCIds
    Questions <- MCQuestions
    Outcomes <- MCOutcomes
    Separating <- MCSeparating
    Inputs <- MCInputs
    MaxWrites = 2
INVARIANTS
    PackRoundTrips
