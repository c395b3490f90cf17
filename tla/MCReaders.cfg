SPECIFICATION Spec
CONSTANTS
    w1 = w1
    w2 = w2
    f1 = f1
    f2 = f2
    f3 = f3
    f4 = f4
    NoWord = NoWord
    Filler = Filler
    Words <- MCWords
    NumFiles = 2
    Line <- MCLine
    MaxLines = 7
    Phrases <- MCPhrases
    Limits <- MCLimits
    Folds <- MCFolds
    MaxFragments = 5
    Documents <- MCDocuments
INVARIANTS
    CorpusIsFaithful
    SearchIsBest
    PlanIsUsable
    DriftIsReported
\* A file and a search, a question or an exchange comes to its end.
CHECK_DEADLOCK FALSE
