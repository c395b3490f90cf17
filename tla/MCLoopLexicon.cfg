SPECIFICATION Spec
CONSTANTS
    t1 = t1
    t2 = t2
    t3 = t3
    long = long
    c1 = c1
    c2 = c2
    onT1 = onT1
    onT2 = onT2
    off = off
    empty = empty
    NoCitation = NoCitation
    Terms <- MCTerms
    Texts <- MCTexts
    TextTerms <- MCTextTerms
    Chunks <- MCChunks
    Blank <- MCBlank
    SubQuestions <- MCSubQuestions
    QuestionText <- MCQuestionText
    TermsText <- MCTermsText
    TooLong <- MCTooLong
    Plans <- MCPlans
    Results <- MCResults
    Runs <- MCRuns
INVARIANTS
    OnlyToolErrorsEscape
