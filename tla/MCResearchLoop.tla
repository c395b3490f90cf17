--------------------------- MODULE MCResearchLoop ---------------------------
(***************************************************************************)
(* A small instance of ResearchLoop: a question of three scoring terms (or *)
(* of one, of one that is too long to look up, or of none), two chunks     *)
(* that may come back with any text, and plans that coincide with the      *)
(* question and with some of its terms.                                    *)
(***************************************************************************)
EXTENDS ResearchLoop

CONSTANTS t1, t2, t3,            \* scoring terms; no text is on t3
          long,                  \* a term longer than a lexicon request
          c1, c2,                \* chunk ids
          onT1, onT2, off, empty \* texts: on a term, off topic, no words

MCTerms == {t1, t2, t3, long}
MCWanted == {t1, t2, t3}
MCTexts == {onT1, onT2, off, empty}
MCTextTerms == [x \in MCTexts |-> CASE x = onT1 -> {t1}
                                    [] x = onT2 -> {t2}
                                    [] OTHER -> {}]
MCChunks == {c1, c2}
MCBlank == {empty}

MCQuestionText == <<"question">>
MCTermsText == [S \in SUBSET MCTerms |-> <<"terms", S>>]
Fragment(i) == <<"fragment", i>>
MCSubQuestions ==
    {MCQuestionText, Fragment(1), Fragment(2)} \cup {<<"terms", S>> : S \in SUBSET MCTerms}
MCTooLong == {MCTermsText[S] : S \in {T \in SUBSET MCTerms : long \in T}}

\* A short question is its own plan, or its plan is what the trimming leaves;
\* a long one has several fragments, one of which may be a bare term.
MCPlans == {<<MCQuestionText>>, <<Fragment(1)>>, <<<<"terms", MCWanted>>>>,
            <<Fragment(1), Fragment(2)>>, <<Fragment(1), <<"terms", {t2, t3}>>>>}

MCPassage == [chunk : MCChunks, text : MCTexts]
MCResults ==
    {<<>>} \cup {<<p>> : p \in MCPassage}
    \cup {<<[chunk |-> c1, text |-> x], [chunk |-> c, text |-> y]>> :
              c \in MCChunks, x \in {onT1, off, empty}, y \in {onT1, onT2}}

Config(wanted, maxSteps, retrieve, search, lexicon, tools) ==
    [wanted |-> wanted, maxSteps |-> maxSteps,
     cap |-> [t \in Tool |-> CASE t = "retrieve" -> retrieve
                               [] t = "search_notes" -> search
                               [] t = "lexicon" -> lexicon],
     notesTool |-> tools, lexiconTool |-> tools]

\* Step budgets at the minimum, binding and never binding; caps that are the
\* defaults, explicit zeros, negative, or below the step budget.
MCRuns ==
    {Config(w, n, n, 4, 2, TRUE) : w \in {{}, {t1}, MCWanted}, n \in {1, 2, 20}}
    \cup {Config(MCWanted, 4, r, s, l, TRUE) : r \in {0, 2}, s \in {0, 1}, l \in {-1, 1}}
    \cup {Config({long}, 2, 4, 0, 2, TRUE), Config(MCWanted, 2, 4, 0, 0, TRUE),
          Config(MCWanted, 2, 4, 4, 2, FALSE)}

=============================================================================
