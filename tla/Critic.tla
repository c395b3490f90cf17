------------------------------- MODULE Critic -------------------------------
(***************************************************************************)
(* The sufficiency test of agent/critic.py, as operators on a note store.  *)
(*                                                                         *)
(* A note is a claim and the chunk it was lifted from; a claim is known    *)
(* here only by its scoring terms (keyword_terms of the claim and of the   *)
(* headings it sits under).  The wording of a gap's detail is left out.    *)
(***************************************************************************)
EXTENDS Integers, FiniteSets

CONSTANTS Terms,      \* the scoring terms a question or a passage may carry
          Texts,      \* passage texts, each with the heading it sits under
          TextTerms,  \* TextTerms[x]: the scoring terms of text x
          NoCitation  \* citation of a note that no chunk backs

ASSUME TermsAssumption ==
    /\ IsFiniteSet(Terms)
    /\ TextTerms \in [Texts -> SUBSET Terms]

\* Score at or above which the evidence is enough to answer from.
SufficientScore == 3

GapKind == {"no_evidence", "unanswered_sub_question", "uncovered_terms",
            "ungrounded_notes", "thin_evidence"}

Grounded(notes) == {n \in notes : n.citation # NoCitation}

Covered(wanted, notes) ==
    wanted \cap UNION {TextTerms[n.claim] : n \in Grounded(notes)}

Missing(wanted, notes) == wanted \ Covered(wanted, notes)

\* Grounded notes that share a term with the question; all of them when the
\* question has no scoring term.
Relevant(wanted, notes) ==
    {n \in Grounded(notes) : wanted = {} \/ TextTerms[n.claim] \cap wanted # {}}

\* A slip: the covered terms are left out of the score.
RelevantOnlyScore(wanted, notes) == Cardinality(Relevant(wanted, notes))

Score(wanted, notes) ==
    Cardinality(Covered(wanted, notes)) + Cardinality(Relevant(wanted, notes))

Sufficient(wanted, notes) ==
    /\ Score(wanted, notes) >= SufficientScore
    /\ Relevant(wanted, notes) # {}

\* The critic asks for a review of the notes when several of them answer.
RequestsNotesSearch(wanted, notes) ==
    /\ Sufficient(wanted, notes)
    /\ Cardinality(Relevant(wanted, notes)) > 1

\* The kinds of hole the critic names; `unanswered` is the set of sub-questions
\* that were retrieved for and returned nothing.
Gaps(wanted, notes, unanswered) ==
    LET Named(kind) ==
          \/ kind = "no_evidence" /\ notes = {} /\ unanswered = {}
          \/ kind = "unanswered_sub_question" /\ unanswered # {}
          \/ kind = "uncovered_terms" /\ Missing(wanted, notes) # {}
          \/ kind = "ungrounded_notes" /\ Grounded(notes) # notes
          \/ kind = "thin_evidence" /\ notes # {} /\ Missing(wanted, notes) = {}
    IN  IF Sufficient(wanted, notes) THEN {} ELSE {k \in GapKind : Named(k)}
=============================================================================
