------------------------------- MODULE Planner -------------------------------
(***************************************************************************)
(* plan_question of agent/planner.py: a short question is its own plan, a  *)
(* long one is split at its joins and the fragments kept that carry words  *)
(* and were not kept before.  A fragment is its text without the           *)
(* punctuation around it: how it folds, and in which letter case it is.    *)
(***************************************************************************)
EXTENDS Integers, Sequences, FiniteSets

CONSTANTS Folds,       \* folded texts of fragments with a scoring word
          Filler,      \* fragments without one
          MaxFragments \* bound: fragments of a question

Fragment == [fold : Folds \cup {Filler}, case : {"lower", "upper"}]

\* The whole question, trimmed or, if nothing is left of it, as it is.
Whole == [fold |-> "whole", case |-> "lower"]

MaxSubQuestions == 3

VARIABLES planning,  \* none, splitting or planned
          fragments, \* history: the fragments met
          kept

plannerVars == <<planning, fragments, kept>>

PlannerInit ==
    /\ planning = "none"
    /\ fragments = <<>>
    /\ kept = <<>>

PlanShort ==
    /\ planning = "none"
    /\ planning' = "planned"
    /\ kept' = <<Whole>>
    /\ UNCHANGED fragments

PlanLong ==
    /\ planning = "none"
    /\ planning' = "splitting"
    /\ UNCHANGED <<fragments, kept>>

\* A slip: repeats are told apart by their letter case.
SeenExactly(fragment) == \E i \in 1..Len(kept) : kept[i] = fragment

Seen(fragment) == \E i \in 1..Len(kept) : kept[i].fold = fragment.fold

\* The third sub-question ends the split.
TakeFragment ==
    /\ planning = "splitting"
    /\ Len(fragments) < MaxFragments
    /\ \E fragment \in Fragment :
          LET now == IF fragment.fold = Filler \/ Seen(fragment) THEN kept
                     ELSE Append(kept, fragment)
          IN  /\ fragments' = Append(fragments, fragment)
              /\ kept' = now
              /\ planning' = IF Len(now) = MaxSubQuestions THEN "planned" ELSE "splitting"

\* Nothing kept: the whole question is the plan.
EndQuestion ==
    /\ planning = "splitting"
    /\ planning' = "planned"
    /\ kept' = IF kept = <<>> THEN <<Whole>> ELSE kept
    /\ UNCHANGED fragments

PlannerNext == PlanShort \/ PlanLong \/ TakeFragment \/ EndQuestion

-----------------------------------------------------------------------------
(* Properties.                                                             *)

(***************************************************************************)
(* A plan is what the loop takes for granted: one to three sub-questions   *)
(* no two of which fold alike.  It is the question itself, or the first    *)
(* occurrences of its different fragments with words, in their order, up   *)
(* to the third.                                                           *)
(***************************************************************************)
PlanIsUsable ==
    planning = "planned" =>
        LET first == {i \in 1..Len(fragments) :
                         /\ fragments[i].fold # Filler
                         /\ \A j \in 1..(i - 1) : fragments[j].fold # fragments[i].fold}
            rank(i) == Cardinality({j \in first : j <= i})
        IN  /\ Len(kept) \in 1..MaxSubQuestions
            /\ \A i, j \in 1..Len(kept) : i # j => kept[i].fold # kept[j].fold
            /\ IF first = {} THEN kept = <<Whole>>
               ELSE /\ Len(kept) = Cardinality(first)
                    /\ \A i \in first : kept[rank(i)] = fragments[i]
=============================================================================
