----------------------------- MODULE BoundedRun -----------------------------
(***************************************************************************)
(* What a caller of run_research is promised, and nothing about how: a run *)
(* spends at most its budget of retrievals, only ever adds to what it has  *)
(* found, and ends once -- in an answer, a refusal or an exhausted budget, *)
(* each citing exactly what was found -- or is abandoned by an exception   *)
(* that leaves no outcome.                                                 *)
(***************************************************************************)
EXTENDS Naturals

CONSTANTS Budgets,  \* the retrieval budgets a caller may set
          Chunks    \* the chunk ids a backend may return

VARIABLES budget,   \* retrievals this run may spend
          phase,    \* "running", an outcome, or "abandoned"
          spent,    \* retrievals spent
          found,    \* chunk ids retrieved so far
          cited     \* chunk ids the report cites

vars == <<budget, phase, spent, found, cited>>

Outcome == {"done", "refused", "budget_exhausted"}

Init ==
    /\ budget \in Budgets
    /\ phase = "running"
    /\ spent = 0
    /\ found = {}
    /\ cited = {}

\* One retrieval returns some chunks, known ones included.
Gather ==
    /\ phase = "running"
    /\ spent < budget
    /\ spent' = spent + 1
    /\ \E new \in SUBSET Chunks : found' = found \cup new
    /\ UNCHANGED <<budget, phase, cited>>

\* Only a refusal may come without evidence.
End ==
    /\ phase = "running"
    /\ phase' \in Outcome
    /\ found = {} => phase' = "refused"
    /\ cited' = found
    /\ UNCHANGED <<budget, spent, found>>

Abandon ==
    /\ phase = "running"
    /\ phase' = "abandoned"
    /\ UNCHANGED <<budget, spent, found, cited>>

Next == Gather \/ End \/ Abandon

Spec == Init /\ [][Next]_vars /\ WF_vars(End \/ Abandon)
=============================================================================
