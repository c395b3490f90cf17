------------------------------- MODULE MCPack -------------------------------
(***************************************************************************)
(* Packs that differ in their policy only, in their records only, in the   *)
(* order of their runs, and one whose question holds a separator; enough   *)
(* writes for one pack to be written over the rest of another.             *)
(***************************************************************************)
EXTENDS Pack

CONSTANTS i1, i2, q, sep, o1, o2, p1, p2

MCIds == {i1, i2}
MCQuestions == {q, sep}
MCSeparating == {sep}
MCOutcomes == {o1, o2}

Run(id, question, outcome) == [id |-> id, question |-> question, outcome |-> outcome]
RunA == Run(i1, q, o1)
RunB == Run(i2, q, o2)
Input(policy, left, right, experiments) ==
    [policy |-> policy, left |-> left, right |-> right, experiments |-> experiments]

MCInputs ==
    {Input(p1, RunA, RunB, Derived),
     Input(p2, RunA, RunB, Derived),
     Input(p1, RunA, RunB, <<ExperimentRecord(RunA)>>),
     Input(p1, RunA, RunB, <<>>),
     Input(p1, RunB, RunA, Derived),
     Input(p1, RunA, Run(i2, sep, o2), Derived)}
=============================================================================
