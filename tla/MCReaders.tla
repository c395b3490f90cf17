------------------------------ MODULE MCReaders ------------------------------
(***************************************************************************)
(* Three parts that read one input from its beginning to its end and share *)
(* nothing, one at a time.                                                 *)
(*                                                                         *)
(* Corpus: one file of three passages or two files of one each fit, over   *)
(* two words.  Planner: questions of five fragments, so that a repeat, a   *)
(* filler and a fourth fit.  P1Contract: documents that deviate in any two *)
(* ways that can hold at once.                                             *)
(***************************************************************************)
EXTENDS Corpus, Planner, P1Contract

CONSTANTS w1, w2, f1, f2, f3, f4

MCWords == {w1, w2}
MCFolds == {f1, f2, f3, f4}
MCLine == [kind : {"section", "text"}, word : MCWords]
              \cup {[kind |-> "title", word |-> w1], [kind |-> "deeper", word |-> w2],
                    [kind |-> "blank", word |-> NoWord]}
MCPhrases == {<<w1>>, <<w2, w1>>, <<NoWord>>, <<NoWord, w2>>}
MCLimits == {1, 2}
\* Nothing else happens to a part that is gone; but a schema can require a question
\* it does not describe, or describe one no longer and not require it either.
MCAlone(d, e) == d[1] = "gone" /\ d[2] = e[2] /\ d # e /\ e # <<"optional", "question">>
MCDocuments == {{}} \cup {{d, e} : <<d, e>> \in {p \in Deviation \X Deviation :
                                          ~MCAlone(p[1], p[2]) /\ ~MCAlone(p[2], p[1])}}

Init == CorpusInit /\ PlannerInit /\ ContractInit

NoFile == state = "reading" /\ LinesRead = 0
NoQuestion == planning = "none"
NoDocument == document = {} /\ exchange = "none"

Next ==
    \/ CorpusNext /\ NoQuestion /\ NoDocument /\ UNCHANGED <<plannerVars, contractVars>>
    \/ PlannerNext /\ NoFile /\ NoDocument /\ UNCHANGED <<corpusVars, contractVars>>
    \/ ContractNext /\ NoFile /\ NoQuestion /\ UNCHANGED <<corpusVars, plannerVars>>

Spec == Init /\ [][Next]_<<corpusVars, plannerVars, contractVars>>
==============================================================================
