------------------------- MODULE ResearchLoopProofs -------------------------
(***************************************************************************)
(* Theorems about ResearchLoop, for every value of its constants.          *)
(***************************************************************************)
EXTENDS ResearchLoop, FiniteSetTheorems, FunctionTheorems, SequenceTheorems,
        WellFoundedInduction, TLAPS

EventName == {"plan_created", "tool_call", "tool_result", "note_added",
              "critique", "synthesize", "stop"}
TraceEvent == [event : EventName, tool : Tool \cup {NoTool}]
Step == [request : SubQuestions, found : SUBSET Chunks]

-----------------------------------------------------------------------------
(* Lemmas about the helpers.                                               *)

\* The notes of one answer are finitely many.
LEMMA NotesFromFinite ==
    ASSUME NEW passages \in Seq(Passage)
    PROVE  IsFiniteSet(NotesFrom(passages))
<1> DEFINE I == {k \in 1..Len(passages) : passages[k].text \notin Blank}
           note(i) == [citation |-> passages[i].chunk, claim |-> passages[i].text]
           f == [i \in I |-> note(i)]
<1>1. Len(passages) \in Nat
  BY LenProperties
<1>2. IsFiniteSet(1..Len(passages))
  BY <1>1, FS_Interval
<1>3. IsFiniteSet(I)
  BY <1>2, FS_Subset
<1>4. f \in Surjection(I, NotesFrom(passages))
  BY DEF Surjection, NotesFrom
<1>5. QED
  BY <1>3, <1>4, FS_Surjection

\* The passages of an answer, field by field.
LEMMA PassageFields ==
    ASSUME NEW passages \in Seq(Passage), NEW i \in 1..Len(passages)
    PROVE  passages[i] \in Passage /\ passages[i].chunk \in Chunks /\ passages[i].text \in Texts
<1>1. passages[i] \in Passage
  BY ElementOfSeq
<1>2. QED
  BY <1>1 DEF Passage

\* A trace extended by events is a trace.
LEMMA RecordType ==
    ASSUME trace \in Seq(TraceEvent), NEW events \in Seq(TraceEvent), Record(events)
    PROVE  trace' \in Seq(TraceEvent)
BY ConcatProperties DEF Record

\* The events of one retrieval's answer.
LEMMA AnswerEventsType ==
    ASSUME NEW n \in Nat
    PROVE  <<ToolResult("retrieve")>> \o [i \in 1..n |-> Event("note_added", NoTool)]
              \in Seq(TraceEvent)
<1>1. <<ToolResult("retrieve")>> \in Seq(TraceEvent)
  BY DEF ToolResult, Event, TraceEvent, EventName, Tool, NoTool
<1>2. Event("note_added", NoTool) \in TraceEvent
  BY DEF Event, TraceEvent, EventName, Tool, NoTool
<1>3. [i \in 1..n |-> Event("note_added", NoTool)] \in Seq(TraceEvent)
  BY <1>2
<1>4. QED
  BY <1>1, <1>3, ConcatProperties

\* The events traced by the other nodes.
LEMMA NodeEventsType ==
    /\ <<Event("plan_created", NoTool)>> \in Seq(TraceEvent)
    /\ <<Event("critique", NoTool)>> \in Seq(TraceEvent)
    /\ <<Event("synthesize", NoTool), Event("stop", NoTool)>> \in Seq(TraceEvent)
    /\ <<ToolCall("retrieve")>> \in Seq(TraceEvent)
    /\ \A t \in Tool : <<ToolCall(t), ToolResult(t)>> \in Seq(TraceEvent)
<1>1. \A e \in TraceEvent : <<e>> \in Seq(TraceEvent)
  OBVIOUS
<1>2. \A d, e \in TraceEvent : <<d, e>> \in Seq(TraceEvent)
  OBVIOUS
<1>3. /\ Event("plan_created", NoTool) \in TraceEvent
      /\ Event("critique", NoTool) \in TraceEvent
      /\ Event("synthesize", NoTool) \in TraceEvent
      /\ Event("stop", NoTool) \in TraceEvent
  BY DEF Event, TraceEvent, EventName, Tool, NoTool
<1>4. \A t \in Tool : ToolCall(t) \in TraceEvent /\ ToolResult(t) \in TraceEvent
  BY DEF ToolCall, ToolResult, Event, TraceEvent, EventName
<1>5. "retrieve" \in Tool
  BY DEF Tool
<1>6. QED
  BY <1>1, <1>2, <1>3, <1>4, <1>5

-----------------------------------------------------------------------------
(* Type correctness.                                                       *)

\* A run starts in a state of the declared shape.
LEMMA InitTypeOK == Init => TypeOK
<1> SUFFICES ASSUME Init PROVE TypeOK
  OBVIOUS
<1>1. /\ run \in Runs
      /\ asked \in SubQuestions
      /\ used \in [Tool -> Nat]
      /\ plan = <<>> /\ pending = <<>> /\ steps = <<>> /\ trace = <<>>
  BY LoopAssumption DEF Init
<1>2. /\ requested = {} /\ evidence = {} /\ notes = {} /\ gaps = {} /\ looked = {}
      /\ report = {} /\ citations = {}
      /\ hitToolBudget \in BOOLEAN /\ sufficient \in BOOLEAN
      /\ pc = "plan" /\ status = "running" /\ stopReason = "none"
  BY DEF Init
<1>3. QED
  BY <1>1, <1>2, EmptySeq DEF TypeOK

\* Every node of the loop keeps the declared shape.
LEMMA NextTypeOK == TypeOK /\ [Next]_vars => TypeOK'
<1> SUFFICES ASSUME TypeOK, [Next]_vars PROVE TypeOK'
  OBVIOUS
<1> USE DEF TypeOK, limits, queue, memory, flags, result
<1>t. trace \in Seq(TraceEvent)
  BY DEF TraceEvent, EventName
<1>e. ASSUME trace' \in Seq(TraceEvent)
      PROVE  trace' \in Seq([event : {"plan_created", "tool_call", "tool_result",
                 "note_added", "critique", "synthesize", "stop"}, tool : Tool \cup {NoTool}])
  BY <1>e DEF TraceEvent, EventName
<1>1. CASE LoopEnds
  BY <1>1 DEF LoopEnds
<1>2. CASE RetrieveCapSpent
  BY <1>2 DEF RetrieveCapSpent
<1>3. CASE RetrieveRaises
  BY <1>3 DEF RetrieveRaises
<1>4. CASE LexiconCapZero
  BY <1>4 DEF LexiconCapZero
<1>5. CASE LexiconPassedOver
  BY <1>5 DEF LexiconPassedOver
<1>6. CASE SearchNotesCapSpent
  BY <1>6 DEF SearchNotesCapSpent
<1>7. CASE AnswerDirectly
  BY <1>7 DEF AnswerDirectly
<1>8. CASE Stopped
  BY <1>8 DEF Stopped, vars
<1>9. CASE PlanNode
  <2>1. trace' \in Seq(TraceEvent)
    BY <1>9, <1>t, NodeEventsType, RecordType DEF PlanNode
  <2>2. plan' \in Seq(SubQuestions)
    BY <1>9, LoopAssumption DEF PlanNode
  <2>3. QED
    BY <1>9, <1>e, <2>1, <2>2 DEF PlanNode
<1>10. CASE TakeSubQuestion
  <2>1. Head(pending) \in SubQuestions /\ Tail(pending) \in Seq(SubQuestions)
    BY <1>10, HeadTailProperties DEF TakeSubQuestion
  <2>2. trace' \in Seq(TraceEvent)
    BY <1>10, <1>t, NodeEventsType, RecordType DEF TakeSubQuestion
  <2>3. used' \in [Tool -> Nat]
    BY <1>10 DEF TakeSubQuestion, Spend, Tool
  <2>4. QED
    BY <1>10, <1>e, <2>1, <2>2, <2>3 DEF TakeSubQuestion, Remember
<1>11. CASE RetrieveReturns
  <2>1. PICK passages \in Results : AbsorbResult(passages)
    BY <1>11 DEF RetrieveReturns
  <2>2. passages \in Seq(Passage)
    BY LoopAssumption
  <2>3. Cardinality(NotesFrom(passages) \ notes) \in Nat
    BY <2>2, NotesFromFinite, FS_Difference, FS_CardinalityType
  <2>4. trace' \in Seq(TraceEvent)
    BY <2>1, <2>3, <1>t, AnswerEventsType, RecordType DEF AbsorbResult
  <2>p. \A i \in 1..Len(passages) :
          passages[i] \in Passage /\ passages[i].chunk \in Chunks /\ passages[i].text \in Texts
    BY <2>2, PassageFields
  <2>5. /\ evidence' \subseteq Passage
        /\ notes' \subseteq [citation : Chunks, claim : Texts]
        /\ ChunksOf(passages) \in SUBSET Chunks
    <3>1. FirstSeen(passages) \subseteq Passage
      BY <2>p DEF FirstSeen
    <3>2. NotesFrom(passages) \subseteq [citation : Chunks, claim : Texts]
      BY <2>p DEF NotesFrom
    <3>3. ChunksOf(passages) \in SUBSET Chunks
      BY <2>p DEF ChunksOf
    <3>4. QED
      BY <2>1, <3>1, <3>2, <3>3 DEF AbsorbResult
  <2>6. steps' \in Seq([request : SubQuestions, found : SUBSET Chunks])
    BY <2>1, <2>5, AppendProperties DEF AbsorbResult
  <2>7. QED
    BY <1>11, <1>e, <2>4, <2>5, <2>6 DEF RetrieveReturns
<1>12. CASE CritiqueNode
  <2>1. trace' \in Seq(TraceEvent)
    BY <1>12, <1>t, NodeEventsType, RecordType DEF CritiqueNode
  <2>2. gaps' \subseteq GapKind
    BY <1>12 DEF CritiqueNode, Gaps
  <2>3. QED
    BY <1>12, <1>e, <2>1, <2>2 DEF CritiqueNode
<1>m. MissingText \in SubQuestions
  BY LoopAssumption DEF MissingText, Missing, RunConfiguration
<1>13. CASE LexiconNode
  <2>1. trace' \in Seq(TraceEvent)
    BY <1>13, <1>t, NodeEventsType, RecordType DEF LexiconNode, Tool
  <2>2. used' \in [Tool -> Nat]
    BY <1>13 DEF LexiconNode, Spend, Tool
  <2>3. QED
    BY <1>13, <1>e, <1>m, <2>1, <2>2 DEF LexiconNode
<1>14. CASE LexiconRejectsTerm
  BY <1>14, <1>m DEF LexiconRejectsTerm
<1>15. CASE EnqueueFollowUps
  <2>1. \A q \in Seq(SubQuestions), f \in SubQuestions : Enqueue(q, f) \in Seq(SubQuestions)
    BY AppendProperties DEF Enqueue
  <2>2. QuestionText \in SubQuestions
    BY LoopAssumption
  <2>3. pending' \in Seq(SubQuestions)
    BY <1>15, <1>m, <2>1, <2>2 DEF EnqueueFollowUps
  <2>4. QED
    BY <1>15, <2>3 DEF EnqueueFollowUps
<1>16. CASE SearchNotesNode
  <2>1. trace' \in Seq(TraceEvent)
    BY <1>16, <1>t, NodeEventsType, RecordType DEF SearchNotesNode, Tool
  <2>2. used' \in [Tool -> Nat]
    BY <1>16 DEF SearchNotesNode, Spend, Tool
  <2>3. QED
    BY <1>16, <1>e, <2>1, <2>2 DEF SearchNotesNode
<1>17. CASE FinishNode
  <2>1. trace' \in Seq(TraceEvent)
    BY <1>17, <1>t, NodeEventsType, RecordType DEF FinishNode
  <2>2. status' \in {"done", "refused", "budget_exhausted"}
        /\ stopReason' \in {"evidence_sufficient", "no_evidence",
                           "insufficient_evidence", "budget_spent", "tool_budget_spent"}
    BY <1>17 DEF FinishNode, DecideOutcome
  <2>3. report' \subseteq {"nothing_retrieved", "too_thin", "findings",
                           "step_budget_ended", "gaps"}
    BY <1>17, <2>2 DEF FinishNode, Synthesize
  <2>4. citations' \subseteq Chunks
    BY <1>17 DEF FinishNode, Cited, Passage
  <2>5. QED
    BY <1>17, <1>e, <2>1, <2>2, <2>3, <2>4 DEF FinishNode
<1>18. CASE UNCHANGED vars
  BY <1>18 DEF vars
<1>19. QED
  BY <1>1, <1>2, <1>3, <1>4, <1>5, <1>6, <1>7, <1>8, <1>9, <1>10, <1>11, <1>12,
     <1>13, <1>14, <1>15, <1>16, <1>17, <1>18 DEF Next

\* The state of a run always has the shape ResearchState declares.
THEOREM TypeCorrect == Spec => []TypeOK
<1>1. Init => TypeOK
  BY InitTypeOK
<1>2. TypeOK /\ [Next]_vars => TypeOK'
  BY NextTypeOK
<1>3. QED
  BY <1>1, <1>2, PTL DEF Spec

-----------------------------------------------------------------------------
(* Budgets.  The cap and the step budget are tested at the head of the     *)
(* loop and spent one node later, so the inductive invariant remembers,    *)
(* while a call is in flight, that its step will fit.                      *)

BudgetInv ==
    /\ BudgetsRespected
    /\ pc = "retrieving" => Len(steps) < run.maxSteps

\* The numbers the budget tests compare.
LEMMA RunTypes ==
    ASSUME TypeOK
    PROVE  /\ run.maxSteps \in Nat
           /\ \A t \in Tool : run.cap[t] \in Int /\ used[t] \in Nat
           /\ used \in [Tool -> Nat]
           /\ Len(steps) \in Nat
<1>1. run \in RunConfiguration
  BY LoopAssumption DEF TypeOK
<1>2. run.maxSteps \in Nat /\ run.cap \in [Tool -> Int]
  BY <1>1 DEF RunConfiguration, MaxStepBudget
<1>3. used \in [Tool -> Nat]
  BY DEF TypeOK
<1>4. Len(steps) \in Nat
  BY LenProperties DEF TypeOK
<1>5. QED
  BY <1>2, <1>3, <1>4

\* Nothing is spent before the first node.
LEMMA InitBudgetInv == Init => BudgetInv
<1> SUFFICES ASSUME Init PROVE BudgetInv
  OBVIOUS
<1>1. run.maxSteps \in Nat \ {0}
  <2>1. run \in RunConfiguration
    BY LoopAssumption DEF Init
  <2>2. QED
    BY <2>1 DEF RunConfiguration, MaxStepBudget
<1>2. steps = <<>> /\ pc = "plan" /\ used = [t \in Tool |-> 0]
  BY DEF Init
<1>3. Len(steps) = 0
  BY <1>2, EmptySeq
<1>4. "retrieve" \in Tool
  BY DEF Tool
<1>5. QED
  BY <1>1, <1>2, <1>3, <1>4 DEF BudgetInv, BudgetsRespected

\* A node spends a step or a call only where the loop tested its budget.
LEMMA NextBudgetInv == TypeOK /\ BudgetInv /\ [Next]_vars => BudgetInv'
<1> SUFFICES ASSUME TypeOK, BudgetInv, [Next]_vars PROVE BudgetInv'
  OBVIOUS
<1>t. /\ run.maxSteps \in Nat
      /\ \A t \in Tool : run.cap[t] \in Int /\ used[t] \in Nat
      /\ used \in [Tool -> Nat]
      /\ Len(steps) \in Nat
  BY RunTypes
<1> USE DEF BudgetInv, BudgetsRespected, limits, queue, memory, flags, result
<1>1. CASE UNCHANGED <<run, used, steps>> /\ pc' \notin {"retrieving", "tool_error"}
                                       /\ pc \notin {"retrieving", "tool_error"}
  BY <1>1
<1>2. CASE UNCHANGED <<run, used, steps, pc>>
  BY <1>2
<1>3. CASE TakeSubQuestion
  <2>1. CASE Head(pending) \in requested
    BY <1>2, <1>3, <2>1 DEF TakeSubQuestion
  <2>2. CASE Head(pending) \notin requested
    <3>1. /\ pc' = "retrieving" /\ pc = "loop"
          /\ used' = [used EXCEPT !["retrieve"] = @ + 1]
          /\ UNCHANGED <<run, steps>>
          /\ ~(Len(steps) >= run.maxSteps)
      BY <1>3, <2>2 DEF TakeSubQuestion, Spend, BudgetSpent, StepsTaken
    <3>2. used["retrieve"] + 1 <= run.cap["retrieve"]
      BY <1>3, <1>t DEF TakeSubQuestion, Remaining, Tool
    <3>3. QED
      BY <3>1, <3>2, <1>t DEF Tool
  <2>3. QED
    BY <2>1, <2>2
<1>4. CASE RetrieveReturns
  <2>1. /\ UNCHANGED <<run, used>> /\ pc = "retrieving" /\ pc' = "critique"
        /\ \E step : steps' = Append(steps, step)
    BY <1>4 DEF RetrieveReturns, AbsorbResult
  <2>2. Len(steps') = Len(steps) + 1
    BY <2>1 DEF TypeOK
  <2>3. QED
    BY <2>1, <2>2, <1>t
<1>5. CASE RetrieveRaises
  BY <1>5, <1>t DEF RetrieveRaises
<1>6. ASSUME NEW tool \in {"lexicon", "search_notes"}, Spend(tool), Remaining(tool) > 0,
             UNCHANGED <<run, steps>>, pc \in {"lexicon", "answer"},
             pc' \in {"enqueue", "finish"}
      PROVE  BudgetInv'
  <2>1. used[tool] + 1 <= run.cap[tool] /\ tool # "retrieve" /\ tool \in Tool
    BY <1>6, <1>t DEF Remaining, Tool
  <2>2. used' = [used EXCEPT ![tool] = @ + 1]
    BY <1>6 DEF Spend
  <2>3. QED
    BY <1>6, <1>t, <2>1, <2>2 DEF Tool
<1>7. CASE LexiconNode
  BY <1>6, <1>7 DEF LexiconNode, WantsLexicon
<1>8. CASE SearchNotesNode
  BY <1>6, <1>8 DEF SearchNotesNode
<1>9. CASE \/ PlanNode \/ LoopEnds \/ RetrieveCapSpent \/ CritiqueNode
           \/ LexiconRejectsTerm \/ LexiconCapZero \/ LexiconPassedOver \/ EnqueueFollowUps
           \/ SearchNotesCapSpent \/ AnswerDirectly \/ FinishNode
  BY <1>1, <1>9 DEF PlanNode, LoopEnds, RetrieveCapSpent, CritiqueNode, LexiconRejectsTerm,
     LexiconCapZero, LexiconPassedOver, EnqueueFollowUps, SearchNotesCapSpent, AnswerDirectly,
     FinishNode
<1>10. CASE Stopped \/ UNCHANGED vars
  BY <1>2, <1>10 DEF Stopped, vars
<1>11. QED
  BY <1>3, <1>4, <1>5, <1>7, <1>8, <1>9, <1>10 DEF Next

\* No run overruns its step budget or a tool's cap, for any budgets and caps.
THEOREM BudgetsHold == Spec => []BudgetsRespected
<1>1. Init => BudgetInv
  BY InitBudgetInv
<1>2. TypeOK /\ BudgetInv /\ [Next]_vars => BudgetInv'
  BY NextBudgetInv
<1>3. BudgetInv => BudgetsRespected
  BY DEF BudgetInv
<1>4. QED
  BY <1>1, <1>2, <1>3, TypeCorrect, PTL DEF Spec

-----------------------------------------------------------------------------
(* No sub-question twice.  A step's request was popped before, and a popped *)
(* sub-question is dropped; in between, the one in flight is in no step.    *)

TwiceInv ==
    /\ NoSubQuestionTwice
    /\ \A i \in 1..Len(steps) : steps[i].request \in requested
    /\ pc = "retrieving" =>
          asked \in requested /\ \A i \in 1..Len(steps) : steps[i].request # asked

\* Nothing is asked before the first node.
LEMMA InitTwiceInv == Init => TwiceInv
<1> SUFFICES ASSUME Init PROVE TwiceInv
  OBVIOUS
<1>1. 1..Len(steps) = {} /\ pc = "plan"
  BY EmptySeq DEF Init
<1>2. QED
  BY <1>1 DEF TwiceInv, NoSubQuestionTwice

\* A sub-question is asked only when it is not among those requested.
LEMMA NextTwiceInv == TypeOK /\ TwiceInv /\ [Next]_vars => TwiceInv'
<1> SUFFICES ASSUME TypeOK, TwiceInv, [Next]_vars PROVE TwiceInv'
  OBVIOUS
<1> USE DEF TwiceInv, NoSubQuestionTwice, limits, queue, memory, flags, result
<1>1. CASE UNCHANGED <<requested, steps>> /\ pc' # "retrieving"
  BY <1>1
<1>2. CASE UNCHANGED <<requested, steps, asked, pc>>
  BY <1>2
<1>3. CASE TakeSubQuestion
  <2>1. /\ UNCHANGED steps /\ pc = "loop" /\ asked' = Head(pending)
        /\ requested' = requested \cup {Head(pending)}
    BY <1>3 DEF TakeSubQuestion, Remember
  <2>2. CASE Head(pending) \in requested
    BY <1>3, <2>1, <2>2 DEF TakeSubQuestion
  <2>3. CASE Head(pending) \notin requested
    BY <2>1, <2>3
  <2>4. QED
    BY <2>2, <2>3
<1>4. CASE RetrieveReturns
  <2>1. PICK passages : AbsorbResult(passages)
    BY <1>4 DEF RetrieveReturns
  <2> DEFINE step == [request |-> asked, found |-> ChunksOf(passages)]
  <2>2. /\ UNCHANGED <<requested, asked>> /\ pc = "retrieving" /\ pc' = "critique"
        /\ steps' = Append(steps, step) /\ step.request = asked
    BY <1>4, <2>1 DEF RetrieveReturns, AbsorbResult
  <2> HIDE DEF step
  <2>3. /\ Len(steps) \in Nat /\ Len(steps') = Len(steps) + 1
        /\ \A i \in 1..Len(steps) : steps'[i] = steps[i]
        /\ steps'[Len(steps) + 1] = step
    BY <2>2 DEF TypeOK
  <2>4. QED
    BY <2>2, <2>3
<1>5. CASE LoopEnds \/ RetrieveCapSpent \/ RetrieveRaises \/ CritiqueNode \/ LexiconNode
           \/ LexiconRejectsTerm \/ LexiconCapZero \/ LexiconPassedOver \/ EnqueueFollowUps
           \/ SearchNotesNode \/ SearchNotesCapSpent \/ AnswerDirectly \/ FinishNode \/ PlanNode
  BY <1>1, <1>5 DEF LoopEnds, RetrieveCapSpent, RetrieveRaises, CritiqueNode, LexiconNode,
     LexiconRejectsTerm, LexiconCapZero, LexiconPassedOver, EnqueueFollowUps, SearchNotesNode,
     SearchNotesCapSpent, AnswerDirectly, FinishNode, PlanNode
<1>6. CASE Stopped \/ UNCHANGED vars
  BY <1>2, <1>6 DEF Stopped, vars
<1>7. QED
  BY <1>3, <1>4, <1>5, <1>6 DEF Next

\* No run retrieves for a sub-question twice, whatever plans, questions and
\* follow-ups coincide.
THEOREM NeverTwice == Spec => []NoSubQuestionTwice
<1>1. Init => TwiceInv
  BY InitTwiceInv
<1>2. TypeOK /\ TwiceInv /\ [Next]_vars => TwiceInv'
  BY NextTwiceInv
<1>3. TwiceInv => NoSubQuestionTwice
  BY DEF TwiceInv
<1>4. QED
  BY <1>1, <1>2, <1>3, TypeCorrect, PTL DEF Spec

-----------------------------------------------------------------------------
(* Outcomes.  The flags a run is judged by at its end were set several     *)
(* nodes earlier; the invariant carries what was true then to the end.     *)

OutcomeInv ==
    /\ OutcomeIsJustified
    /\ pc = "answer" \/ sufficient => Sufficient(run.wanted, notes) /\ gaps = {}
    /\ sufficient => pc \in {"finish", "returned"}
    /\ hitToolBudget => /\ pc \in {"finish", "returned"}
                        /\ sufficient \/ Remaining("retrieve") = 0 \/ run.cap["lexicon"] = 0
    /\ \/ pc \in {"plan", "loop", "retrieving", "lexicon", "enqueue"}
       \/ pc = "finish" /\ ~sufficient
       => ~Sufficient(run.wanted, notes)
    /\ notes # {} => evidence # {}
    /\ status # "running" <=> pc = "returned"

\* An empty note store is never sufficient.
LEMMA SufficientNeedsNotes == \A wanted, ns : Sufficient(wanted, ns) => ns # {}
BY DEF Sufficient, Relevant, Grounded

\* A sufficient note store leaves no gap to name, whatever went unanswered.
LEMMA SufficientHasNoGaps ==
    \A wanted, ns, unanswered : Sufficient(wanted, ns) => Gaps(wanted, ns, unanswered) = {}
BY DEF Gaps

\* An answer that leaves a note leaves evidence too.
LEMMA NotesBringEvidence ==
    ASSUME NEW passages \in Seq(Passage), NotesFrom(passages) # {}
    PROVE  evidence \cup FirstSeen(passages) # {}
<1>1. Len(passages) \in Nat /\ 1 \in 1..Len(passages)
  BY LenProperties DEF NotesFrom
<1>2. CASE \A p \in evidence : p.chunk # passages[1].chunk
  BY <1>1, <1>2 DEF FirstSeen
<1>3. CASE \E p \in evidence : p.chunk = passages[1].chunk
  BY <1>3
<1>4. QED
  BY <1>2, <1>3

\* A run starts without an outcome to justify.
LEMMA InitOutcomeInv == Init => OutcomeInv
<1> SUFFICES ASSUME Init PROVE OutcomeInv
  OBVIOUS
<1>1. /\ status = "running" /\ pc = "plan" /\ notes = {}
      /\ sufficient = FALSE /\ hitToolBudget = FALSE
  BY DEF Init
<1>2. ~Sufficient(run.wanted, notes)
  BY <1>1, SufficientNeedsNotes
<1>3. QED
  BY <1>1, <1>2 DEF OutcomeInv, OutcomeIsJustified

\* Every outcome is set where its reason holds, and nothing moves after it.
LEMMA NextOutcomeInv ==
    TypeOK /\ BudgetInv /\ OutcomeInv /\ [Next]_vars => OutcomeInv'
<1> SUFFICES ASSUME TypeOK, BudgetInv, OutcomeInv, [Next]_vars PROVE OutcomeInv'
  OBVIOUS
<1> DEFINE suff == Sufficient(run.wanted, notes)
           left == Remaining("retrieve")
<1>i. /\ pc = "answer" \/ sufficient => suff /\ gaps = {}
      /\ sufficient => pc \in {"finish", "returned"}
      /\ hitToolBudget => /\ pc \in {"finish", "returned"}
                          /\ sufficient \/ left = 0 \/ run.cap["lexicon"] = 0
      /\ \/ pc \in {"plan", "loop", "retrieving", "lexicon", "enqueue"}
         \/ pc = "finish" /\ ~sufficient
         => ~suff
      /\ notes # {} => evidence # {}
      /\ status # "running" <=> pc = "returned"
      /\ sufficient \in BOOLEAN /\ hitToolBudget \in BOOLEAN
  BY DEF OutcomeInv, TypeOK
\* It is enough to keep the other conjuncts while the run has no outcome.
<1>o. ASSUME status' = "running"
      PROVE  OutcomeIsJustified'
  BY <1>o DEF OutcomeIsJustified
<1>s. ASSUME UNCHANGED <<run, notes>> PROVE suff' = suff
  BY <1>s
<1>l. ASSUME UNCHANGED <<run, used>> PROVE left' = left
  BY <1>l DEF Remaining
<1>0. ASSUME status' = "running", pc' # "returned", notes' # {} => evidence' # {},
             pc' = "answer" \/ sufficient' => suff' /\ gaps' = {},
             sufficient' => pc' = "finish",
             hitToolBudget' => /\ pc' = "finish"
                               /\ sufficient' \/ left' = 0 \/ run'.cap["lexicon"] = 0,
             \/ pc' \in {"plan", "loop", "retrieving", "lexicon", "enqueue"}
             \/ pc' = "finish" /\ ~sufficient'
             => ~suff'
      PROVE  OutcomeInv'
  BY <1>0, <1>o DEF OutcomeInv
<1> HIDE DEF suff, left
<1> USE DEF limits, queue, memory, flags, result
<1>1. CASE \/ PlanNode \/ LoopEnds \/ RetrieveRaises \/ LexiconRejectsTerm
           \/ LexiconPassedOver \/ EnqueueFollowUps
  BY <1>0, <1>1, <1>i, <1>s, <1>l DEF PlanNode, LoopEnds, RetrieveRaises, LexiconRejectsTerm,
     LexiconPassedOver, EnqueueFollowUps
<1>2. CASE RetrieveCapSpent
  <2>1. Remaining("retrieve") = 0
    BY <1>2, RunTypes DEF RetrieveCapSpent, Remaining, Tool
  <2>2. QED
    BY <1>0, <1>2, <1>i, <1>s, <1>l, <2>1 DEF RetrieveCapSpent, left
<1>3. CASE TakeSubQuestion
  BY <1>0, <1>3, <1>i, <1>s DEF TakeSubQuestion
<1>4. CASE RetrieveReturns
  <2>1. PICK passages \in Results : AbsorbResult(passages)
    BY <1>4 DEF RetrieveReturns
  <2>2. notes' # {} => evidence' # {}
    BY <2>1, <1>i, NotesBringEvidence, LoopAssumption DEF AbsorbResult
  <2>3. QED
    BY <1>0, <1>4, <1>i, <2>2 DEF RetrieveReturns
<1>5. CASE CritiqueNode
  <2>1. suff' = suff /\ (suff => gaps' = {}) /\ pc' = IF suff THEN "answer" ELSE "lexicon"
    BY <1>5, <1>s, SufficientHasNoGaps DEF CritiqueNode, suff
  <2>2. QED
    BY <1>0, <1>5, <1>i, <2>1 DEF CritiqueNode
<1>6. CASE LexiconNode
  BY <1>0, <1>6, <1>i, <1>s DEF LexiconNode
<1>7. CASE LexiconCapZero
  BY <1>0, <1>7, <1>i, <1>s DEF LexiconCapZero, ForbidsLexicon
<1>8. CASE SearchNotesNode \/ SearchNotesCapSpent \/ AnswerDirectly
  BY <1>0, <1>8, <1>i, <1>s DEF SearchNotesNode, SearchNotesCapSpent, AnswerDirectly
<1>9. CASE FinishNode
  <2>1. /\ UNCHANGED <<run, used, steps, evidence, notes, gaps, sufficient, hitToolBudget>>
        /\ pc = "finish" /\ pc' = "returned" /\ suff' = suff /\ left' = left
        /\ status' = DecideOutcome[1] /\ stopReason' = DecideOutcome[2]
        /\ citations' = {p.chunk : p \in evidence}
    BY <1>9, <1>s, <1>l DEF FinishNode, Cited
  <2>2. citations' = {} <=> evidence = {}
    BY <2>1
  <2>3. suff => evidence # {}
    BY <1>i, SufficientNeedsNotes DEF suff
  <2>4. Len(steps) <= run.maxSteps /\ (BudgetSpent <=> Len(steps) = run.maxSteps)
                                  /\ (~BudgetSpent <=> Len(steps) < run.maxSteps)
    <3>1. run.maxSteps \in Nat /\ Len(steps) \in Nat
      BY RunTypes
    <3>2. QED
      BY <3>1 DEF BudgetInv, BudgetsRespected, BudgetSpent, StepsTaken
  <2>5. OutcomeIsJustified'
    <3>1. CASE sufficient
      BY <1>i, <2>1, <2>2, <2>3, <3>1 DEF OutcomeIsJustified, DecideOutcome, suff
    <3>2. CASE ~sufficient /\ evidence = {}
      BY <1>i, <2>1, <2>2, <3>2 DEF OutcomeIsJustified, DecideOutcome, Refuted, suff
    <3>3. CASE ~sufficient /\ evidence # {} /\ hitToolBudget
      BY <1>i, <2>1, <2>2, <3>3 DEF OutcomeIsJustified, DecideOutcome, Refuted, suff, left
    <3>4. CASE ~sufficient /\ evidence # {} /\ ~hitToolBudget /\ BudgetSpent
      BY <1>i, <2>1, <2>2, <2>4, <3>4 DEF OutcomeIsJustified, DecideOutcome, Refuted, suff
    <3>5. CASE ~sufficient /\ evidence # {} /\ ~hitToolBudget /\ ~BudgetSpent
      BY <1>i, <2>1, <2>2, <2>4, <3>5 DEF OutcomeIsJustified, DecideOutcome, Refuted, suff
    <3>6. QED
      BY <1>i, <3>1, <3>2, <3>3, <3>4, <3>5
  <2>6. status' # "running"
    BY <2>1 DEF DecideOutcome
  <2>7. QED
    BY <1>i, <2>1, <2>5, <2>6 DEF OutcomeInv, suff, left
<1>10. CASE Stopped \/ UNCHANGED vars
  <2>1. UNCHANGED vars
    BY <1>10 DEF Stopped
  <2>2. QED
    BY <2>1 DEF vars, OutcomeInv, OutcomeIsJustified, Refuted, Remaining
<1>11. QED
  BY <1>1, <1>2, <1>3, <1>4, <1>5, <1>6, <1>7, <1>8, <1>9, <1>10 DEF Next

\* Whatever the question, the budgets and the backend's answers, the outcome
\* a run reports is true of its evidence, its gaps and its budgets.
THEOREM OutcomesHold == Spec => []OutcomeIsJustified
<1>1. Init => OutcomeInv
  BY InitOutcomeInv
<1>2. TypeOK /\ BudgetInv /\ OutcomeInv /\ [Next]_vars => OutcomeInv'
  BY NextOutcomeInv
<1>3. OutcomeInv => OutcomeIsJustified
  BY DEF OutcomeInv
<1>4. QED
  BY <1>1, <1>2, <1>3, InitBudgetInv, NextBudgetInv, TypeCorrect, PTL DEF Spec

-----------------------------------------------------------------------------
(* Evidence and notes.  The property is inductive as it stands: all three  *)
(* kinds of memory change together, and a chunk enters the evidence at the *)
(* first place an answer has it.                                           *)

\* A chunk of an answer has a first place in it.
LEMMA FirstPlace ==
    ASSUME NEW passages \in Seq(Passage), NEW k \in 1..Len(passages)
    PROVE  \E m \in 1..Len(passages) :
              /\ passages[m].chunk = passages[k].chunk
              /\ \A j \in 1..(m - 1) : passages[j].chunk # passages[k].chunk
<1> DEFINE T == {m \in 1..Len(passages) : passages[m].chunk = passages[k].chunk}
           R == OpToRel(<, Nat)
<1>1. Len(passages) \in Nat /\ T \subseteq Nat /\ k \in T
  BY LenProperties
<1>2. IsWellFoundedOn(R, Nat)
  BY NatLessThanWellFounded
<1>3. PICK m \in T : \A j \in T : ~(<<j, m>> \in R)
  <2> HIDE DEF T, R
  <2>1. QED
    BY <1>1, <1>2, WFMin
<1>4. \A j \in T : ~(j < m)
  BY <1>1, <1>3 DEF OpToRel
<1>5. QED
  BY <1>1, <1>4

\* Every chunk of an answer is evidence once the answer is absorbed.
LEMMA ChunksBecomeEvidence ==
    ASSUME NEW passages \in Seq(Passage), NEW k \in 1..Len(passages)
    PROVE  \E p \in evidence \cup FirstSeen(passages) : p.chunk = passages[k].chunk
<1>1. CASE \E p \in evidence : p.chunk = passages[k].chunk
  BY <1>1
<1>2. CASE \A p \in evidence : p.chunk # passages[k].chunk
  <2>1. PICK m \in 1..Len(passages) :
              /\ passages[m].chunk = passages[k].chunk
              /\ \A j \in 1..(m - 1) : passages[j].chunk # passages[k].chunk
    BY FirstPlace
  <2>2. passages[m] \in FirstSeen(passages)
    BY <1>2, <2>1 DEF FirstSeen
  <2>3. QED
    BY <2>1, <2>2
<1>3. QED
  BY <1>1, <1>2

\* A chunk is taken from an answer at most once, and only if it was not known.
LEMMA FirstSeenOnce ==
    ASSUME NEW passages \in Seq(Passage)
    PROVE  /\ \A p, q \in FirstSeen(passages) : p.chunk = q.chunk => p = q
           /\ \A p \in FirstSeen(passages), q \in evidence : p.chunk # q.chunk
           /\ \A p \in FirstSeen(passages) :
                 \E i \in 1..Len(passages) : p = passages[i]
<1>1. Len(passages) \in Nat
  BY LenProperties
<1>2. ASSUME NEW p \in FirstSeen(passages), NEW q \in FirstSeen(passages), p.chunk = q.chunk
      PROVE  p = q
  <2>1. PICK i \in 1..Len(passages) :
            p = passages[i] /\ \A n \in 1..(i - 1) : passages[n].chunk # passages[i].chunk
    BY DEF FirstSeen
  <2>2. PICK j \in 1..Len(passages) :
            q = passages[j] /\ \A n \in 1..(j - 1) : passages[n].chunk # passages[j].chunk
    BY DEF FirstSeen
  <2>3. ~(i < j) /\ ~(j < i)
    BY <1>1, <1>2, <2>1, <2>2
  <2>4. QED
    BY <1>1, <2>1, <2>2, <2>3
<1>3. QED
  BY <1>2 DEF FirstSeen

\* Nothing is retrieved before the first node.
LEMMA InitEvidence == Init => EvidenceBacksNotes
<1> SUFFICES ASSUME Init PROVE EvidenceBacksNotes
  OBVIOUS
<1>1. evidence = {} /\ notes = {} /\ 1..Len(steps) = {}
  BY EmptySeq DEF Init
<1>2. QED
  BY <1>1 DEF EvidenceBacksNotes

\* Evidence, notes and steps only change together, when an answer is absorbed.
LEMMA NextEvidence == TypeOK /\ EvidenceBacksNotes /\ [Next]_vars => EvidenceBacksNotes'
<1> SUFFICES ASSUME TypeOK, EvidenceBacksNotes, [Next]_vars PROVE EvidenceBacksNotes'
  OBVIOUS
<1> USE DEF limits, queue, memory, flags, result
<1>1. CASE UNCHANGED memory
  <2>1. evidence' = evidence /\ notes' = notes /\ steps' = steps
    BY <1>1
  <2>2. \A p, q \in evidence' : p.chunk = q.chunk => p = q
    BY <2>1 DEF EvidenceBacksNotes
  <2>3. \A n \in notes' : \E p \in evidence' : p.chunk = n.citation
    BY <2>1 DEF EvidenceBacksNotes
  <2>4. \A p \in evidence' :
            p.text \notin Blank => [citation |-> p.chunk, claim |-> p.text] \in notes'
    BY <2>1 DEF EvidenceBacksNotes
  <2>5. {p.chunk : p \in evidence} = UNION {steps[i].found : i \in 1..Len(steps)}
    BY DEF EvidenceBacksNotes
  <2>6. {p.chunk : p \in evidence'} = UNION {steps'[i].found : i \in 1..Len(steps')}
    BY ONLY <2>1, <2>5, Zenon
  <2>7. QED
    BY <2>2, <2>3, <2>4, <2>6 DEF EvidenceBacksNotes
<1>2. CASE RetrieveReturns
  <2>1. PICK passages \in Results : AbsorbResult(passages)
    BY <1>2 DEF RetrieveReturns
  <2> DEFINE step == [request |-> asked, found |-> ChunksOf(passages)]
  <2>2. /\ passages \in Seq(Passage)
        /\ evidence' = evidence \cup FirstSeen(passages)
        /\ notes' = notes \cup NotesFrom(passages)
        /\ steps' = Append(steps, step)
        /\ step.found = ChunksOf(passages)
    BY <2>1, LoopAssumption DEF AbsorbResult
  <2> HIDE DEF step
  <2>3. /\ Len(steps) \in Nat /\ Len(steps') = Len(steps) + 1
        /\ \A i \in 1..Len(steps) : steps'[i] = steps[i]
        /\ steps'[Len(steps) + 1] = step
    BY <2>2 DEF TypeOK
  <2>4. ASSUME NEW p \in evidence', NEW q \in evidence', p.chunk = q.chunk PROVE p = q
    BY <2>2, <2>4, FirstSeenOnce DEF EvidenceBacksNotes
  <2>5. ASSUME NEW n \in notes' PROVE \E p \in evidence' : p.chunk = n.citation
    <3>1. CASE n \in notes
      BY <2>2, <3>1 DEF EvidenceBacksNotes
    <3>2. CASE n \in NotesFrom(passages)
      <4>1. PICK i \in 1..Len(passages) : n.citation = passages[i].chunk
        BY <3>2 DEF NotesFrom
      <4>2. QED
        BY <2>2, <4>1, ChunksBecomeEvidence
    <3>3. QED
      BY <2>2, <3>1, <3>2
  <2>6. ASSUME NEW p \in evidence', p.text \notin Blank
        PROVE  [citation |-> p.chunk, claim |-> p.text] \in notes'
    <3>1. CASE p \in evidence
      BY <2>2, <2>6, <3>1 DEF EvidenceBacksNotes
    <3>2. CASE p \in FirstSeen(passages)
      <4>1. PICK i \in 1..Len(passages) : p = passages[i]
        BY <2>2, <3>2, FirstSeenOnce
      <4>2. QED
        BY <2>2, <2>6, <4>1 DEF NotesFrom
    <3>3. QED
      BY <2>2, <3>1, <3>2
  <2>7. {p.chunk : p \in evidence'} = UNION {steps'[i].found : i \in 1..Len(steps')}
    <3> DEFINE Found == UNION {steps[i].found : i \in 1..Len(steps)}
               FoundNow == UNION {steps'[i].found : i \in 1..Len(steps')}
               Known == {p.chunk : p \in evidence}
               KnownNow == {p.chunk : p \in evidence'}
    <3>1. FoundNow = Found \cup ChunksOf(passages)
      <4>1. \A i \in 1..Len(steps') : i \in 1..Len(steps) \/ i = Len(steps) + 1
        BY <2>3
      <4>2. 1..Len(steps) \subseteq 1..Len(steps') /\ Len(steps) + 1 \in 1..Len(steps')
        BY <2>3
      <4>3. \A i \in 1..Len(steps) : steps'[i].found = steps[i].found
        BY <2>3
      <4>4. steps'[Len(steps) + 1].found = ChunksOf(passages)
        BY <2>2, <2>3
      <4>5. ASSUME NEW c PROVE  c \in FoundNow <=> \E i \in 1..Len(steps') : c \in steps'[i].found
        OBVIOUS
      <4>6. ASSUME NEW c PROVE  c \in Found <=> \E i \in 1..Len(steps) : c \in steps[i].found
        OBVIOUS
      <4> HIDE DEF Found, FoundNow
      <4>7. ASSUME NEW c PROVE  c \in FoundNow <=> c \in Found \/ c \in ChunksOf(passages)
        BY <4>1, <4>2, <4>3, <4>4, <4>5, <4>6
      <4>8. QED
        BY <4>7
    <3>2. KnownNow \subseteq Known \cup ChunksOf(passages)
      BY <2>2, FirstSeenOnce DEF ChunksOf
    <3>3. Known \cup ChunksOf(passages) \subseteq KnownNow
      BY <2>2, ChunksBecomeEvidence DEF ChunksOf
    <3>4. Known = Found
      BY DEF EvidenceBacksNotes
    <3>5. KnownNow = FoundNow
      <4> HIDE DEF Found, FoundNow, Known, KnownNow
      <4>1. QED
        BY <3>1, <3>2, <3>3, <3>4
    <3>6. QED
      BY <3>5
  <2>8. QED
    BY <2>4, <2>5, <2>6, <2>7 DEF EvidenceBacksNotes
<1>3. CASE \/ LoopEnds \/ RetrieveCapSpent \/ RetrieveRaises \/ CritiqueNode \/ LexiconNode
           \/ LexiconRejectsTerm \/ LexiconCapZero \/ LexiconPassedOver \/ EnqueueFollowUps
           \/ SearchNotesNode \/ SearchNotesCapSpent \/ AnswerDirectly \/ FinishNode \/ PlanNode
           \/ TakeSubQuestion
  BY <1>1, <1>3 DEF LoopEnds, RetrieveCapSpent, RetrieveRaises, CritiqueNode, LexiconNode,
     LexiconRejectsTerm, LexiconCapZero, LexiconPassedOver, EnqueueFollowUps, SearchNotesNode,
     SearchNotesCapSpent, AnswerDirectly, FinishNode, PlanNode, TakeSubQuestion
<1>4. CASE Stopped \/ UNCHANGED vars
  BY <1>1, <1>4 DEF Stopped, vars
<1>5. QED
  BY <1>2, <1>3, <1>4 DEF Next

\* Whatever answers repeat, contradict or leave out, the notes a run is judged
\* by and the evidence it cites are of the same chunks, those its steps found.
THEOREM EvidenceHolds == Spec => []EvidenceBacksNotes
<1>1. Init => EvidenceBacksNotes
  BY InitEvidence
<1>2. TypeOK /\ EvidenceBacksNotes /\ [Next]_vars => EvidenceBacksNotes'
  BY NextEvidence
<1>3. QED
  BY <1>1, <1>2, TypeCorrect, PTL DEF Spec

-----------------------------------------------------------------------------
(* Leads.  A lead is on its way while it is requested or queued.  The plan *)
(* is on its way from the start, and the follow-ups of a verdict from the  *)
(* moment they are enqueued; a run that ends for want of anything to ask   *)
(* has an empty queue, so all of them were requested, and what was         *)
(* requested is a step unless the backend failed on it.                    *)

OnItsWay(q, queued) == q \in requested \/ \E i \in 1..Len(queued) : queued[i] = q

Followed(q) == \E i \in 1..Len(steps) : steps[i].request = q

LeadInv ==
    /\ RefusalFollowedEveryLead
    /\ pc # "returned" => stopReason = "none"
    /\ pc = "plan" => gaps = {} /\ plan = <<>>
    /\ \A q \in requested :
          Followed(q) \/ (pc \in {"retrieving", "tool_error"} /\ q = asked)
    /\ \A i \in 1..Len(plan) : OnItsWay(plan[i], pending)
    /\ pc = "loop" => \A q \in FollowUps : OnItsWay(q, pending)
    /\ pc = "finish" /\ ~sufficient /\ ~hitToolBudget =>
          /\ \A q \in FollowUps : OnItsWay(q, pending)
          /\ pending = <<>> \/ BudgetSpent

\* Enqueueing puts a follow-up on its way and takes nothing off it.
LEMMA EnqueueKeeps ==
    ASSUME NEW queued \in Seq(SubQuestions), NEW f \in SubQuestions
    PROVE  /\ Enqueue(queued, f) \in Seq(SubQuestions)
           /\ OnItsWay(f, Enqueue(queued, f))
           /\ \A q : OnItsWay(q, queued) => OnItsWay(q, Enqueue(queued, f))
<1>1. CASE OnItsWay(f, queued)
  BY <1>1 DEF Enqueue, OnItsWay
<1>2. CASE ~OnItsWay(f, queued)
  <2>1. Enqueue(queued, f) = Append(queued, f)
    BY <1>2 DEF Enqueue, OnItsWay
  <2>2. /\ Len(queued) \in Nat /\ Append(queued, f) \in Seq(SubQuestions)
        /\ Len(Append(queued, f)) = Len(queued) + 1
        /\ Append(queued, f)[Len(queued) + 1] = f
        /\ \A i \in 1..Len(queued) : Append(queued, f)[i] = queued[i]
    BY AppendProperties, LenProperties
  <2>3. QED
    BY <2>1, <2>2 DEF OnItsWay
<1>3. QED
  BY <1>1, <1>2

\* A run starts with no lead but its question, which is not one yet.
LEMMA InitLeadInv == Init => LeadInv
<1> SUFFICES ASSUME Init PROVE LeadInv
  OBVIOUS
<1>1. /\ pc = "plan" /\ gaps = {} /\ plan = <<>> /\ requested = {}
      /\ stopReason = "none" /\ 1..Len(plan) = {}
  BY EmptySeq DEF Init
<1>2. QED
  BY <1>1 DEF LeadInv, RefusalFollowedEveryLead

\* No node drops a lead.
LEMMA NextLeadInv == TypeOK /\ LeadInv /\ [Next]_vars => LeadInv'
<1> SUFFICES ASSUME TypeOK, LeadInv, [Next]_vars PROVE LeadInv'
  OBVIOUS
<1>i. /\ pc # "returned" => stopReason = "none"
      /\ pc = "plan" => gaps = {} /\ plan = <<>>
      /\ \A q \in requested :
            Followed(q) \/ (pc \in {"retrieving", "tool_error"} /\ q = asked)
      /\ \A i \in 1..Len(plan) : OnItsWay(plan[i], pending)
      /\ pc = "loop" => \A q \in FollowUps : OnItsWay(q, pending)
      /\ pc = "finish" /\ ~sufficient /\ ~hitToolBudget =>
            /\ \A q \in FollowUps : OnItsWay(q, pending)
            /\ pending = <<>> \/ BudgetSpent
  BY DEF LeadInv
\* While a run has no outcome nothing is claimed of a refusal.
<1>0. ASSUME stopReason' = "none",
             pc' # "plan",
             \A q \in requested' :
                Followed(q)' \/ (pc' \in {"retrieving", "tool_error"} /\ q = asked'),
             \A i \in 1..Len(plan') : OnItsWay(plan[i], pending)',
             pc' = "loop" => (\A q \in FollowUps : OnItsWay(q, pending))',
             pc' = "finish" /\ ~sufficient' /\ ~hitToolBudget' =>
                /\ (\A q \in FollowUps : OnItsWay(q, pending))'
                /\ (pending = <<>> \/ BudgetSpent)'
      PROVE  LeadInv'
  BY <1>0 DEF LeadInv, RefusalFollowedEveryLead
<1>f. ASSUME UNCHANGED <<run, notes, gaps>> PROVE FollowUps' = FollowUps
  BY <1>f DEF FollowUps, MissingText
<1>w. ASSUME UNCHANGED <<requested, pending>>
      PROVE  \A q : OnItsWay(q, pending)' <=> OnItsWay(q, pending)
  BY <1>w DEF OnItsWay
<1>s. ASSUME UNCHANGED steps
      PROVE  \A q : Followed(q)' <=> Followed(q)
  BY <1>s DEF Followed
<1>p. ASSUME UNCHANGED <<plan, requested, pending>>
      PROVE  \A i \in 1..Len(plan') : OnItsWay(plan[i], pending)'
  BY <1>i, <1>p, <1>w
<1> USE DEF limits, queue, memory, flags, result
<1>1. CASE PlanNode
  <2>1. /\ pc = "plan" /\ pc' = "loop" /\ pending' = plan'
        /\ UNCHANGED <<run, notes, gaps, requested, steps, stopReason>>
    BY <1>1 DEF PlanNode
  <2>2. FollowUps' = {}
    BY <1>i, <2>1 DEF FollowUps
  <2>3. \A i \in 1..Len(plan') : OnItsWay(plan[i], pending)'
    BY <2>1 DEF OnItsWay
  <2>4. QED
    BY <1>0, <1>i, <1>s, <2>1, <2>2, <2>3
<1>2. CASE LoopEnds
  <2>1. /\ pc = "loop" /\ pc' = "finish" /\ (pending = <<>> \/ BudgetSpent)
        /\ UNCHANGED <<run, plan, notes, gaps, requested, pending, steps, stopReason>>
    BY <1>2 DEF LoopEnds
  <2>2. (pending = <<>> \/ BudgetSpent)'
    BY <2>1 DEF BudgetSpent, StepsTaken
  <2>3. QED
    BY <1>0, <1>i, <1>f, <1>w, <1>s, <1>p, <2>1, <2>2
<1>3. CASE TakeSubQuestion
  <2>1. /\ pc = "loop" /\ pending # <<>> /\ pending' = Tail(pending)
        /\ requested' = requested \cup {Head(pending)} /\ asked' = Head(pending)
        /\ UNCHANGED <<run, plan, notes, gaps, steps, stopReason>>
        /\ IF Head(pending) \in requested THEN pc' = "loop" ELSE pc' = "retrieving"
    BY <1>3 DEF TakeSubQuestion, Remember
  <2>2. ASSUME NEW q, OnItsWay(q, pending) PROVE OnItsWay(q, pending)'
    <3>1. CASE q \in requested
      BY <2>1, <3>1 DEF OnItsWay
    <3>2. CASE \E i \in 1..Len(pending) : pending[i] = q
      <4>1. PICK i \in 1..Len(pending) : pending[i] = q
        BY <3>2
      <4>2. /\ Len(pending) \in Nat /\ Head(pending) = pending[1]
            /\ Len(Tail(pending)) = Len(pending) - 1
            /\ \A j \in 1..Len(Tail(pending)) : Tail(pending)[j] = pending[j + 1]
        BY <2>1, HeadTailProperties, LenProperties DEF TypeOK
      <4>3. CASE i = 1
        BY <2>1, <4>1, <4>2, <4>3 DEF OnItsWay
      <4>4. CASE i # 1
        <5>1. i - 1 \in 1..Len(Tail(pending)) /\ Tail(pending)[i - 1] = q
          BY <4>1, <4>2, <4>4
        <5>2. QED
          BY <2>1, <5>1 DEF OnItsWay
      <4>5. QED
        BY <4>3, <4>4
    <3>3. QED
      BY <2>2, <3>1, <3>2 DEF OnItsWay
  <2>3. \A i \in 1..Len(plan') : OnItsWay(plan[i], pending)'
    BY <1>i, <2>1, <2>2
  <2>4. \A q \in requested' :
           Followed(q)' \/ (pc' \in {"retrieving", "tool_error"} /\ q = asked')
    BY <1>i, <1>s, <2>1
  <2>5. (\A q \in FollowUps : OnItsWay(q, pending))'
    BY <1>i, <1>f, <2>1, <2>2
  <2>6. QED
    BY <1>0, <1>i, <2>1, <2>3, <2>4, <2>5
<1>4. CASE RetrieveReturns
  <2>1. PICK passages \in Results : AbsorbResult(passages)
    BY <1>4 DEF RetrieveReturns
  <2> DEFINE step == [request |-> asked, found |-> ChunksOf(passages)]
  <2>2. /\ pc = "retrieving" /\ pc' = "critique"
        /\ UNCHANGED <<plan, requested, pending, asked, stopReason>>
        /\ steps' = Append(steps, step) /\ step.request = asked
    BY <1>4, <2>1 DEF RetrieveReturns, AbsorbResult
  <2> HIDE DEF step
  <2>3. /\ Len(steps) \in Nat /\ Len(steps') = Len(steps) + 1
        /\ \A i \in 1..Len(steps) : steps'[i] = steps[i]
        /\ steps'[Len(steps) + 1] = step
    BY <2>2 DEF TypeOK
  <2>4. \A q : Followed(q) \/ q = asked => Followed(q)'
    BY <2>2, <2>3 DEF Followed
  <2>5. QED
    BY <1>0, <1>i, <1>p, <2>2, <2>4
<1>5. CASE RetrieveRaises
  BY <1>0, <1>5, <1>i, <1>s, <1>p DEF RetrieveRaises
<1>6. CASE EnqueueFollowUps
  <2> DEFINE first == IF "no_evidence" \in gaps THEN Enqueue(pending, QuestionText) ELSE pending
  <2>1. /\ pc = "enqueue" /\ pc' = "loop"
        /\ pending' = IF "uncovered_terms" \in gaps THEN Enqueue(first, MissingText) ELSE first
        /\ UNCHANGED <<run, plan, notes, gaps, requested, steps, stopReason>>
    BY <1>6 DEF EnqueueFollowUps
  <2>2. QuestionText \in SubQuestions /\ MissingText \in SubQuestions /\ pending \in Seq(SubQuestions)
    BY LoopAssumption DEF TypeOK, MissingText, Missing, RunConfiguration
  <2>3. /\ first \in Seq(SubQuestions)
        /\ \A q : OnItsWay(q, pending) => OnItsWay(q, first)
        /\ "no_evidence" \in gaps => OnItsWay(QuestionText, first)
    BY <2>2, EnqueueKeeps
  <2> HIDE DEF first
  <2>4. /\ \A q : OnItsWay(q, first) => OnItsWay(q, pending')
        /\ "uncovered_terms" \in gaps => OnItsWay(MissingText, pending')
    BY <2>1, <2>2, <2>3, EnqueueKeeps
  <2>5. \A q : OnItsWay(q, pending') => OnItsWay(q, pending)'
    BY <2>1 DEF OnItsWay
  <2>6. \A q \in FollowUps : OnItsWay(q, pending)'
    BY <2>3, <2>4, <2>5 DEF FollowUps
  <2>7. QED
    BY <1>0, <1>i, <1>f, <1>s, <2>1, <2>3, <2>4, <2>5, <2>6
<1>7. CASE \/ CritiqueNode \/ LexiconNode \/ LexiconRejectsTerm \/ LexiconPassedOver
  BY <1>0, <1>7, <1>i, <1>s, <1>p DEF CritiqueNode, LexiconNode, LexiconRejectsTerm,
     LexiconPassedOver
<1>8. CASE RetrieveCapSpent \/ LexiconCapZero \/ SearchNotesCapSpent
  BY <1>0, <1>8, <1>i, <1>s, <1>p DEF RetrieveCapSpent, LexiconCapZero, SearchNotesCapSpent
<1>9. CASE SearchNotesNode \/ AnswerDirectly
  BY <1>0, <1>9, <1>i, <1>s, <1>p DEF SearchNotesNode, AnswerDirectly
<1>10. CASE FinishNode
  <2>1. /\ pc = "finish" /\ pc' = "returned" /\ stopReason' = DecideOutcome[2]
        /\ UNCHANGED <<run, plan, requested, pending, asked, steps, notes, gaps>>
    BY <1>10 DEF FinishNode
  <2>2. RefusalFollowedEveryLead'
    <3> SUFFICES ASSUME stopReason' = "insufficient_evidence",
                        NEW q \in FollowUps \cup {plan[i] : i \in 1..Len(plan)}
                 PROVE  Followed(q)
      BY <1>f, <2>1 DEF RefusalFollowedEveryLead, Followed
    <3>1. ~sufficient /\ ~hitToolBudget /\ ~BudgetSpent
      BY <2>1 DEF DecideOutcome
    <3>2. pending = <<>> /\ OnItsWay(q, pending)
      BY <1>i, <2>1, <3>1
    <3>3. q \in requested
      BY <3>2, EmptySeq DEF OnItsWay
    <3>4. QED
      BY <1>i, <2>1, <3>3
  <2>3. QED
    BY <1>i, <1>s, <1>p, <2>1, <2>2 DEF LeadInv
<1>11. CASE Stopped \/ UNCHANGED vars
  <2>1. UNCHANGED vars
    BY <1>11 DEF Stopped
  <2>2. LeadInv' <=> LeadInv
    BY <2>1 DEF vars, LeadInv, RefusalFollowedEveryLead, FollowUps, MissingText, Followed, OnItsWay,
       BudgetSpent, StepsTaken
  <2>3. QED
    BY <2>2
<1>12. QED
  BY <1>1, <1>2, <1>3, <1>4, <1>5, <1>6, <1>7, <1>8, <1>9, <1>10, <1>11 DEF Next

\* A run refuses for want of evidence only when all of its plan and every
\* follow-up its last critique proposed were retrieved for, for any plans,
\* coincidences of sub-questions and answers.
THEOREM LeadsAreFollowed == Spec => []RefusalFollowedEveryLead
<1>1. Init => LeadInv
  BY InitLeadInv
<1>2. TypeOK /\ LeadInv /\ [Next]_vars => LeadInv'
  BY NextLeadInv
<1>3. LeadInv => RefusalFollowedEveryLead
  BY DEF LeadInv
<1>4. QED
  BY <1>1, <1>2, <1>3, TypeCorrect, PTL DEF Spec

-----------------------------------------------------------------------------
(* Refinement.  A retrieval's answer is a Gather, the last node an End, an *)
(* exception an Abandon, and every other node a stutter.                   *)

\* While a node is running the caller has no outcome and nothing is abandoned.
LEMMA RunningMeansRunning ==
    ASSUME OutcomeInv, ~Ended
    PROVE  status = "running"
BY DEF OutcomeInv, Ended

\* Every node of the loop is a step of the promised run, or none.
LEMMA NextIsBounded ==
    TypeOK /\ BudgetInv /\ OutcomeInv /\ [Next]_vars => [Bounded!Next]_(Bounded!vars)
<1> SUFFICES ASSUME TypeOK, BudgetInv, OutcomeInv, [Next]_vars
             PROVE  [Bounded!Next]_(Bounded!vars)
  OBVIOUS
<1> USE DEF limits, queue, memory, flags, result
<1> DEFINE phase == IF Ended /\ status = "running" THEN "abandoned" ELSE status
           found == {p.chunk : p \in evidence}
<1>1. ASSUME UNCHANGED <<run, steps, evidence, citations, status>>, ~Ended, ~Ended'
      PROVE  UNCHANGED Bounded!vars
  BY <1>1 DEF Bounded!vars
<1>2. ASSUME UNCHANGED <<run, steps, evidence, citations, status>>, ~Ended, Ended'
      PROVE  Bounded!Abandon
  <2>1. status = "running"
    BY <1>2, RunningMeansRunning
  <2>2. QED
    BY <1>2, <2>1 DEF Bounded!Abandon
<1>3. CASE RetrieveReturns
  <2>1. PICK passages \in Results : AbsorbResult(passages)
    BY <1>3 DEF RetrieveReturns
  <2>2. /\ pc = "retrieving" /\ pc' = "critique"
        /\ UNCHANGED <<run, citations, status>>
        /\ evidence' = evidence \cup FirstSeen(passages)
        /\ \E step : steps' = Append(steps, step)
    BY <1>3, <2>1 DEF RetrieveReturns, AbsorbResult
  <2>3. ~Ended /\ ~Ended' /\ status = "running"
    BY <2>2, RunningMeansRunning DEF Ended
  <2>4. Len(steps') = Len(steps) + 1 /\ Len(steps) < run.maxSteps
    BY <2>2 DEF TypeOK, BudgetInv
  <2>5. {p.chunk : p \in FirstSeen(passages)} \in SUBSET Chunks
    <3>1. \A i \in 1..Len(passages) : passages[i].chunk \in Chunks
      BY PassageFields, LoopAssumption
    <3>2. QED
      BY <3>1 DEF FirstSeen
  <2>6. found' = found \cup {p.chunk : p \in FirstSeen(passages)}
    BY <2>2
  <2>7. Bounded!Gather
    <3> HIDE DEF found
    <3>1. \E new \in SUBSET Chunks : found' = found \cup new
      BY <2>5, <2>6
    <3>2. QED
      BY <2>2, <2>3, <2>4, <3>1 DEF Bounded!Gather, found
  <2>8. QED
    BY <2>7 DEF Bounded!Next
<1>4. CASE FinishNode
  <2>1. /\ pc = "finish" /\ pc' = "returned"
        /\ UNCHANGED <<run, steps, evidence>>
        /\ status' = DecideOutcome[1] /\ citations' = found
    BY <1>4 DEF FinishNode, Cited
  <2>2. ~Ended /\ status = "running"
    BY <2>1, RunningMeansRunning DEF Ended
  <2>3. status' \in {"done", "refused", "budget_exhausted"}
    BY <2>1 DEF DecideOutcome
  <2>4. found = {} => status' = "refused"
    <3>1. sufficient => evidence # {}
      BY SufficientNeedsNotes DEF OutcomeInv
    <3>2. QED
      BY <2>1, <3>1 DEF DecideOutcome
  <2>5. Bounded!End
    BY <2>1, <2>2, <2>3, <2>4 DEF Bounded!End, Bounded!Outcome
  <2>6. QED
    BY <2>5 DEF Bounded!Next
<1>5. CASE RetrieveRaises \/ LexiconRejectsTerm
  <2>1. Bounded!Abandon
    BY <1>2, <1>5 DEF RetrieveRaises, LexiconRejectsTerm, Ended
  <2>2. QED
    BY <2>1 DEF Bounded!Next
<1>6. CASE TakeSubQuestion
  <2>1. /\ pc = "loop" /\ pc' \in {"loop", "retrieving"}
        /\ UNCHANGED <<run, steps, evidence, citations, status>>
    BY <1>6 DEF TakeSubQuestion
  <2>2. QED
    BY <1>1, <2>1 DEF Ended
<1>7. CASE CritiqueNode
  <2>1. /\ pc = "critique" /\ pc' \in {"answer", "lexicon"}
        /\ UNCHANGED <<run, steps, evidence, citations, status>>
    BY <1>7 DEF CritiqueNode
  <2>2. QED
    BY <1>1, <2>1 DEF Ended
<1>8. CASE \/ PlanNode \/ LoopEnds \/ RetrieveCapSpent \/ LexiconNode \/ LexiconCapZero
           \/ LexiconPassedOver \/ EnqueueFollowUps \/ SearchNotesNode
           \/ SearchNotesCapSpent \/ AnswerDirectly
  BY <1>1, <1>8 DEF PlanNode, LoopEnds, RetrieveCapSpent, LexiconNode, LexiconCapZero,
     LexiconPassedOver, EnqueueFollowUps, SearchNotesNode, SearchNotesCapSpent, AnswerDirectly,
     Ended
<1>9. CASE Stopped \/ UNCHANGED vars
  BY <1>9 DEF Stopped, vars, Bounded!vars, Ended
<1>10. QED
  BY <1>3, <1>4, <1>5, <1>6, <1>7, <1>8, <1>9 DEF Next

\* The loop keeps the safety part of BoundedRun's promise for any question,
\* budgets and backend: it starts as promised and every step it takes is one
\* of the promised steps or none.
THEOREM StepsAreBounded == Spec => Bounded!Init /\ [][Bounded!Next]_(Bounded!vars)
<1>1. Init => Bounded!Init
  <2> SUFFICES ASSUME Init PROVE Bounded!Init
    OBVIOUS
  <2>1. /\ run \in RunConfiguration /\ Len(steps) = 0 /\ evidence = {} /\ citations = {}
        /\ status = "running" /\ pc = "plan"
    BY LoopAssumption, EmptySeq DEF Init
  <2>2. QED
    BY <2>1 DEF Bounded!Init, Ended, RunConfiguration
<1>2. TypeOK /\ BudgetInv /\ OutcomeInv /\ [Next]_vars => [Bounded!Next]_(Bounded!vars)
  BY NextIsBounded
<1>3. QED
  BY <1>1, <1>2, InitBudgetInv, NextBudgetInv, InitOutcomeInv, NextOutcomeInv, TypeCorrect,
     PTL DEF Spec

-----------------------------------------------------------------------------
(* Growth.                                                                 *)

\* Recording extends the trace and leaves its beginning.
LEMMA RecordGrows ==
    ASSUME trace \in Seq(TraceEvent), NEW events \in Seq(TraceEvent), Record(events)
    PROVE  /\ Len(trace) <= Len(trace')
           /\ trace = SubSeq(trace', 1, Len(trace))
<1>1. /\ Len(trace) \in Nat /\ Len(events) \in Nat
      /\ trace' \in Seq(TraceEvent) /\ Len(trace') = Len(trace) + Len(events)
      /\ \A i \in 1..Len(trace) : trace'[i] = trace[i]
  BY ConcatProperties, LenProperties DEF Record
<1>2. trace = SubSeq(trace', 1, Len(trace))
  BY <1>1, SubSeqProperties, SeqEqual
<1>3. QED
  BY <1>1, <1>2

\* A node that changes what was recorded only adds to it, before the outcome.
LEMMA NextGrows ==
    ASSUME TypeOK, OutcomeInv, Next
    PROVE  \/ UNCHANGED vars
           \/ /\ evidence \subseteq evidence' /\ notes \subseteq notes'
              /\ Len(trace) <= Len(trace') /\ trace = SubSeq(trace', 1, Len(trace))
              /\ status = "running"
<1> USE DEF limits, queue, memory, flags, result
<1>t. trace \in Seq(TraceEvent) /\ Len(trace) \in Nat
  BY LenProperties DEF TypeOK, TraceEvent, EventName
<1>1. ASSUME UNCHANGED trace
      PROVE  Len(trace) <= Len(trace') /\ trace = SubSeq(trace', 1, Len(trace))
  <2>1. trace = SubSeq(trace, 1, Len(trace))
    BY <1>t, SubSeqProperties, SeqEqual
  <2>2. QED
    BY <1>1, <1>t, <2>1
<1>2. CASE Stopped
  BY <1>2 DEF Stopped
<1>3. CASE ~Ended
  <2>1. status = "running"
    BY <1>3, RunningMeansRunning
  <2>2. CASE \/ LoopEnds \/ RetrieveCapSpent \/ RetrieveRaises \/ LexiconRejectsTerm
             \/ LexiconCapZero \/ LexiconPassedOver \/ EnqueueFollowUps
             \/ SearchNotesCapSpent \/ AnswerDirectly
    BY <1>1, <2>1, <2>2 DEF LoopEnds, RetrieveCapSpent, RetrieveRaises, LexiconRejectsTerm,
       LexiconCapZero, LexiconPassedOver, EnqueueFollowUps, SearchNotesCapSpent, AnswerDirectly
  <2>3. CASE PlanNode \/ CritiqueNode \/ FinishNode
    BY <1>t, <2>1, <2>3, RecordGrows, NodeEventsType DEF PlanNode, CritiqueNode, FinishNode
  <2>4. CASE LexiconNode \/ SearchNotesNode
    BY <1>t, <2>1, <2>4, RecordGrows, NodeEventsType DEF LexiconNode, SearchNotesNode, Tool
  <2>5. CASE TakeSubQuestion
    BY <1>1, <1>t, <2>1, <2>5, RecordGrows, NodeEventsType DEF TakeSubQuestion
  <2>6. CASE RetrieveReturns
    <3>1. PICK passages \in Results : AbsorbResult(passages)
      BY <2>6 DEF RetrieveReturns
    <3>2. Cardinality(NotesFrom(passages) \ notes) \in Nat
      BY LoopAssumption, NotesFromFinite, FS_Difference, FS_CardinalityType
    <3>3. Len(trace) <= Len(trace') /\ trace = SubSeq(trace', 1, Len(trace))
      BY <1>t, <3>1, <3>2, AnswerEventsType, RecordGrows DEF AbsorbResult
    <3>4. QED
      BY <2>1, <3>1, <3>3 DEF AbsorbResult
  <2>7. QED
    BY <1>2, <2>2, <2>3, <2>4, <2>5, <2>6 DEF Next
<1>4. CASE Ended /\ ~Stopped
  BY <1>4 DEF Ended, Next, PlanNode, LoopEnds, RetrieveCapSpent, TakeSubQuestion, RetrieveReturns,
     RetrieveRaises, CritiqueNode, LexiconNode, LexiconRejectsTerm, LexiconCapZero,
     LexiconPassedOver, EnqueueFollowUps, SearchNotesNode, SearchNotesCapSpent, AnswerDirectly,
     FinishNode
<1>5. QED
  BY <1>2, <1>3, <1>4

\* What a run recorded is never taken back, and nothing is recorded once it
\* has an outcome.
THEOREM NothingTakenBack == Spec => OnlyGrows
<1>1. TypeOK /\ OutcomeInv /\ [Next]_vars =>
        [/\ evidence \subseteq evidence' /\ notes \subseteq notes'
         /\ Len(trace) <= Len(trace') /\ trace = SubSeq(trace', 1, Len(trace))
         /\ status = "running"]_<<limits, used, memory, gaps, result, trace>>
  BY NextGrows DEF vars, limits, queue, memory, flags, result
<1>2. QED
  BY <1>1, InitBudgetInv, NextBudgetInv, InitOutcomeInv, NextOutcomeInv, TypeCorrect,
     PTL DEF Spec, OnlyGrows

-----------------------------------------------------------------------------
(* The trace.  It holds at every node but while a call is in flight, when  *)
(* the call is its last event; what a node records is closed in itself,    *)
(* and a note is recorded once because it was not among the notes before.  *)

InCall == {"retrieving", "tool_error"}

\* The i-th of these events, if a call, is answered by the next one, or is the
\* last and the run is still, or ended, in that call.
CallAnswered(events, i, open) ==
    events[i].event = "tool_call" =>
        IF i < Len(events) THEN events[i + 1] = ToolResult(events[i].tool) ELSE open

NotePlaces(events) == {i \in 1..Len(events) : events[i].event = "note_added"}

TraceInv ==
    /\ TraceTellsTheRun
    /\ pc = "retrieving" => Len(trace) > 0 /\ trace[Len(trace)] = ToolCall("retrieve")
    /\ IsFiniteSet(notes)

\* Events by their place in an extended trace.
LEMMA RecordPlaces ==
    ASSUME trace \in Seq(TraceEvent), NEW events \in Seq(TraceEvent), Record(events)
    PROVE  /\ Len(trace) \in Nat /\ Len(events) \in Nat
           /\ Len(trace') = Len(trace) + Len(events)
           /\ \A i \in 1..Len(trace) : trace'[i] = trace[i]
           /\ \A j \in 1..Len(events) : trace'[Len(trace) + j] = events[j]
           /\ \A i \in 1..Len(trace') :
                 i \in 1..Len(trace) \/ \E j \in 1..Len(events) : i = Len(trace) + j
<1>1. /\ Len(trace) \in Nat /\ Len(events) \in Nat
      /\ Len(trace') = Len(trace) + Len(events)
      /\ \A i \in 1..Len(trace) : trace'[i] = trace[i]
      /\ \A j \in 1..Len(events) : trace'[Len(trace) + j] = events[j]
  BY ConcatProperties, LenProperties DEF Record
<1>2. ASSUME NEW i \in 1..Len(trace'), i \notin 1..Len(trace)
      PROVE  \E j \in 1..Len(events) : i = Len(trace) + j
  <2>1. i - Len(trace) \in 1..Len(events) /\ i = Len(trace) + (i - Len(trace))
    BY <1>1, <1>2
  <2>2. QED
    BY <2>1
<1>3. QED
  BY <1>1, <1>2

\* The places of notes in an extended trace.
LEMMA RecordNotes ==
    ASSUME trace \in Seq(TraceEvent), NEW events \in Seq(TraceEvent), Record(events)
    PROVE  NotePlaces(trace') =
              NotePlaces(trace) \cup {Len(trace) + j : j \in NotePlaces(events)}
<1>1. ASSUME NEW i \in NotePlaces(trace')
      PROVE  i \in NotePlaces(trace) \cup {Len(trace) + j : j \in NotePlaces(events)}
  <2>1. CASE i \in 1..Len(trace)
    BY <1>1, <2>1, RecordPlaces DEF NotePlaces
  <2>2. CASE i \notin 1..Len(trace)
    <3>1. PICK j \in 1..Len(events) : i = Len(trace) + j
      BY <1>1, <2>2, RecordPlaces DEF NotePlaces
    <3>2. j \in NotePlaces(events)
      BY <1>1, <3>1, RecordPlaces DEF NotePlaces
    <3>3. QED
      BY <3>1, <3>2
  <2>3. QED
    BY <2>1, <2>2
<1>2. ASSUME NEW i \in NotePlaces(trace) PROVE i \in NotePlaces(trace')
  <2>1. i \in 1..Len(trace') /\ trace'[i] = trace[i]
    BY RecordPlaces DEF NotePlaces
  <2>2. QED
    BY <2>1 DEF NotePlaces
<1>3. ASSUME NEW j \in NotePlaces(events) PROVE Len(trace) + j \in NotePlaces(trace')
  <2>1. Len(trace) + j \in 1..Len(trace') /\ trace'[Len(trace) + j] = events[j]
    BY RecordPlaces DEF NotePlaces
  <2>2. QED
    BY <2>1 DEF NotePlaces
<1>4. QED
  BY <1>1, <1>2, <1>3

\* The parts of the property, with the places of notes named.
LEMMA TraceParts ==
    TraceTellsTheRun <=>
        /\ \A i \in 1..Len(trace) : trace[i].event = "tool_result" =>
              i > 1 /\ trace[i - 1] = ToolCall(trace[i].tool)
        /\ \A i \in 1..Len(trace) : CallAnswered(trace, i, pc \in InCall)
        /\ \A i \in 1..Len(trace) :
              trace[i].event = "stop" <=> i = Len(trace) /\ status # "running"
        /\ Cardinality(NotePlaces(trace)) = Cardinality(notes)
BY DEF TraceTellsTheRun, CallAnswered, InCall, NotePlaces

\* A node that records what is closed in itself keeps the trace.
LEMMA ClosedKeepsTrace ==
    ASSUME TraceInv, trace \in Seq(TraceEvent), NEW events \in Seq(TraceEvent), Record(events),
           pc \notin {"retrieving", "tool_error"}, status = "running", UNCHANGED notes,
           pc' = "retrieving" =>
              Len(events) > 0 /\ events[Len(events)] = ToolCall("retrieve"),
           NotePlaces(events) = {},
           \A j \in 1..Len(events) : events[j].event = "tool_result" =>
              j > 1 /\ events[j - 1] = ToolCall(events[j].tool),
           \A j \in 1..Len(events) : CallAnswered(events, j, pc' \in InCall),
           \A j \in 1..Len(events) :
              events[j].event = "stop" <=> j = Len(events) /\ status' # "running",
           events = <<>> => status' = "running"
    PROVE  TraceInv'
<1>1. /\ Len(trace) \in Nat /\ Len(events) \in Nat
      /\ Len(trace') = Len(trace) + Len(events)
      /\ \A i \in 1..Len(trace) : trace'[i] = trace[i]
      /\ \A j \in 1..Len(events) : trace'[Len(trace) + j] = events[j]
      /\ \A i \in 1..Len(trace') :
            i \in 1..Len(trace) \/ \E j \in 1..Len(events) : i = Len(trace) + j
  BY RecordPlaces
<1>i. /\ \A i \in 1..Len(trace) : trace[i].event = "tool_result" =>
            i > 1 /\ trace[i - 1] = ToolCall(trace[i].tool)
      /\ \A i \in 1..Len(trace) : CallAnswered(trace, i, pc \in InCall)
      /\ \A i \in 1..Len(trace) : trace[i].event # "stop"
      /\ Cardinality(NotePlaces(trace)) = Cardinality(notes)
      /\ IsFiniteSet(notes)
  BY TraceParts DEF TraceInv
<1>2. ASSUME NEW i \in 1..Len(trace'), trace'[i].event = "tool_result"
      PROVE  i > 1 /\ trace'[i - 1] = ToolCall(trace'[i].tool)
  <2>1. CASE i \in 1..Len(trace)
    <3>1. i > 1 /\ i - 1 \in 1..Len(trace)
      BY <1>1, <1>2, <1>i, <2>1
    <3>2. QED
      BY <1>1, <1>2, <1>i, <2>1, <3>1
  <2>2. CASE i \notin 1..Len(trace)
    <3>1. PICK j \in 1..Len(events) : i = Len(trace) + j
      BY <1>1, <2>2
    <3>2. trace'[i] = events[j]
      BY <1>1, <3>1
    <3>3. j > 1 /\ events[j - 1] = ToolCall(events[j].tool)
      BY <1>2, <3>2
    <3>4. j - 1 \in 1..Len(events) /\ i - 1 = Len(trace) + (j - 1) /\ i > 1
      BY <1>1, <3>1, <3>3
    <3>5. trace'[i - 1] = events[j - 1]
      BY <1>1, <3>4
    <3>6. QED
      BY <3>2, <3>3, <3>4, <3>5
  <2>3. QED
    BY <2>1, <2>2
<1>3. ASSUME NEW i \in 1..Len(trace') PROVE CallAnswered(trace', i, pc' \in InCall)
  <2>1. CASE i \in 1..Len(trace)
    <3>1. trace[i].event = "tool_call" =>
             i + 1 \in 1..Len(trace) /\ trace[i + 1] = ToolResult(trace[i].tool)
      BY <1>1, <1>i, <2>1 DEF CallAnswered, InCall
    <3>2. QED
      BY <1>1, <2>1, <3>1 DEF CallAnswered, InCall
  <2>2. CASE i \notin 1..Len(trace)
    <3>1. PICK j \in 1..Len(events) : i = Len(trace) + j
      BY <1>1, <1>3, <2>2
    <3>2. CallAnswered(events, j, pc' \in InCall) /\ trace'[i] = events[j]
      BY <1>1, <3>1
    <3>3. j < Len(events) => i + 1 = Len(trace) + (j + 1) /\ j + 1 \in 1..Len(events)
      BY <1>1, <3>1
    <3>4. j < Len(events) => trace'[i + 1] = events[j + 1]
      BY <1>1, <3>3
    <3>5. i < Len(trace') <=> j < Len(events)
      BY <1>1, <3>1
    <3>6. QED
      BY <3>2, <3>4, <3>5 DEF CallAnswered, InCall
  <2>3. QED
    BY <2>1, <2>2
<1>4. ASSUME NEW i \in 1..Len(trace')
      PROVE  trace'[i].event = "stop" <=> i = Len(trace') /\ status' # "running"
  <2>1. CASE i \in 1..Len(trace)
    <3>1. i = Len(trace') => status' = "running"
      BY <1>1, <2>1
    <3>2. QED
      BY <1>1, <1>i, <2>1, <3>1
  <2>2. CASE i \notin 1..Len(trace)
    <3>1. PICK j \in 1..Len(events) : i = Len(trace) + j
      BY <1>1, <1>4, <2>2
    <3>2. trace'[i] = events[j]
      BY <1>1, <3>1
    <3>3. (i = Len(trace')) <=> (j = Len(events))
      <4> DEFINE before == Len(trace)
                 more == Len(events)
                 after == Len(trace')
      <4>1. /\ before \in Nat /\ more \in Nat /\ j \in Nat
            /\ after = before + more /\ i = before + j
        BY <1>1, <3>1
      <4> HIDE DEF before, more, after
      <4>2. (i = after) <=> (j = more)
        BY ONLY <4>1
      <4>3. QED
        BY ONLY <4>2 DEF more, after
    <3>4. QED
      BY <3>2, <3>3
  <2>3. QED
    BY <2>1, <2>2
<1>5. NotePlaces(trace') = NotePlaces(trace)
  BY RecordNotes
<1>6. TraceTellsTheRun'
  BY <1>2, <1>3, <1>4, <1>5, <1>i DEF TraceTellsTheRun, CallAnswered, InCall, NotePlaces
<1>7. pc' = "retrieving" => Len(trace') > 0 /\ trace'[Len(trace')] = ToolCall("retrieve")
  <2>1. ASSUME Len(events) > 0
        PROVE  Len(trace') > 0 /\ trace'[Len(trace')] = events[Len(events)]
    BY <1>1, <2>1
  <2>2. QED
    BY <2>1
<1>8. QED
  BY <1>6, <1>7, <1>i DEF TraceInv

\* A run starts with an empty trace and no notes.
LEMMA InitTraceInv == Init => TraceInv
<1> SUFFICES ASSUME Init PROVE TraceInv
  OBVIOUS
<1>1. trace = <<>> /\ 1..Len(trace) = {} /\ notes = {} /\ pc = "plan"
  BY EmptySeq DEF Init
<1>2. NotePlaces(trace) = {}
  BY <1>1 DEF NotePlaces
<1>3. QED
  BY <1>1, <1>2, TraceParts, FS_EmptySet DEF TraceInv

\* The answer of a retrieval closes the call in flight and records each new
\* note once.
LEMMA AnswerKeepsTrace ==
    ASSUME TypeOK, OutcomeInv, TraceInv, NEW passages \in Results, AbsorbResult(passages),
           pc = "retrieving", pc' = "critique", UNCHANGED status
    PROVE  TraceInv'
<1> DEFINE new == NotesFrom(passages) \ notes
           n == Cardinality(new)
           added == [i \in 1..n |-> Event("note_added", NoTool)]
           events == <<ToolResult("retrieve")>> \o added
<1>1. IsFiniteSet(notes) /\ IsFiniteSet(new) /\ n \in Nat
  BY LoopAssumption, NotesFromFinite, FS_Difference, FS_CardinalityType DEF TraceInv
<1>2. IsFiniteSet(notes') /\ Cardinality(notes') = Cardinality(notes) + n
  <2>1. notes' = notes \cup new /\ notes \cap new = {}
    BY DEF AbsorbResult
  <2>2. Cardinality(notes) \in Nat
    BY <1>1, FS_CardinalityType
  <2> HIDE DEF new
  <2>3. /\ IsFiniteSet(notes \cup new)
        /\ Cardinality(notes \cup new) = Cardinality(notes) + n - Cardinality(notes \cap new)
    BY <1>1, FS_Union
  <2>4. Cardinality(notes \cap new) = 0
    BY <2>1, FS_EmptySet
  <2>5. QED
    BY <1>1, <2>1, <2>2, <2>3, <2>4
<1>3. Record(events) /\ events \in Seq(TraceEvent) /\ trace \in Seq(TraceEvent)
  BY <1>1, AnswerEventsType DEF AbsorbResult, TypeOK, TraceEvent, EventName
<1>4. /\ Len(events) = n + 1
      /\ events[1] = ToolResult("retrieve")
      /\ \A j \in 2..(n + 1) : events[j] = Event("note_added", NoTool)
  <2>1. added \in Seq(TraceEvent) /\ Len(added) = n
        /\ \A j \in 1..n : added[j] = Event("note_added", NoTool)
    <3>1. Event("note_added", NoTool) \in TraceEvent
      BY DEF Event, TraceEvent, EventName, NoTool
    <3> HIDE DEF n
    <3>2. QED
      BY <1>1, <3>1
  <2>2. <<ToolResult("retrieve")>> \in Seq(TraceEvent)
    BY DEF ToolResult, Event, TraceEvent, EventName, Tool
  <2> HIDE DEF added, n
  <2>3. Len(events) = n + 1 /\ events[1] = ToolResult("retrieve")
    BY <1>1, <2>1, <2>2
  <2>4. ASSUME NEW j \in 2..(n + 1) PROVE events[j] = Event("note_added", NoTool)
    <3>1. j - 1 \in 1..n /\ events[j] = added[j - 1]
      BY <1>1, <2>1, <2>2
    <3>2. QED
      BY <2>1, <3>1
  <2>5. QED
    BY <2>3, <2>4
<1> HIDE DEF events, added, n, new
<1>5. /\ Len(trace) \in Nat
      /\ Len(trace') = Len(trace) + (n + 1)
      /\ \A i \in 1..Len(trace) : trace'[i] = trace[i]
      /\ \A j \in 1..(n + 1) : trace'[Len(trace) + j] = events[j]
      /\ \A i \in 1..Len(trace') :
            i \in 1..Len(trace) \/ \E j \in 1..(n + 1) : i = Len(trace) + j
  <2>1. /\ Len(trace) \in Nat
        /\ Len(trace') = Len(trace) + Len(events)
        /\ \A i \in 1..Len(trace) : trace'[i] = trace[i]
        /\ \A j \in 1..Len(events) : trace'[Len(trace) + j] = events[j]
        /\ \A i \in 1..Len(trace') :
              i \in 1..Len(trace) \/ \E j \in 1..Len(events) : i = Len(trace) + j
    BY ONLY <1>3, RecordPlaces
  <2>2. Len(events) = n + 1
    BY <1>4
  <2>3. QED
    BY ONLY <2>1, <2>2
<1>6. /\ trace'[Len(trace) + 1] = ToolResult("retrieve")
      /\ \A i \in 1..Len(trace') : i <= Len(trace) \/ i = Len(trace) + 1
                                \/ trace'[i] = Event("note_added", NoTool)
  <2>1. trace'[Len(trace) + 1] = ToolResult("retrieve")
    BY <1>1, <1>4, <1>5
  <2>2. ASSUME NEW i \in 1..Len(trace'), ~(i <= Len(trace)), i # Len(trace) + 1
        PROVE  trace'[i] = Event("note_added", NoTool)
    <3>1. PICK j \in 1..(n + 1) : i = Len(trace) + j
      BY <1>5, <2>2
    <3>2. j \in 2..(n + 1)
      BY <1>1, <1>5, <2>2, <3>1
    <3>3. trace'[i] = events[j]
      BY <1>5, <3>1
    <3>4. QED
      BY <1>4, <3>2, <3>3
  <2>3. QED
    BY <2>1, <2>2
<1>i. /\ \A i \in 1..Len(trace) : trace[i].event = "tool_result" =>
            i > 1 /\ trace[i - 1] = ToolCall(trace[i].tool)
      /\ \A i \in 1..Len(trace) : CallAnswered(trace, i, pc \in InCall)
      /\ \A i \in 1..Len(trace) : trace[i].event # "stop"
      /\ Cardinality(NotePlaces(trace)) = Cardinality(notes)
      /\ Len(trace) > 0 /\ trace[Len(trace)] = ToolCall("retrieve")
      /\ status = "running"
  BY TraceParts DEF TraceInv, OutcomeInv
<1>e. /\ Event("note_added", NoTool).event = "note_added"
      /\ ToolResult("retrieve").event = "tool_result" /\ ToolResult("retrieve").tool = "retrieve"
      /\ ToolCall("retrieve").tool = "retrieve"
  BY DEF Event, ToolResult, ToolCall
<1>7. ASSUME NEW i \in 1..Len(trace'), trace'[i].event = "tool_result"
      PROVE  i > 1 /\ trace'[i - 1] = ToolCall(trace'[i].tool)
  <2>1. CASE i <= Len(trace)
    <3>1. i \in 1..Len(trace) /\ trace'[i] = trace[i]
      BY <1>5, <2>1
    <3>2. i > 1 /\ i - 1 \in 1..Len(trace) /\ trace[i - 1] = ToolCall(trace[i].tool)
      BY <1>5, <1>7, <1>i, <3>1
    <3>3. trace'[i - 1] = trace[i - 1]
      BY <1>5, <3>2
    <3>4. QED
      BY <3>1, <3>2, <3>3
  <2>2. CASE i = Len(trace) + 1
    <3>1. i > 1 /\ i - 1 = Len(trace) /\ i - 1 \in 1..Len(trace)
      BY <1>5, <1>i, <2>2
    <3>2. trace'[i - 1] = ToolCall("retrieve") /\ trace'[i].tool = "retrieve"
      BY <1>5, <1>6, <1>i, <1>e, <2>2, <3>1
    <3>3. QED
      BY <3>1, <3>2
  <2>3. QED
    BY <1>6, <1>7, <1>e, <2>1, <2>2
<1>8. ASSUME NEW i \in 1..Len(trace') PROVE CallAnswered(trace', i, pc' \in InCall)
  <2>1. CASE i < Len(trace)
    <3>1. i \in 1..Len(trace) /\ i + 1 \in 1..Len(trace)
      BY <1>5, <2>1
    <3>2. trace'[i] = trace[i] /\ trace'[i + 1] = trace[i + 1]
      BY <1>5, <3>1
    <3>3. i < Len(trace')
      BY <1>1, <1>5, <2>1
    <3>4. CallAnswered(trace, i, pc \in InCall)
      BY <1>i, <3>1
    <3>5. QED
      BY <2>1, <3>2, <3>3, <3>4 DEF CallAnswered, InCall
  <2>2. CASE i = Len(trace)
    <3>1. trace'[i] = ToolCall("retrieve") /\ trace'[i + 1] = ToolResult("retrieve")
      BY <1>5, <1>6, <1>i, <2>2
    <3>2. i < Len(trace')
      BY <1>1, <1>5, <2>2
    <3>3. QED
      BY <1>e, <3>1, <3>2 DEF CallAnswered, InCall
  <2>3. CASE i > Len(trace)
    <3>1. trace'[i] = ToolResult("retrieve") \/ trace'[i] = Event("note_added", NoTool)
      BY <1>5, <1>6, <2>3
    <3>2. QED
      BY <1>e, <3>1 DEF CallAnswered, InCall
  <2>4. QED
    BY <1>5, <2>1, <2>2, <2>3
<1>9. ASSUME NEW i \in 1..Len(trace') PROVE trace'[i].event # "stop"
  <2>1. CASE i <= Len(trace)
    <3>1. i \in 1..Len(trace) /\ trace'[i] = trace[i]
      BY <1>5, <2>1
    <3>2. QED
      BY <1>i, <3>1
  <2>2. CASE i > Len(trace)
    <3>1. trace'[i] = ToolResult("retrieve") \/ trace'[i] = Event("note_added", NoTool)
      <4>1. i \in 1..Len(trace') /\ ~(i <= Len(trace))
        BY <1>5, <2>2
      <4>2. QED
        BY ONLY <1>6, <4>1, Zenon
    <3>2. QED
      BY <1>e, <3>1
  <2>3. QED
    BY <1>5, <2>1, <2>2
<1>10. Cardinality(NotePlaces(trace')) = Cardinality(notes')
  <2> DEFINE last == (Len(trace) + 2)..(Len(trace) + n + 1)
  <2>1. NotePlaces(trace') = NotePlaces(trace) \cup last
    <3>1. ASSUME NEW i \in NotePlaces(trace') PROVE i \in NotePlaces(trace) \cup last
      <4>1. i # Len(trace) + 1
        BY <1>6, <1>e, <3>1 DEF NotePlaces
      <4>2. CASE i <= Len(trace)
        BY <1>5, <3>1, <4>2 DEF NotePlaces
      <4>3. CASE i > Len(trace)
        BY <1>1, <1>5, <3>1, <4>1, <4>3 DEF NotePlaces
      <4>4. QED
        BY <1>5, <4>2, <4>3 DEF NotePlaces
    <3>2. ASSUME NEW i \in NotePlaces(trace) PROVE i \in NotePlaces(trace')
      BY <1>1, <1>5, <3>2 DEF NotePlaces
    <3>3. ASSUME NEW i \in last PROVE i \in NotePlaces(trace')
      <4>1. i \in 1..Len(trace') /\ ~(i <= Len(trace)) /\ i # Len(trace) + 1
        BY <1>1, <1>5, <3>3
      <4>2. trace'[i] = Event("note_added", NoTool)
        BY <1>6, <4>1
      <4>3. QED
        BY <1>e, <4>1, <4>2 DEF NotePlaces
    <3>4. QED
      BY <3>1, <3>2, <3>3
  <2>2. IsFiniteSet(NotePlaces(trace)) /\ NotePlaces(trace) \cap last = {}
    <3>1. IsFiniteSet(1..Len(trace))
      BY <1>5, FS_Interval
    <3>2. NotePlaces(trace) \subseteq 1..Len(trace)
      BY DEF NotePlaces
    <3>3. QED
      BY <1>5, <3>1, <3>2, FS_Subset
  <2>3. IsFiniteSet(last) /\ Cardinality(last) = n
    BY <1>1, <1>5, FS_Interval
  <2> HIDE DEF last
  <2>4. Cardinality(NotePlaces(trace)) \in Nat
    BY <2>2, FS_CardinalityType
  <2>5. Cardinality(NotePlaces(trace) \cup last) =
           Cardinality(NotePlaces(trace)) + n - Cardinality(NotePlaces(trace) \cap last)
    BY <2>2, <2>3, FS_Union
  <2>6. Cardinality(NotePlaces(trace) \cap last) = 0
    BY <2>2, FS_EmptySet
  <2>7. QED
    BY <1>1, <1>2, <1>i, <2>1, <2>4, <2>5, <2>6
<1>11. TraceTellsTheRun'
  BY <1>7, <1>8, <1>9, <1>10, <1>i DEF TraceTellsTheRun, CallAnswered, InCall, NotePlaces
<1>12. QED
  BY <1>2, <1>11 DEF TraceInv

\* Every node keeps the trace.
LEMMA NextTraceInv ==
    TypeOK /\ OutcomeInv /\ TraceInv /\ [Next]_vars => TraceInv'
<1> SUFFICES ASSUME TypeOK, OutcomeInv, TraceInv, [Next]_vars PROVE TraceInv'
  OBVIOUS
<1> USE DEF limits, queue, memory, flags, result
<1>t. trace \in Seq(TraceEvent)
  BY DEF TypeOK, TraceEvent, EventName
<1>r. ~Ended => status = "running"
  BY RunningMeansRunning
\* Nodes that record nothing.
<1>1. ASSUME UNCHANGED <<trace, notes, status>>, pc' # "retrieving",
             pc \in {"retrieving", "tool_error"} => pc' \in {"retrieving", "tool_error"}
      PROVE  TraceInv'
  BY <1>1 DEF TraceInv, TraceTellsTheRun
<1>2. CASE \/ LoopEnds \/ RetrieveCapSpent \/ RetrieveRaises \/ LexiconRejectsTerm
           \/ LexiconCapZero \/ LexiconPassedOver \/ EnqueueFollowUps
           \/ SearchNotesCapSpent \/ AnswerDirectly
  BY <1>1, <1>2 DEF LoopEnds, RetrieveCapSpent, RetrieveRaises, LexiconRejectsTerm,
     LexiconCapZero, LexiconPassedOver, EnqueueFollowUps, SearchNotesCapSpent, AnswerDirectly
<1>3. CASE PlanNode \/ CritiqueNode
  <2>1. PICK name \in {"plan_created", "critique"} : Record(<<Event(name, NoTool)>>)
    BY <1>3 DEF PlanNode, CritiqueNode
  <2>2. PICK events \in Seq(TraceEvent) :
           Record(events) /\ Len(events) = 1 /\ events[1].event = name
    BY <2>1, NodeEventsType DEF Event
  <2>3. /\ pc \in {"plan", "critique"} /\ pc' \in {"loop", "answer", "lexicon"}
        /\ UNCHANGED <<notes, status>>
    BY <1>3 DEF PlanNode, CritiqueNode
  <2>4. status = "running" /\ status' = "running"
    BY <1>r, <2>3 DEF Ended
  <2>5. \A j \in 1..Len(events) : events[j].event \in {"plan_created", "critique"}
    BY <2>2
  <2>6. NotePlaces(events) = {}
    BY <2>5 DEF NotePlaces
  <2>7. /\ \A j \in 1..Len(events) : CallAnswered(events, j, pc' \in InCall)
        /\ \A j \in 1..Len(events) : events[j].event = "tool_result" =>
              j > 1 /\ events[j - 1] = ToolCall(events[j].tool)
        /\ \A j \in 1..Len(events) :
              events[j].event = "stop" <=> j = Len(events) /\ status' # "running"
    BY <2>4, <2>5 DEF CallAnswered
  <2>8. QED
    BY <1>t, <2>2, <2>3, <2>4, <2>6, <2>7, ClosedKeepsTrace
<1>4. CASE LexiconNode \/ SearchNotesNode
  <2>1. PICK tool \in Tool : Record(<<ToolCall(tool), ToolResult(tool)>>)
    BY <1>4 DEF LexiconNode, SearchNotesNode, Tool
  <2>2. PICK events \in Seq(TraceEvent) :
           /\ Record(events) /\ Len(events) = 2
           /\ events[1] = ToolCall(tool) /\ events[2] = ToolResult(tool)
    BY <2>1, NodeEventsType
  <2>3. /\ pc \in {"lexicon", "answer"} /\ pc' \in {"enqueue", "finish"}
        /\ UNCHANGED <<notes, status>>
    BY <1>4 DEF LexiconNode, SearchNotesNode
  <2>4. status = "running" /\ status' = "running"
    BY <1>r, <2>3 DEF Ended
  <2>5. /\ events[1].event = "tool_call" /\ events[1].tool = tool
        /\ events[2].event = "tool_result" /\ events[2].tool = tool
        /\ \A j \in 1..Len(events) : j = 1 \/ j = 2
    BY <2>2 DEF Event, ToolCall, ToolResult
  <2>6. NotePlaces(events) = {}
    BY <2>5 DEF NotePlaces
  <2>7. /\ \A j \in 1..Len(events) : CallAnswered(events, j, pc' \in InCall)
        /\ \A j \in 1..Len(events) : events[j].event = "tool_result" =>
              j > 1 /\ events[j - 1] = ToolCall(events[j].tool)
        /\ \A j \in 1..Len(events) :
              events[j].event = "stop" <=> j = Len(events) /\ status' # "running"
    BY <2>2, <2>4, <2>5 DEF CallAnswered
  <2>8. QED
    BY <1>t, <2>2, <2>3, <2>4, <2>6, <2>7, ClosedKeepsTrace
<1>5. CASE TakeSubQuestion
  <2>1. CASE Head(pending) \in requested
    BY <1>1, <1>5, <2>1 DEF TakeSubQuestion
  <2>2. CASE Head(pending) \notin requested
    <3>1. /\ pc = "loop" /\ pc' = "retrieving" /\ UNCHANGED <<notes, status>>
          /\ Record(<<ToolCall("retrieve")>>)
      BY <1>5, <2>2 DEF TakeSubQuestion
    <3>2. PICK events \in Seq(TraceEvent) :
             /\ Record(events) /\ Len(events) = 1 /\ events[1] = ToolCall("retrieve")
             /\ events[1].event = "tool_call"
      BY <3>1, NodeEventsType DEF Event, ToolCall
    <3>3. status = "running" /\ status' = "running"
      BY <1>r, <3>1 DEF Ended
    <3>4. \A j \in 1..Len(events) : j = Len(events) /\ events[j].event = "tool_call"
      BY <3>2
    <3>5. NotePlaces(events) = {}
      BY <3>4 DEF NotePlaces
    <3>6. /\ \A j \in 1..Len(events) : CallAnswered(events, j, pc' \in InCall)
          /\ \A j \in 1..Len(events) : events[j].event = "tool_result" =>
                j > 1 /\ events[j - 1] = ToolCall(events[j].tool)
          /\ \A j \in 1..Len(events) :
                events[j].event = "stop" <=> j = Len(events) /\ status' # "running"
      BY <3>1, <3>2, <3>3, <3>4 DEF CallAnswered, InCall
    <3>7. Len(events) > 0 /\ events[Len(events)] = ToolCall("retrieve")
      BY <3>2
    <3>8. QED
      BY <1>t, <3>1, <3>2, <3>3, <3>5, <3>6, <3>7, ClosedKeepsTrace
  <2>3. QED
    BY <2>1, <2>2
<1>6. CASE RetrieveReturns
  <2>1. PICK passages \in Results : AbsorbResult(passages)
    BY <1>6 DEF RetrieveReturns
  <2>2. pc = "retrieving" /\ pc' = "critique" /\ UNCHANGED status
    BY <1>6 DEF RetrieveReturns
  <2>3. QED
    BY <2>1, <2>2, AnswerKeepsTrace
<1>7. CASE FinishNode
  <2>1. /\ pc = "finish" /\ pc' = "returned" /\ UNCHANGED notes
        /\ Record(<<Event("synthesize", NoTool), Event("stop", NoTool)>>)
        /\ status' = DecideOutcome[1]
    BY <1>7 DEF FinishNode
  <2>2. PICK events \in Seq(TraceEvent) :
           /\ Record(events) /\ Len(events) = 2
           /\ events[1].event = "synthesize" /\ events[2].event = "stop"
    BY <2>1, NodeEventsType DEF Event
  <2>3. status = "running" /\ status' # "running"
    BY <1>r, <2>1 DEF Ended, DecideOutcome
  <2>4. \A j \in 1..Len(events) : j = 1 \/ j = 2
    BY <2>2
  <2>5. NotePlaces(events) = {} /\ events # <<>>
    BY <2>2, <2>4, EmptySeq DEF NotePlaces
  <2>6. /\ \A j \in 1..Len(events) : CallAnswered(events, j, pc' \in InCall)
        /\ \A j \in 1..Len(events) : events[j].event = "tool_result" =>
              j > 1 /\ events[j - 1] = ToolCall(events[j].tool)
        /\ \A j \in 1..Len(events) :
              events[j].event = "stop" <=> j = Len(events) /\ status' # "running"
    BY <2>2, <2>3, <2>4 DEF CallAnswered
  <2>7. QED
    BY <1>t, <2>1, <2>2, <2>3, <2>5, <2>6, ClosedKeepsTrace DEF InCall
<1>8. CASE Stopped \/ UNCHANGED vars
  BY <1>8 DEF Stopped, vars, TraceInv, TraceTellsTheRun
<1>9. QED
  BY <1>2, <1>3, <1>4, <1>5, <1>6, <1>7, <1>8 DEF Next

\* The trace of any run tells which calls were made and which of them were
\* answered, whether it has an outcome, and how many notes it wrote.
THEOREM TraceIsTrue == Spec => []TraceTellsTheRun
<1>1. Init => TraceInv
  BY InitTraceInv
<1>2. TypeOK /\ OutcomeInv /\ TraceInv /\ [Next]_vars => TraceInv'
  BY NextTraceInv
<1>3. TraceInv => TraceTellsTheRun
  BY DEF TraceInv
<1>4. QED
  BY <1>1, <1>2, <1>3, InitBudgetInv, NextBudgetInv, InitOutcomeInv, NextOutcomeInv,
     TypeCorrect, PTL DEF Spec


-----------------------------------------------------------------------------
(* Convergence.  While the evidence is insufficient at most one term of    *)
(* the question is covered, and once covered it stays: so the terms that   *)
(* are missing are all of them or all but that one.                        *)

InOrder(queued) == {queued[i] : i \in 1..Len(queued)}
OnTheWay == requested \cup InOrder(pending)
LeadsWith(extra) == InOrder(plan) \cup {QuestionText, TermsText[run.wanted], extra}

ConvergeInv ==
    /\ IsFiniteSet(notes)
    /\ pc = "plan" => requested = {}
    /\ \E extra \in SubQuestions : OnTheWay \subseteq LeadsWith(extra)
    /\ ~Sufficient(run.wanted, notes) => OnTheWay \subseteq LeadsWith(MissingText)

\* Notes that cover a term without being sufficient cover that term only.
LEMMA OneTermCovered ==
    ASSUME NEW wanted \in SUBSET Terms, NEW ns, IsFiniteSet(ns),
           ~Sufficient(wanted, ns), Covered(wanted, ns) # {}
    PROVE  IsFiniteSet(Covered(wanted, ns)) /\ Cardinality(Covered(wanted, ns)) = 1
<1>1. IsFiniteSet(Covered(wanted, ns)) /\ Cardinality(Covered(wanted, ns)) \in Nat
  <2>1. Covered(wanted, ns) \subseteq Terms
    BY DEF Covered
  <2>2. IsFiniteSet(Covered(wanted, ns))
    BY <2>1, FS_Subset, TermsAssumption
  <2>3. QED
    BY <2>2, FS_CardinalityType
<1>2. IsFiniteSet(Relevant(wanted, ns)) /\ Cardinality(Relevant(wanted, ns)) \in Nat
  <2>1. Relevant(wanted, ns) \subseteq ns
    BY DEF Relevant, Grounded
  <2>2. IsFiniteSet(Relevant(wanted, ns))
    BY <2>1, FS_Subset
  <2>3. QED
    BY <2>2, FS_CardinalityType
<1>3. Relevant(wanted, ns) # {}
  <2>1. PICK t \in Covered(wanted, ns) : TRUE
    OBVIOUS
  <2>2. t \in wanted /\ \E n \in Grounded(ns) : t \in TextTerms[n.claim]
    BY <2>1 DEF Covered
  <2>3. QED
    BY <2>2 DEF Relevant
<1>4. Cardinality(Relevant(wanted, ns)) # 0 /\ Cardinality(Covered(wanted, ns)) # 0
  BY <1>1, <1>2, <1>3, FS_EmptySet
<1>5. ~(Cardinality(Covered(wanted, ns)) + Cardinality(Relevant(wanted, ns)) >= 3)
  BY <1>3 DEF Sufficient, Score, SufficientScore
<1>6. QED
  BY <1>1, <1>2, <1>4, <1>5

\* More notes cover no less; while they do not suffice, no more than that term.
LEMMA MissingStays ==
    ASSUME NEW wanted \in SUBSET Terms, NEW ns, NEW more, IsFiniteSet(more), ns \subseteq more,
           ~Sufficient(wanted, ns), ~Sufficient(wanted, more)
    PROVE  Missing(wanted, ns) = wanted \/ Missing(wanted, more) = Missing(wanted, ns)
<1>1. CASE Covered(wanted, ns) = {}
  BY <1>1 DEF Missing
<1>2. CASE Covered(wanted, ns) # {}
  <2>1. Covered(wanted, ns) \subseteq Covered(wanted, more)
    BY DEF Covered, Grounded
  <2>2. IsFiniteSet(ns)
    BY FS_Subset
  <2>3. Cardinality(Covered(wanted, ns)) = 1
    BY <1>2, <2>2, OneTermCovered
  <2>4. IsFiniteSet(Covered(wanted, more)) /\ Cardinality(Covered(wanted, more)) = 1
    BY <1>2, <2>1, OneTermCovered
  <2>5. Covered(wanted, ns) = Covered(wanted, more)
    BY <2>1, <2>3, <2>4, FS_Subset
  <2>6. QED
    BY <2>5 DEF Missing
<1>3. QED
  BY <1>1, <1>2

\* A follow-up is all that joins a queue.
LEMMA EnqueueAdds ==
    ASSUME NEW queued \in Seq(SubQuestions), NEW f \in SubQuestions
    PROVE  /\ Enqueue(queued, f) \in Seq(SubQuestions)
           /\ InOrder(Enqueue(queued, f)) \subseteq InOrder(queued) \cup {f}
<1>1. CASE Enqueue(queued, f) = queued
  BY <1>1
<1>2. CASE Enqueue(queued, f) = Append(queued, f)
  <2>1. /\ Len(Append(queued, f)) = Len(queued) + 1 /\ Len(queued) \in Nat
        /\ \A i \in 1..Len(queued) : Append(queued, f)[i] = queued[i]
        /\ Append(queued, f)[Len(queued) + 1] = f
    BY AppendProperties, LenProperties
  <2>2. \A i \in 1..(Len(queued) + 1) : i \in 1..Len(queued) \/ i = Len(queued) + 1
    BY <2>1
  <2>3. InOrder(Append(queued, f)) \subseteq InOrder(queued) \cup {f}
    BY <2>1, <2>2 DEF InOrder
  <2>4. QED
    BY <1>2, <2>3, AppendProperties
<1>3. QED
  BY <1>1, <1>2 DEF Enqueue

LEMMA TailTakes ==
    ASSUME NEW queued \in Seq(SubQuestions), queued # <<>>
    PROVE  InOrder(Tail(queued)) \cup {Head(queued)} \subseteq InOrder(queued)
<1>1. /\ Len(queued) \in Nat \ {0} /\ Head(queued) = queued[1]
      /\ Len(Tail(queued)) = Len(queued) - 1
      /\ \A j \in 1..Len(Tail(queued)) : Tail(queued)[j] = queued[j + 1]
  BY HeadTailProperties, LenProperties, EmptySeq
<1>2. \A j \in 1..Len(Tail(queued)) : j + 1 \in 1..Len(queued)
  BY <1>1
<1>3. QED
  BY <1>1, <1>2 DEF InOrder

LEMMA MissingIsASubQuestion ==
    ASSUME TypeOK
    PROVE  /\ run.wanted \in SUBSET Terms
           /\ TermsText[run.wanted] \in SubQuestions /\ MissingText \in SubQuestions
           /\ QuestionText \in SubQuestions
<1>1. run \in RunConfiguration
  BY LoopAssumption DEF TypeOK
<1>2. run.wanted \in SUBSET Terms
  BY <1>1 DEF RunConfiguration
<1>3. Missing(run.wanted, notes) \in SUBSET Terms
  BY <1>2 DEF Missing
<1>4. QED
  BY <1>2, <1>3, LoopAssumption DEF MissingText

LEMMA InitConvergeInv == Init => ConvergeInv
<1> SUFFICES ASSUME Init PROVE ConvergeInv
  OBVIOUS
<1>1. notes = {} /\ requested = {} /\ pending = <<>>
  BY DEF Init
<1>2. OnTheWay = {}
  BY <1>1, EmptySeq DEF OnTheWay, InOrder
<1>3. QED
  BY <1>1, <1>2, FS_EmptySet, LoopAssumption DEF ConvergeInv

\* An answer leaves the leads alone that are still missing.
LEMMA AnswerConverges ==
    ASSUME TypeOK, ConvergeInv, OutcomeInv, RetrieveReturns
    PROVE  ConvergeInv'
<1>1. PICK passages \in Results : AbsorbResult(passages)
  BY DEF RetrieveReturns
<1>2. /\ pc = "retrieving" /\ pc' = "critique" /\ run' = run /\ plan' = plan
      /\ pending' = pending /\ requested' = requested
      /\ notes' = notes \cup NotesFrom(passages)
  BY <1>1 DEF RetrieveReturns, AbsorbResult, limits, queue
<1>3. ~Sufficient(run.wanted, notes)
  BY <1>2 DEF OutcomeInv
<1>4. OnTheWay \subseteq LeadsWith(MissingText) /\ IsFiniteSet(notes)
  BY <1>3 DEF ConvergeInv
<1>5. IsFiniteSet(notes')
  <2>1. IsFiniteSet(NotesFrom(passages))
    BY NotesFromFinite, LoopAssumption
  <2>2. QED
    BY <1>2, <1>4, <2>1, FS_Union
<1>6. OnTheWay' = OnTheWay /\ \A extra : LeadsWith(extra)' = LeadsWith(extra)
  BY <1>2 DEF OnTheWay, LeadsWith
<1>7. \E extra \in SubQuestions : OnTheWay' \subseteq LeadsWith(extra)'
  BY <1>4, <1>6, MissingIsASubQuestion
<1>8. ASSUME ~Sufficient(run.wanted, notes)' PROVE OnTheWay' \subseteq LeadsWith(MissingText)'
  <2>1. run.wanted \in SUBSET Terms /\ ~Sufficient(run.wanted, notes') /\ notes \subseteq notes'
    BY <1>2, <1>8, MissingIsASubQuestion
  <2>2. Missing(run.wanted, notes) = run.wanted \/ Missing(run.wanted, notes') = Missing(run.wanted, notes)
    BY <1>3, <1>5, <2>1, MissingStays
  <2>3. MissingText = TermsText[run.wanted] \/ MissingText' = MissingText
    BY <1>2, <2>2 DEF MissingText
  <2>4. LeadsWith(MissingText) \subseteq LeadsWith(MissingText')
    BY <2>3 DEF LeadsWith
  <2>5. LeadsWith(MissingText)' = LeadsWith(MissingText')
    BY <1>2 DEF LeadsWith
  <2>6. QED
    BY <1>4, <1>6, <2>4, <2>5
<1>9. QED
  BY <1>2, <1>5, <1>7, <1>8 DEF ConvergeInv

LEMMA EnqueueConverges ==
    ASSUME TypeOK, ConvergeInv, OutcomeInv, EnqueueFollowUps
    PROVE  ConvergeInv'
<1> DEFINE first == IF "no_evidence" \in gaps THEN Enqueue(pending, QuestionText) ELSE pending
<1>1. /\ pc = "enqueue" /\ pc' = "loop" /\ run' = run /\ plan' = plan
      /\ requested' = requested /\ notes' = notes
      /\ pending' = IF "uncovered_terms" \in gaps THEN Enqueue(first, MissingText) ELSE first
  BY DEF EnqueueFollowUps, limits, memory
<1>2. ~Sufficient(run.wanted, notes)
  BY <1>1 DEF OutcomeInv
<1>3. OnTheWay \subseteq LeadsWith(MissingText) /\ IsFiniteSet(notes)
  BY <1>2 DEF ConvergeInv
<1>4. first \in Seq(SubQuestions) /\ InOrder(first) \subseteq InOrder(pending) \cup {QuestionText}
  BY EnqueueAdds, MissingIsASubQuestion DEF TypeOK
<1> HIDE DEF first
<1>5. InOrder(pending') \subseteq InOrder(first) \cup {MissingText}
  BY <1>1, <1>4, EnqueueAdds, MissingIsASubQuestion
<1>6. OnTheWay' \subseteq LeadsWith(MissingText)
  BY <1>1, <1>3, <1>4, <1>5 DEF OnTheWay, LeadsWith
<1>7. LeadsWith(MissingText)' = LeadsWith(MissingText) /\ \A extra : LeadsWith(extra)' = LeadsWith(extra)
  BY <1>1 DEF LeadsWith, MissingText
<1>8. QED
  BY <1>1, <1>3, <1>6, <1>7, MissingIsASubQuestion DEF ConvergeInv

LEMMA NextConvergeInv ==
    TypeOK /\ OutcomeInv /\ ConvergeInv /\ [Next]_vars => ConvergeInv'
<1> SUFFICES ASSUME TypeOK, OutcomeInv, ConvergeInv, [Next]_vars PROVE ConvergeInv'
  OBVIOUS
<1>1. ASSUME UNCHANGED <<run, plan, requested, pending, notes>>, pc' = pc \/ pc' # "plan"
      PROVE  ConvergeInv'
  <2>1. /\ OnTheWay' = OnTheWay /\ MissingText' = MissingText
        /\ LeadsWith(MissingText)' = LeadsWith(MissingText)
        /\ \A extra : LeadsWith(extra)' = LeadsWith(extra)
    BY <1>1 DEF OnTheWay, LeadsWith, MissingText
  <2>2. Sufficient(run.wanted, notes)' = Sufficient(run.wanted, notes)
    BY <1>1
  <2>3. QED
    BY <1>1, <2>1, <2>2 DEF ConvergeInv
<1> USE DEF limits, queue, memory, flags, result
<1>2. CASE PlanNode
  <2>1. /\ pc = "plan" /\ pc' = "loop" /\ pending' = plan' /\ requested' = requested
        /\ run' = run /\ notes' = notes
    BY <1>2 DEF PlanNode
  <2>2. requested = {} /\ IsFiniteSet(notes)
    BY <2>1 DEF ConvergeInv
  <2>3. OnTheWay' \subseteq InOrder(plan')
    BY <2>1, <2>2 DEF OnTheWay
  <2>4. \A extra : OnTheWay' \subseteq LeadsWith(extra)'
    BY <2>3 DEF LeadsWith
  <2>5. OnTheWay' \subseteq LeadsWith(MissingText)'
    BY <2>3 DEF LeadsWith
  <2>6. QED
    BY <2>1, <2>2, <2>4, <2>5, LoopAssumption DEF ConvergeInv
<1>3. CASE TakeSubQuestion
  <2>1. /\ pc = "loop" /\ pc' \in {"loop", "retrieving"} /\ pending # <<>> /\ pending' = Tail(pending)
        /\ requested' = requested \cup {Head(pending)}
        /\ UNCHANGED <<run, plan, notes>>
    BY <1>3 DEF TakeSubQuestion, Remember
  <2>2. OnTheWay' \subseteq OnTheWay
    BY <2>1, TailTakes DEF OnTheWay, TypeOK
  <2>3. /\ MissingText' = MissingText /\ LeadsWith(MissingText)' = LeadsWith(MissingText)
        /\ \A extra : LeadsWith(extra)' = LeadsWith(extra)
        /\ Sufficient(run.wanted, notes)' = Sufficient(run.wanted, notes)
    BY <2>1 DEF LeadsWith, MissingText
  <2>4. QED
    BY <2>1, <2>2, <2>3 DEF ConvergeInv
<1>4. CASE RetrieveReturns
  BY <1>4, AnswerConverges
<1>5. CASE EnqueueFollowUps
  BY <1>5, EnqueueConverges
<1>6. CASE \/ LoopEnds \/ RetrieveCapSpent \/ RetrieveRaises \/ CritiqueNode \/ LexiconNode
           \/ LexiconRejectsTerm \/ LexiconCapZero \/ LexiconPassedOver \/ SearchNotesNode
           \/ SearchNotesCapSpent \/ AnswerDirectly \/ FinishNode
  <2>1. UNCHANGED <<run, plan, requested, pending, notes>> /\ pc' # "plan"
    BY <1>6 DEF LoopEnds, RetrieveCapSpent, RetrieveRaises, CritiqueNode, LexiconNode,
                LexiconRejectsTerm, LexiconCapZero, LexiconPassedOver, SearchNotesNode,
                SearchNotesCapSpent, AnswerDirectly, FinishNode
  <2>2. QED
    BY <1>1, <2>1
<1>7. CASE Stopped \/ UNCHANGED vars
  <2>1. UNCHANGED <<run, plan, requested, pending, notes, pc>>
    BY <1>7 DEF Stopped, vars
  <2>2. QED
    BY <1>1, <2>1
<1>8. QED
  BY <1>2, <1>3, <1>4, <1>5, <1>6, <1>7 DEF Next

LEMMA OneMore ==
    ASSUME NEW S, NEW x, NEW n \in Nat, IsFiniteSet(S), Cardinality(S) <= n
    PROVE  /\ IsFiniteSet(S \cup {x})
           /\ Cardinality(S \cup {x}) \in Nat
           /\ Cardinality(S \cup {x}) <= n + 1
<1>1. Cardinality(S) \in Nat
  BY FS_CardinalityType
<1>2. /\ IsFiniteSet(S \cup {x})
      /\ Cardinality(S \cup {x}) = IF x \in S THEN Cardinality(S) ELSE Cardinality(S) + 1
  <2>1. IsFiniteSet(S)
    OBVIOUS
  <2>2. QED
    BY ONLY <2>1, FS_AddElement
<1>3. QED
  BY <1>1, <1>2

\* The leads are at most the plan, the question, its terms, and its terms less one.
LEMMA FewLeads ==
    ASSUME TypeOK, NEW extra
    PROVE  /\ IsFiniteSet(LeadsWith(extra))
           /\ Cardinality(LeadsWith(extra)) \in Nat
           /\ Cardinality(LeadsWith(extra)) <= Len(plan) + 3
<1> DEFINE places == 1..Len(plan)
           planned == InOrder(plan)
           f == [i \in places |-> plan[i]]
<1>1. Len(plan) \in Nat
  BY LenProperties DEF TypeOK
<1>2. IsFiniteSet(places) /\ Cardinality(places) = Len(plan)
  <2>1. Len(plan) \in Int /\ 1 \in Int
    BY <1>1
  <2>2. IsFiniteSet(places) /\ Cardinality(places) = IF 1 > Len(plan) THEN 0 ELSE Len(plan) - 1 + 1
    BY ONLY <2>1, FS_Interval
  <2>3. QED
    BY <1>1, <2>2
<1>3. f \in Surjection(places, planned)
  BY DEF Surjection, InOrder
<1> HIDE DEF places, planned, f
<1>4. IsFiniteSet(planned) /\ Cardinality(planned) <= Len(plan) /\ Cardinality(planned) \in Nat
  BY <1>2, <1>3, FS_Surjection, FS_CardinalityType
<1> DEFINE two == planned \cup {QuestionText}
           three == two \cup {TermsText[run.wanted]}
           all == three \cup {extra}
<1>5. IsFiniteSet(two) /\ Cardinality(two) \in Nat /\ Cardinality(two) <= Len(plan) + 1
  BY <1>1, <1>4, OneMore
<1> HIDE DEF two
<1>6. IsFiniteSet(three) /\ Cardinality(three) \in Nat /\ Cardinality(three) <= Len(plan) + 2
  <2>1. PICK n \in Nat : n = Len(plan) + 1
    BY <1>1
  <2>2. IsFiniteSet(three) /\ Cardinality(three) \in Nat /\ Cardinality(three) <= n + 1
    BY <1>5, <2>1, OneMore
  <2>3. QED
    BY <1>1, <2>1, <2>2
<1> HIDE DEF three
<1>7. IsFiniteSet(all) /\ Cardinality(all) \in Nat /\ Cardinality(all) <= Len(plan) + 3
  <2>1. PICK n \in Nat : n = Len(plan) + 2
    BY <1>1
  <2>2. IsFiniteSet(all) /\ Cardinality(all) \in Nat /\ Cardinality(all) <= n + 1
    BY <1>6, <2>1, OneMore
  <2>3. QED
    BY <1>1, <2>1, <2>2
<1>8. all = LeadsWith(extra)
  BY DEF LeadsWith, three, two, planned
<1> HIDE DEF all
<1>9. QED
  BY <1>7, <1>8

(***************************************************************************)
(* A run makes at most three retrievals beyond its plan, whatever the      *)
(* backend answers and whatever its budget: enqueueing comes to an end by  *)
(* itself.                                                                 *)
(***************************************************************************)
THEOREM LoopConverges == Spec => []ConvergesBeyondPlan
<1>1. ASSUME TypeOK, TwiceInv, ConvergeInv PROVE ConvergesBeyondPlan
  <2>1. PICK extra \in SubQuestions : OnTheWay \subseteq LeadsWith(extra)
    BY <1>1 DEF ConvergeInv
  <2> DEFINE places == 1..Len(steps)
             asks == [i \in places |-> steps[i].request]
             leads == LeadsWith(extra)
  <2>2. Len(steps) \in Nat /\ Len(plan) \in Nat
    BY <1>1, LenProperties DEF TypeOK
  <2>3. asks \in [places -> leads] /\ \A i, j \in places : asks[i] = asks[j] => i = j
    BY <1>1, <2>1 DEF TwiceInv, NoSubQuestionTwice, OnTheWay
  <2>4. IsFiniteSet(places) /\ Cardinality(places) = Len(steps)
    <3>1. Len(steps) \in Int /\ 1 \in Int
      BY <2>2
    <3>2. IsFiniteSet(places) /\ Cardinality(places) = IF 1 > Len(steps) THEN 0 ELSE Len(steps) - 1 + 1
      BY ONLY <3>1, FS_Interval
    <3>3. QED
      BY <2>2, <3>2
  <2>5. IsFiniteSet(leads) /\ Cardinality(leads) \in Nat /\ Cardinality(leads) <= Len(plan) + 3
    BY <1>1, FewLeads
  <2> HIDE DEF places, asks, leads
  <2>6. asks \in Injection(places, leads)
    BY <2>3, Fun_IsInj
  <2>7. Cardinality(places) <= Cardinality(leads)
    BY <2>5, <2>6, FS_Injection
  <2>8. QED
    BY <2>2, <2>4, <2>5, <2>7 DEF ConvergesBeyondPlan
<1>2. Spec => [](TypeOK /\ TwiceInv /\ OutcomeInv /\ ConvergeInv)
  BY InitTypeOK, InitTwiceInv, InitBudgetInv, InitOutcomeInv, InitConvergeInv, NextTypeOK,
     NextTwiceInv, NextBudgetInv, NextOutcomeInv, NextConvergeInv, PTL DEF Spec
<1>3. QED
  BY <1>1, <1>2, PTL
=============================================================================
