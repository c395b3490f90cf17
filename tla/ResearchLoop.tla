---------------------------- MODULE ResearchLoop ----------------------------
(***************************************************************************)
(* One research run: run_research of agent/graph.py over the state of      *)
(* agent/state.py.                                                         *)
(*                                                                         *)
(* The loop is sequential; what surrounds it is not under its control.  A  *)
(* backend call takes any time, may return any passages, and may fail, so  *)
(* a retrieval is two steps: the call, recorded before the backend runs,   *)
(* and the answer.  Every other node is one step.  A sub-question is a     *)
(* value standing for its case-folded text; evidence and notes are sets,   *)
(* the order being used only to number markers and note ids.               *)
(***************************************************************************)
EXTENDS Critic, Sequences

CONSTANTS Chunks,        \* chunk ids a backend may return
          Blank,         \* texts that carry no words, hence no claim
          SubQuestions,  \* case-folded sub-questions
          QuestionText,  \* the research question, as a sub-question
          TermsText,     \* TermsText[S]: the terms of S, sorted and joined
          TooLong,       \* sub-questions longer than a lexicon request may be
          Plans,         \* the plans plan_question may return
          Results,       \* the passage sequences a retrieval may return
          Runs           \* budgets, tools and question terms of a run

Tool == {"retrieve", "search_notes", "lexicon"}
Passage == [chunk : Chunks, text : Texts]
MaxSubQuestions == 3
MaxStepBudget == 20

\* What a run is started with: the question's terms, the step budget, the
\* per-tool caps (any integer: the request does not bound them) and whether
\* the two optional tools are given.
RunConfiguration ==
    [wanted : SUBSET Terms, maxSteps : 1..MaxStepBudget, cap : [Tool -> Int],
     notesTool : BOOLEAN, lexiconTool : BOOLEAN]

ASSUME LoopAssumption ==
    /\ NoCitation \notin Chunks
    /\ Blank \subseteq Texts
    /\ QuestionText \in SubQuestions
    /\ TermsText \in [SUBSET Terms -> SubQuestions]
    /\ TooLong \subseteq SubQuestions
    /\ Results \subseteq Seq(Passage)
    /\ Runs \subseteq RunConfiguration
    /\ Plans \subseteq Seq(SubQuestions)
    /\ \A p \in Plans :
         /\ Len(p) \in 1..MaxSubQuestions
         /\ \A i, j \in 1..Len(p) : p[i] = p[j] => i = j

VARIABLES
    run,            \* how the run was started; never changes
    pc,             \* which node runs next, or how run_research ended
    plan,           \* the planned sub-questions
    pending,        \* sub-questions still to retrieve for
    requested,      \* sub-questions already popped
    asked,          \* the sub-question of the current iteration
    used,           \* calls spent, per tool
    steps,          \* completed retrievals: request and chunk ids returned
    evidence,       \* distinct passages
    notes,          \* the note store
    gaps,           \* kinds of the gaps the last critique named
    looked,         \* follow-ups taken to the lexicon
    hitToolBudget,
    sufficient,
    status,
    stopReason,
    report,         \* what the report states
    citations,      \* chunk ids the report cites
    trace

limits == <<run, plan>>
queue == <<pending, requested, asked>>
memory == <<steps, evidence, notes>>
flags == <<hitToolBudget, sufficient>>
result == <<status, stopReason, report, citations>>
vars == <<limits, pc, queue, used, memory, gaps, looked, flags, result, trace>>

-----------------------------------------------------------------------------
(* Budgets, the question's leads, and the trace.                           *)

StepsTaken == Len(steps)
BudgetSpent == StepsTaken >= run.maxSteps

\* A slip: the last call of a cap can be spent twice.
RemainingOffByOne(tool) ==
    IF run.cap[tool] >= used[tool] THEN run.cap[tool] - used[tool] + 1 ELSE 0

Remaining(tool) ==
    IF run.cap[tool] > used[tool] THEN run.cap[tool] - used[tool] ELSE 0

\* Sub-questions that were retrieved for and returned nothing.
Unanswered == {steps[i].request : i \in {j \in 1..Len(steps) : steps[j].found = {}}}

MissingText == TermsText[Missing(run.wanted, notes)]

\* The follow-up sub-questions the gaps propose.
FollowUps ==
    {QuestionText : k \in gaps \cap {"no_evidence"}} \cup
    {MissingText : k \in gaps \cap {"uncovered_terms"}}

Event(name, tool) == [event |-> name, tool |-> tool]
NoTool == "none"
ToolCall(tool) == Event("tool_call", tool)
ToolResult(tool) == Event("tool_result", tool)

Record(events) == trace' = trace \o events

Spend(tool) == used' = [used EXCEPT ![tool] = @ + 1]

-----------------------------------------------------------------------------

Init ==
    /\ run \in Runs
    /\ pc = "plan"
    /\ plan = <<>>
    /\ pending = <<>>
    /\ requested = {}
    /\ asked = QuestionText
    /\ used = [t \in Tool |-> 0]
    /\ steps = <<>>
    /\ evidence = {}
    /\ notes = {}
    /\ gaps = {}
    /\ looked = {}
    /\ hitToolBudget = FALSE
    /\ sufficient = FALSE
    /\ status = "running"
    /\ stopReason = "none"
    /\ report = {}
    /\ citations = {}
    /\ trace = <<>>

PlanNode ==
    /\ pc = "plan"
    /\ plan' \in Plans
    /\ pending' = plan'
    /\ Record(<<Event("plan_created", NoTool)>>)
    /\ pc' = "loop"
    /\ UNCHANGED <<run, requested, asked, used, memory, gaps, looked, flags, result>>

-----------------------------------------------------------------------------
(* The head of the loop.                                                   *)

LoopEnds ==
    /\ pc = "loop"
    /\ pending = <<>> \/ BudgetSpent
    /\ pc' = "finish"
    /\ UNCHANGED <<limits, queue, used, memory, gaps, looked, flags, result, trace>>

\* A slip: `continue` for `break`.
RetrieveCapContinues ==
    /\ pc = "loop"
    /\ pending # <<>>
    /\ ~BudgetSpent
    /\ Remaining("retrieve") <= 0
    /\ hitToolBudget' = TRUE
    /\ UNCHANGED <<limits, pc, queue, used, memory, gaps, looked, sufficient, result, trace>>

RetrieveCapSpent ==
    /\ pc = "loop"
    /\ pending # <<>>
    /\ ~BudgetSpent
    /\ Remaining("retrieve") <= 0
    /\ hitToolBudget' = TRUE
    /\ pc' = "finish"
    /\ UNCHANGED <<limits, queue, used, memory, gaps, looked, sufficient, result, trace>>

\* A slip: the set is replaced instead of extended.
RememberLatest(q) == {q}

Remember(q) == requested \cup {q}

\* The next sub-question is popped; one already requested is dropped, any
\* other is traced as a tool call and handed to the backend.
TakeSubQuestion ==
    /\ pc = "loop"
    /\ pending # <<>>
    /\ ~BudgetSpent
    /\ Remaining("retrieve") > 0
    /\ pending' = Tail(pending)
    /\ asked' = Head(pending)
    /\ requested' = Remember(Head(pending))
    /\ IF Head(pending) \in requested
         THEN UNCHANGED <<pc, used, trace>>
         ELSE /\ Spend("retrieve")
              /\ Record(<<ToolCall("retrieve")>>)
              /\ pc' = "retrieving"
    /\ UNCHANGED <<limits, memory, gaps, looked, flags, result>>

-----------------------------------------------------------------------------
(* The backend answers or fails.                                           *)

\* A slip: a chunk repeated within one answer is absorbed twice.
FirstSeenByStep(passages) ==
    {passages[i] : i \in {k \in 1..Len(passages) :
        \A p \in evidence : p.chunk # passages[k].chunk}}

\* The passages of chunks not known yet, first occurrence kept.
FirstSeen(passages) ==
    {passages[i] : i \in {k \in 1..Len(passages) :
        /\ \A p \in evidence : p.chunk # passages[k].chunk
        /\ \A j \in 1..(k - 1) : passages[j].chunk # passages[k].chunk}}

ChunksOf(passages) == {passages[i].chunk : i \in 1..Len(passages)}

\* One note per passage that carries a claim, whether or not its chunk is new.
NotesFrom(passages) ==
    {[citation |-> passages[i].chunk, claim |-> passages[i].text] :
        i \in {k \in 1..Len(passages) : passages[k].text \notin Blank}}

\* A slip: a note that is already written is traced again.
AbsorbTracingRepeats(passages) ==
    /\ evidence' = evidence \cup FirstSeen(passages)
    /\ steps' = Append(steps, [request |-> asked, found |-> ChunksOf(passages)])
    /\ notes' = notes \cup NotesFrom(passages)
    /\ Record(<<ToolResult("retrieve")>> \o
              [i \in 1..Cardinality(NotesFrom(passages)) |-> Event("note_added", NoTool)])

\* A slip: a chunk returned again replaces what it said first.
AbsorbLatest(passages) ==
    /\ evidence' = {p \in evidence : p.chunk \notin ChunksOf(passages)}
                     \cup {passages[i] : i \in {k \in 1..Len(passages) :
                           \A j \in 1..(k - 1) : passages[j].chunk # passages[k].chunk}}
    /\ steps' = Append(steps, [request |-> asked, found |-> ChunksOf(passages)])
    /\ notes' = notes \cup NotesFrom(passages)
    /\ Record(<<ToolResult("retrieve")>> \o
              [i \in 1..Cardinality(NotesFrom(passages) \ notes) |->
                  Event("note_added", NoTool)])

\* record_retrieval and the notes of the answer.  A note equal to one already
\* written is skipped and not traced.
AbsorbResult(passages) ==
    /\ evidence' = evidence \cup FirstSeen(passages)
    /\ steps' = Append(steps, [request |-> asked, found |-> ChunksOf(passages)])
    /\ notes' = notes \cup NotesFrom(passages)
    /\ Record(<<ToolResult("retrieve")>> \o
              [i \in 1..Cardinality(NotesFrom(passages) \ notes) |->
                  Event("note_added", NoTool)])

RetrieveReturns ==
    /\ pc = "retrieving"
    /\ \E passages \in Results : AbsorbResult(passages)
    /\ pc' = "critique"
    /\ UNCHANGED <<limits, queue, used, gaps, looked, flags, result>>

\* ToolError leaves run_research; the trace keeps the call it died in.
RetrieveRaises ==
    /\ pc = "retrieving"
    /\ pc' = "tool_error"
    /\ UNCHANGED <<limits, queue, used, memory, gaps, looked, flags, result, trace>>

-----------------------------------------------------------------------------
(* The verdict, and what the loop does with it.                            *)

CritiqueNode ==
    /\ pc = "critique"
    /\ gaps' = Gaps(run.wanted, notes, Unanswered)
    /\ Record(<<Event("critique", NoTool)>>)
    /\ pc' = IF Sufficient(run.wanted, notes) THEN "answer" ELSE "lexicon"
    /\ UNCHANGED <<limits, queue, used, memory, looked, flags, result>>

\* An insufficient verdict names terms the lexicon has not been asked about.
WantsLexicon ==
    /\ run.lexiconTool
    /\ Remaining("lexicon") > 0
    /\ "uncovered_terms" \in gaps
    /\ MissingText \notin looked

LexiconNode ==
    /\ pc = "lexicon"
    /\ WantsLexicon
    /\ MissingText \notin TooLong
    /\ looked' = looked \cup {MissingText}
    /\ Spend("lexicon")
    /\ Record(<<ToolCall("lexicon"), ToolResult("lexicon")>>)
    /\ pc' = "enqueue"
    /\ UNCHANGED <<limits, queue, memory, gaps, flags, result>>

\* The joined terms exceed the 200 characters of a lexicon request: its
\* validation error leaves run_research.
LexiconRejectsTerm ==
    /\ pc = "lexicon"
    /\ WantsLexicon
    /\ MissingText \in TooLong
    /\ looked' = looked \cup {MissingText}
    /\ pc' = "invalid_request"
    /\ UNCHANGED <<limits, queue, used, memory, gaps, flags, result, trace>>

\* An explicit zero cap where a lookup would have been attempted.
ForbidsLexicon ==
    /\ run.lexiconTool
    /\ Remaining("lexicon") <= 0
    /\ "uncovered_terms" \in gaps
    /\ run.cap["lexicon"] = 0

LexiconCapZero ==
    /\ pc = "lexicon"
    /\ ForbidsLexicon
    /\ hitToolBudget' = TRUE
    /\ pc' = "finish"
    /\ UNCHANGED <<limits, queue, used, memory, gaps, looked, sufficient, result, trace>>

LexiconPassedOver ==
    /\ pc = "lexicon"
    /\ ~WantsLexicon
    /\ ~ForbidsLexicon
    /\ pc' = "enqueue"
    /\ UNCHANGED <<limits, queue, used, memory, gaps, looked, flags, result, trace>>

\* A slip: a follow-up taken to the lexicon counts as requested.
EnqueueUnlessLookedUp(queued, followUp) ==
    IF \/ followUp \in requested \cup looked
       \/ \E i \in 1..Len(queued) : queued[i] = followUp
      THEN queued
      ELSE Append(queued, followUp)

\* A follow-up joins the queue unless it was requested or is queued.
Enqueue(queued, followUp) ==
    IF \/ followUp \in requested
       \/ \E i \in 1..Len(queued) : queued[i] = followUp
      THEN queued
      ELSE Append(queued, followUp)

EnqueueFollowUps ==
    /\ pc = "enqueue"
    /\ LET first == IF "no_evidence" \in gaps THEN Enqueue(pending, QuestionText) ELSE pending
       IN  pending' = IF "uncovered_terms" \in gaps THEN Enqueue(first, MissingText) ELSE first
    /\ pc' = "loop"
    /\ UNCHANGED <<limits, requested, asked, used, memory, gaps, looked, flags, result, trace>>

-----------------------------------------------------------------------------
(* Sufficient evidence: an optional review of the notes, then the end.     *)

MayReviewNotes ==
    /\ RequestsNotesSearch(run.wanted, notes)
    /\ run.notesTool
    /\ ~BudgetSpent

SearchNotesNode ==
    /\ pc = "answer"
    /\ MayReviewNotes
    /\ Remaining("search_notes") > 0
    /\ Spend("search_notes")
    /\ Record(<<ToolCall("search_notes"), ToolResult("search_notes")>>)
    /\ sufficient' = TRUE
    /\ pc' = "finish"
    /\ UNCHANGED <<limits, queue, memory, gaps, looked, hitToolBudget, result>>

SearchNotesCapSpent ==
    /\ pc = "answer"
    /\ MayReviewNotes
    /\ Remaining("search_notes") <= 0
    /\ hitToolBudget' = TRUE
    /\ sufficient' = TRUE
    /\ pc' = "finish"
    /\ UNCHANGED <<limits, queue, used, memory, gaps, looked, result, trace>>

AnswerDirectly ==
    /\ pc = "answer"
    /\ ~MayReviewNotes
    /\ sufficient' = TRUE
    /\ pc' = "finish"
    /\ UNCHANGED <<limits, queue, used, memory, gaps, looked, hitToolBudget, result, trace>>

-----------------------------------------------------------------------------
(* The end of the run.                                                     *)

\* A slip: the step budget is tested before the evidence.
DecideBudgetFirst ==
    IF sufficient THEN <<"done", "evidence_sufficient">>
    ELSE IF BudgetSpent THEN <<"budget_exhausted", "budget_spent">>
    ELSE IF evidence = {} THEN <<"refused", "no_evidence">>
    ELSE IF hitToolBudget THEN <<"budget_exhausted", "tool_budget_spent">>
    ELSE <<"refused", "insufficient_evidence">>

\* A slip: a run cut short by a tool's cap takes the reserved status.
DecideDegraded ==
    IF sufficient THEN <<"done", "evidence_sufficient">>
    ELSE IF evidence = {} THEN <<"refused", "no_evidence">>
    ELSE IF hitToolBudget THEN <<"degraded", "tool_budget_spent">>
    ELSE IF BudgetSpent THEN <<"budget_exhausted", "budget_spent">>
    ELSE <<"refused", "insufficient_evidence">>

\* The order of the tests is the policy.
DecideOutcome ==
    IF sufficient THEN <<"done", "evidence_sufficient">>
    ELSE IF evidence = {} THEN <<"refused", "no_evidence">>
    ELSE IF hitToolBudget THEN <<"budget_exhausted", "tool_budget_spent">>
    ELSE IF BudgetSpent THEN <<"budget_exhausted", "budget_spent">>
    ELSE <<"refused", "insufficient_evidence">>

\* What the report states, by the status it is composed for.
Synthesize(outcome) ==
    (CASE outcome = "refused" /\ evidence = {} -> {"nothing_retrieved"}
       [] outcome = "refused" /\ evidence # {} -> {"too_thin", "findings"}
       [] outcome = "budget_exhausted" -> {"step_budget_ended", "findings"}
       [] OTHER -> {"findings"})
    \cup (IF gaps # {} THEN {"gaps"} ELSE {})

\* A slip: only the chunks that left a note are cited.
CitedFromNotes == {n.citation : n \in notes}

\* One citation per passage of the evidence.
Cited == {p.chunk : p \in evidence}

FinishNode ==
    /\ pc = "finish"
    /\ status' = DecideOutcome[1]
    /\ stopReason' = DecideOutcome[2]
    /\ report' = Synthesize(DecideOutcome[1])
    /\ citations' = Cited
    /\ Record(<<Event("synthesize", NoTool), Event("stop", NoTool)>>)
    /\ pc' = "returned"
    /\ UNCHANGED <<limits, queue, used, memory, gaps, looked, flags>>

Ended == pc \in {"returned", "tool_error", "invalid_request"}

\* Nothing runs after run_research has returned or raised.
Stopped == Ended /\ UNCHANGED vars

-----------------------------------------------------------------------------

Next ==
    \/ PlanNode
    \/ LoopEnds
    \/ RetrieveCapSpent
    \/ TakeSubQuestion
    \/ RetrieveReturns
    \/ RetrieveRaises
    \/ CritiqueNode
    \/ LexiconNode
    \/ LexiconRejectsTerm
    \/ LexiconCapZero
    \/ LexiconPassedOver
    \/ EnqueueFollowUps
    \/ SearchNotesNode
    \/ SearchNotesCapSpent
    \/ AnswerDirectly
    \/ FinishNode
    \/ Stopped

\* The thread that runs the loop is scheduled, and a backend call returns or
\* fails: the fixture computes, the hosted one has a timeout.
Spec == Init /\ [][Next]_vars /\ WF_vars(Next)

-----------------------------------------------------------------------------
(* Properties.                                                             *)

(***************************************************************************)
(* The state of a run has the shape ResearchState declares.                *)
(***************************************************************************)
TypeOK ==
    /\ run \in Runs
    /\ pc \in {"plan", "loop", "retrieving", "critique", "lexicon", "enqueue",
              "answer", "finish", "returned", "tool_error", "invalid_request"}
    /\ plan \in Seq(SubQuestions)
    /\ pending \in Seq(SubQuestions)
    /\ requested \subseteq SubQuestions
    /\ asked \in SubQuestions
    /\ used \in [Tool -> Nat]
    /\ steps \in Seq([request : SubQuestions, found : SUBSET Chunks])
    /\ evidence \subseteq Passage
    /\ notes \subseteq [citation : Chunks, claim : Texts]
    /\ gaps \subseteq GapKind
    /\ looked \subseteq SubQuestions
    /\ hitToolBudget \in BOOLEAN
    /\ sufficient \in BOOLEAN
    /\ status \in {"running", "done", "refused", "budget_exhausted"}
    /\ stopReason \in {"none", "evidence_sufficient", "no_evidence",
                      "insufficient_evidence", "budget_spent", "tool_budget_spent"}
    /\ report \subseteq {"nothing_retrieved", "too_thin", "findings",
                         "step_budget_ended", "gaps"}
    /\ citations \subseteq Chunks
    /\ trace \in Seq([event : {"plan_created", "tool_call", "tool_result", "note_added",
                               "critique", "synthesize", "stop"},
                     tool : Tool \cup {NoTool}])

(***************************************************************************)
(* No sub-question is retrieved for twice, however the plan, the question  *)
(* and the critic's follow-ups coincide (graph.py, first rule of the loop).*)
(***************************************************************************)
NoSubQuestionTwice ==
    \A i, j \in 1..Len(steps) : steps[i].request = steps[j].request => i = j

(***************************************************************************)
(* Neither budget is overrun: steps stay within max_steps, every tool      *)
(* within its cap, and a retrieval call is paid for before its step is     *)
(* recorded -- so ToolBudgetExceeded and StepBudgetExceeded never escape.  *)
(***************************************************************************)
BudgetsRespected ==
    /\ Len(steps) <= run.maxSteps
    /\ \A t \in Tool : used[t] > 0 => used[t] <= run.cap[t]
    /\ used["retrieve"] = Len(steps) + (IF pc \in {"retrieving", "tool_error"} THEN 1 ELSE 0)

(***************************************************************************)
(* The loop converges on its own: the critic can propose at most the whole *)
(* question, its terms and its terms less one, so a run never needs more   *)
(* than three retrievals beyond its plan, whatever its step budget.        *)
(***************************************************************************)
ConvergesBeyondPlan == Len(steps) <= Len(plan) + 3

Refuted(reason) == stopReason = reason /\ ~Sufficient(run.wanted, notes)

(***************************************************************************)
(* The typed outcome is true of the run that reports it: an answer rests   *)
(* on a sufficient note store, names no gap and cites evidence; a refusal  *)
(* for want of evidence retrieved none; an exhausted budget is exhausted;  *)
(* thin evidence is refused only with steps left.                          *)
(***************************************************************************)
OutcomeIsJustified ==
    status # "running" =>
        \/ /\ stopReason = "evidence_sufficient" /\ status = "done"
           /\ Sufficient(run.wanted, notes) /\ gaps = {} /\ citations # {}
        \/ Refuted("no_evidence") /\ status = "refused" /\ citations = {}
        \/ /\ Refuted("tool_budget_spent") /\ status = "budget_exhausted" /\ citations # {}
           /\ Remaining("retrieve") = 0 \/ run.cap["lexicon"] = 0
        \/ /\ Refuted("budget_spent") /\ status = "budget_exhausted" /\ citations # {}
           /\ Len(steps) = run.maxSteps
        \/ /\ Refuted("insufficient_evidence") /\ status = "refused" /\ citations # {}
           /\ Len(steps) < run.maxSteps

(***************************************************************************)
(* A refusal of thin evidence has followed every lead: all of the plan and *)
(* every follow-up the last critique proposes were retrieved for.          *)
(***************************************************************************)
RefusalFollowedEveryLead ==
    stopReason = "insufficient_evidence" =>
        \A q \in FollowUps \cup {plan[i] : i \in 1..Len(plan)} :
            \E i \in 1..Len(steps) : steps[i].request = q

(***************************************************************************)
(* The note store and the evidence tell the same story: a chunk is         *)
(* evidence once, every note cites a chunk of the evidence, and evidence   *)
(* is exactly what the steps returned -- what a run is judged by and what  *)
(* it cites cannot drift apart.                                            *)
(***************************************************************************)
EvidenceBacksNotes ==
    /\ \A p, q \in evidence : p.chunk = q.chunk => p = q
    /\ \A n \in notes : \E p \in evidence : p.chunk = n.citation
    /\ \A p \in evidence : p.text \notin Blank => [citation |-> p.chunk, claim |-> p.text] \in notes
    /\ {p.chunk : p \in evidence} = UNION {steps[i].found : i \in 1..Len(steps)}

(***************************************************************************)
(* The trace alone tells what happened: a result directly follows the call *)
(* it answers, a call without a result is the one in flight or the one the *)
(* run died in, and the stop is the last event of exactly the runs that    *)
(* have an outcome.                                                        *)
(***************************************************************************)
TraceTellsTheRun ==
    /\ \A i \in 1..Len(trace) : trace[i].event = "tool_result" =>
          i > 1 /\ trace[i - 1] = ToolCall(trace[i].tool)
    /\ \A i \in 1..Len(trace) : trace[i].event = "tool_call" =>
          IF i < Len(trace) THEN trace[i + 1] = ToolResult(trace[i].tool)
                            ELSE pc \in {"retrieving", "tool_error"}
    /\ \A i \in 1..Len(trace) : trace[i].event = "stop" <=> i = Len(trace) /\ status # "running"
    /\ Cardinality({i \in 1..Len(trace) : trace[i].event = "note_added"}) = Cardinality(notes)

(***************************************************************************)
(* Nothing recorded is taken back: evidence, notes and trace only grow,    *)
(* and once a run has an outcome nothing about it changes any more.        *)
(***************************************************************************)
OnlyGrows ==
    [][/\ evidence \subseteq evidence' /\ notes \subseteq notes'
       /\ Len(trace) <= Len(trace') /\ trace = SubSeq(trace', 1, Len(trace))
       /\ status = "running"]_<<limits, used, memory, gaps, result, trace>>

(***************************************************************************)
(* Every run ends: run_research returns or raises, whatever is retrieved.  *)
(***************************************************************************)
Terminates == <>Ended

(***************************************************************************)
(* The loop keeps the promise of BoundedRun.                               *)
(***************************************************************************)
Bounded == INSTANCE BoundedRun WITH
    Budgets <- 1..MaxStepBudget,
    budget <- run.maxSteps,
    phase <- IF Ended /\ status = "running" THEN "abandoned" ELSE status,
    spent <- Len(steps),
    found <- {p.chunk : p \in evidence},
    cited <- citations

ImplementsBoundedRun == Bounded!Spec

(***************************************************************************)
(* run_research says it returns a state "always with a terminal status";   *)
(* its documented exception is the backend's ToolError.  No other one      *)
(* should leave it.                                                        *)
(***************************************************************************)
OnlyToolErrorsEscape == pc # "invalid_request"
=============================================================================
