# A verification project for agentic-rag-research

The program answers a research question with a bounded *plan -> retrieve ->
critique* loop over a retrieval backend, and ends in a cited report or in a
refusal.  It is served over HTTP (answered at once or watched as a stream), from
the command line, and by an evaluation harness.  This directory holds TLA+
modules of its control, the TLC runs that check them on small instances, and
proofs, checked by TLAPS, for every value of the constants.  Paths below are
relative to the package `src/src/agentic_rag/` unless they say otherwise.

## 1. The system

```
 browser page, CLI, evals
        |
 HTTP surface (main, middleware, routes, handlers)
        |                 \
   run_and_count        stream_run --- worker thread --- queue(256) --- response
        |                                  |
        +-------- ResearchService.run -----+------- RunStore (32 runs, one lock)
                        |                           metrics registry
                   run_research (one ResearchState per run)
                        |
     planner   critic   synthesizer   note store
                        |
     retrieve tool     search_notes tool     lexicon tool
          |
   fixture corpus  or  HttpRetrievalBackend --- production-rag service
```

| Component | State it keeps | Operations | Hard behaviour | Correct when |
| --- | --- | --- | --- | --- |
| research loop (`agent/graph.py`, `agent/state.py`) | queue of sub-questions, those asked, calls per tool, steps, evidence, notes, trace, outcome | plan, take a sub-question, retrieve, critique, lexicon, enqueue, review notes, synthesize, finish | new work is created while work is done; several budgets; a tool raises between call and result; several reasons to end hold at once | it ends; asks nothing twice; overruns no budget; reports an outcome that is true; its trace tells what happened |
| critic (`agent/critic.py`) | none | score, sufficiency, gaps, follow-ups | decides whether the loop converges | follow-ups shrink, "sufficient" means grounded and covering |
| synthesizer, note store, planner | none of their own | render, derive notes, split a question | repeated chunks, wordless texts | what is cited is what was retrieved |
| run store (`api/runs.py`) | last runs by correlation id | put, get | threads, ids stored again, eviction | holds exactly the latest distinct ids |
| service (`api/service.py`) and metrics (`api/metrics.py`) | counters | perform and store, count | concurrent runs under one id, failures | a stored run is counted once and can be fetched |
| event stream (`api/stream.py`) | bounded queue per stream | publish, drain, report, end | two threads, disconnect, full queue, exceptions | the client is sent the run in order and always an end; a client that leaves harms nobody |
| production-rag client (`tools/http_p1.py`, `tools/p1_contract.py`) | one call | validate, send, read bounded, parse, select passages | timeouts, failures anywhere, repeated and unordered citations, refusals with citations | best evidence or a typed error, within its bounds |
| fixture corpus (`corpus.py`, `tools/retrieve.py`, `tools/lexicon.py`) | the passages, loaded once | read files by lines, rank by shared words | sections, titles and blank lines in any order; equal scores at the limit | nothing of a file is lost or invented; a search returns the best there is |
| contract check (`tools/p1_contract.py`) | none | compare a service's OpenAPI document with what is sent and read | a change hidden behind an early return; a change it does not look at | what is not complained of works |
| HTTP surface (`main.py`, `api/routes.py`, `ui`, `handlers`, `middleware`, ...) | request ids, request counters | route, validate, map errors | layers answer at different depths, unexpected exceptions, fetches while others finish | every response has an envelope, one id and a count, and says the same at every door |
| comparison (`api/compare.py`), pack (`pack.py`, `experiment.py`) | a directory of files | write, load, compare | interruption between files | a loaded pack is the pack that was written |
| pages (`static/app.js`, `templates/pack.html`) | what is shown, a stream being read, fetches under way | stream, fetch, render | frames cut by pieces, late answers, streams that break off | the page shows the run it says it shows, and the button comes back |
| command line, evaluation | none | one run; many runs | none of their own | exit code and score follow the outcome |

Interaction is by direct calls inside a run; by `RunStore`, the metrics registry
and the correlation id (which a client may choose with `X-Request-ID`) between
requests; by a `queue.Queue` between a stream's worker and its response; and by
HTTP between a run and the production-rag service.  The list of hazards, each
at its line with the properties aimed at it, is `hazards` in `PROJECT.json`.

## 2. The modules

| Module | Models | Written as |
| --- | --- | --- |
| `Critic` | `agent/critic.py` | operators over a set of notes: what is covered, missing, relevant; score; sufficiency; kinds of gap |
| `ResearchLoop` | `run_research`, `ResearchState`, the report's statements, the boundaries of the three tools | one action per node of the loop and per branch taken between nodes |
| `BoundedRun` | what a caller of `run_research` is promised | abstract specification, refined by `ResearchLoop` |
| `Planner` | `plan_question` | one action per fragment of a question |
| `Corpus` | `load_corpus`, the ranking of the fixture's tools | one action per kind of line, the end of a file, a search |
| `RunStore` | `RunStore` with each call one step | abstract specification, also used by `Runtime` and `RuntimeSurface` |
| `RunStoreThreads` | the same class statement by statement under its lock | refines `RunStore` |
| `Runtime` | service, stream, metrics and store, several requests at once | composes `RunStore`; one action per step of a worker, of a response and of a client |
| `RuntimeSurface` | every route, the middlewares and handlers around them, the command line | composes `RunStore`; a request from arrival to answer, a step wherever it touches what requests share |
| `Pages` | the scripts of the research, compare and pack pages | one action per event a handler waits for |
| `P1Client` | one `HttpRetrievalBackend.query` | one action per wait and per way it can end |
| `P1Contract` | `verify_contract`, and a query sent to the deployment it verified | a document is the set of its deviations from what is sent and read |
| `Pack` | `pack.py`, `api/compare.py`, the records of `experiment.py` | operators for building, comparing, verifying; one action per opening and closing of a file, per file read, per interruption |
| `ResearchLoopProofs`, `RunStoreProofs`, `RunStoreThreadsProofs`, `RuntimeProofs`, `RuntimeSurfaceProofs`, `PagesProofs`, `PackProofs`, and `InputProofs` for `P1Client`, `P1Contract`, `Planner` and `Corpus` | theorems | TLAPS |
| `MC...` | instances for TLC (`MCReaders`: `Corpus`, `Planner` and `P1Contract`, one at a time) | model values, plans, answers, budgets |

`Runtime` and `RuntimeSurface` look at the same server from two sides.  `Runtime`
takes a run apart into the events it publishes and knows three requests by their
kind; `RuntimeSurface` takes a run as one step with every end it can have and
knows what is asked, at which door, by whom, and what is answered.

Operators named as slips (`RemainingOffByOne`, `PopNothing`, ...) are not
used by any specification.  Each is a definition of the model changed the way a
plausible mistake in the code would change it; substituted for the original it
makes a property fail, which shows the property depends on that code.

### How a run is modelled

* **Nodes.**  `pc` is the next node.  `PlanNode`, `TakeSubQuestion`,
  `RetrieveReturns`/`RetrieveRaises`, `CritiqueNode`, `LexiconNode`,
  `EnqueueFollowUps`, `SearchNotesNode`, `FinishNode` are the nodes; `LoopEnds`,
  `RetrieveCapSpent`, `ForbidsLexicon`, `LexiconCapZero`, `LexiconPassedOver`, `SearchNotesCapSpent` and
  `AnswerDirectly` are the branches between them, with the code's conditions as
  guards in the order the code tests them.
* **Calls that take time.**  A retrieval is recorded and paid for before the
  backend runs (`record_tool_call`, `consume_tool_call`) and is a step only when
  it returns.  The model has a state between the two, and from it any answer in
  `Results` or an exception.  The other tools are local and are one action.
* **Data.**  A sub-question is a value standing for its case-folded text, so
  the code's comparisons by folded text are equality.  A text is a value with a
  set of scoring terms; `Blank` are the texts without words, which yield no
  note.  Evidence and notes are sets: their order only numbers markers and note
  ids.  `TermsText[S]` is the join of the sorted terms of `S`, which is what a
  follow-up is; a plan may coincide with one, and with the question.
* **Budgets.**  Caps are any integers, because the request schema does not
  bound them; a step budget is 1 to 20.  A search over the notes that the caller
  asked for and a lexicon lookup change nothing in a run but its budget and its
  trace.
* **Exceptions.**  `pc` ends in `returned`, in `tool_error` (a `ToolError`, the
  documented failure), or in `invalid_request` (the validation of a
  `LexiconRequest`, see findings).

### How the server is modelled

* `RunStoreThreads` has one action per statement inside `with self._lock`, and
  two around it.  `committed` and `finished` are history variables: they change
  when a put releases the lock, and map the threads' store onto `RunStore`.
  `finished` is also the history by which `StoreIsLatest` says what the store
  must contain.
* `Runtime` knows a run by the number of events it records and how it ends;
  what the events are is `ResearchLoop`'s subject.  The worker's `pc` follows
  `stream_run.perform`: record and publish, store, count, `done` or `error`, and
  the sentinel in `finally`.  A call (`run_and_count`) is the same worker
  without a queue.  `queue.put` blocks while the queue is full.
* The client and the ASGI server are external: a response is iterated until its
  client goes away; then it is not iterated any more, either at once or after
  the `queue.get` that was already waiting in a pool thread comes back, its item
  lost.  Both are modelled (`Disconnect`, `LoseOne`).
* `P1Client` treats httpx and the service as environment: any status, pieces of
  any size, a failure at any wait, waits up to the timeout, which httpx applies
  to each read.  `LookAt` is a turn of the loop over the citations and `best` its
  dictionary; `Return` sorts what was kept by `Before` and cuts it at the cap.
  `PassagesAreBest` states what the result must be without mentioning either.

### How the doors are modelled

* A request is a record in `req`: what it asks, its id, how far it came, its
  answer.  `Arrive` is routing, validation and the id (`request_id.py`);
  `Perform` is `service.run`; `Count` is `record_run`; `Open` starts a stream's
  response; `Fetch` and `Render` read the store and the registry; `Answer` is the
  response, or the exit of the command line, through the handlers.
* `RunEnds` are the ways a run can end: an outcome, a capability that is not
  deployed, an address the client will not dial, a failing backend, a report that
  cannot be rendered, an over-long lookup.  Which of them are reachable depends
  on the backend asked for and on `address`, the deployment's
  `PRODUCTION_RAG_URL`.
* `Escapes` are the exceptions nobody expects: Starlette answers them in its
  outermost layer, outside the middlewares `create_app` adds, so such a response
  is not counted (`CountResponse`) and still finds its id in the scope
  (`CorrelationId`).
* The two counters are bags, as the registry's dictionaries are.  `started` is
  the order in which responses started and says what they must contain.
* Ids a caller sends are `CallerIds`, or `NoId` when there is none or it is not
  safe to echo.  A fetch may ask for any id in use or never used.

### How the pages are modelled

A page's handlers never overlap; what they wait for comes in any order.  A part
of the page is the number of the submission whose content it shows.  A stream is
read in pieces, and a frame is two halves, so a piece ends inside a frame, at its
end, or after several.  `silent` and `late` are history: submissions that ended
with nothing to show, and those that were still being answered when the user
submitted again.

### How the readers are modelled

* `Corpus`: a line is its kind and one word.  `ReadSection`, `ReadTitle`,
  `ReadDeeper` and `ReadText` are the branches of the line loop, `EndFile` what
  follows it.  A missing title is the value that Python prints as `None` in a
  heading path, which can be searched for.
* `Planner`: a fragment is how it folds and in which case it is; one that folds
  to nothing scorable is `Filler`.
* `P1Contract`: `RequestProblems`, `ResponseProblems` and `CitationProblems` are
  the functions of `p1_contract.py` with their early returns; `Exchange` is a
  query to a deployment that makes use of all its document says, read by the
  strict models of the same module.  `Deviation` is a list, made from those models:
  what can become of a field they send (gone, of another type, with fewer values,
  under another constraint, required) or read (gone, of another type, optional, out
  of bounds), and of the route and the schemas around them.  The pinned document
  itself has one, as it bounds no `chunk_id` from below.  Documents can differ in
  other ways (the meaning of a field, a status), of which nothing is claimed.

### How a pack is modelled

`write_dir` opens (and truncates) and closes six files in the order the code
does, over whatever was there; it may stop at any point, leaving the open file
cut short.  A cut JSON object does not parse; a cut `experiments.jsonl` may hold
fewer whole lines, which parse.  `load_dir` reads the same files one by one, so a
write can get between its reads, and then verifies.  `SplitLines` is what
`str.splitlines` does to a line that holds a separator.  `pack_hash` is taken to
be collision free and is modelled as the content it is computed from.

## 3. The runs

| Run | What it asks | Instance | States |
| --- | --- | --- | --- |
| `research_loop` | budgets, no repetition, convergence, justified outcomes, evidence, trace, growth, termination, refinement of `BoundedRun` | see below | 417 512 |
| `run_store_threads` | locked steps implement the one-step store, which holds what its history says; fetches see whole puts; the lock comes back | 2 threads, 3 ids, 2 owners, capacity 2, 3 puts | 930 906 |
| `runtime` | what a client is sent, told and can fetch; what is counted | a stream and two calls, 2 ids, store of 1, queue of 3, runs of 1 or 4 events | 161 056 |
| `runtime_surface` | one id per request; counters that add up; fetches that tell the history; the same end said the same at every door | 3 requests through any of 15 doors, 2 ids that callers choose, store of 1 | 1 970 531 |
| `pages` | what a page shows, and that it does not wait for ever | 3 submissions, runs of 0 to 2 events | 417 009 |
| `p1_client` | answers, statuses and failures of one hosted query | up to 3 citations over 2 chunks, 3 ranks, 2 texts; caps 0 to 3; size bound 3 | 148 836 |
| `readers` | a corpus is its files, a search its best passages, a plan usable, a drift reported | 2 files, 7 lines, 2 words; 5 fragments; any two modelled deviations of a contract | 1 964 962 |
| `pack` | a load returns a pack somebody built, or refuses; a complete pack loads | 6 packs that differ in policy, records, run order or a separator; 2 writes | 151 472 |
| `lexicon_request`, `stream_overflow`, `pack_round_trip`, `contract_drift` | one documented claim each | the same, and one stream with the real queue of 256 events | a counterexample |

Each takes at most two or three minutes with two workers.

**Bounds, and why they suffice.**

* *research_loop.*  The question has three scoring terms of which answers can
  cover none, one or two, so scores below, at and above the threshold occur; one
  term, one over-long term, and none are the other questions.  Two chunks suffice for an answer
  to repeat a chunk in itself and across steps with the same or another text.
  Plans include the question itself, fragments, and texts that coincide with a
  follow-up.  Step budgets are 1 and 2 (binding), 4, and 20 (never binding);
  caps are defaults, 0, negative, and below the step budget.
  `ConvergesBeyondPlan` (three retrievals beyond the plan) holds for every such
  run with the budget out of the way and fails for two, so the bound is tight.
* *run_store_threads.*  Evicting needs one more id than the capacity; a put that
  replaces the oldest or the newest of two entries needs a capacity of two and a
  second artifact per id.  Two threads suffice to see each pair of calls overlap
  at every statement.  `MaxPuts` bounds the history only, and the theorems of
  `RunStoreThreadsProofs` are for any number.
* *runtime.*  A queue of three with runs of one event fits `done` and the
  sentinel exactly (1 + 2 = 3); runs of four overflow it.  A store of one makes
  every finish evict or replace; two requests share an id.
* *p1_client.*  Three citations over two chunks are the smallest answers in
  which a chunk is repeated, out of rank order, and over the cap at once.  Two
  sizes of piece reach, meet and cross the size bound.
* *runtime_surface.*  Three requests are a run that is stored, one that evicts or
  replaces it, and one that fetches, scrapes or fails.  Two requests can share an
  id, and a third can evict both.  Requests are interchangeable, so they are a
  symmetry; asks the code treats alike are represented by one.
* *pages.*  A late answer needs two submissions, an answer that is late for the
  next but one three.  Two events are the fewest of which one can be lost or
  doubled while another is not.
* *readers.*  Seven lines hold a title, two sections, a deeper heading, a blank line and
  text, in any order, or two small files.  Three sub-questions are the most a
  plan has, so five fragments leave room for a repeat and a filler before the third.
  Early returns hide one deviation behind another; any two are enough for that.
* *pack.*  Two writes mix the files of two packs in every proportion, with a file
  cut short between them; packs that differ in one part only are the mixtures
  most easily accepted.  The theorem below is for any number of writes.

**Deadlock** is checked where the model never stops on its own.  `ResearchLoop`
and `Pack` go on or stutter explicitly, so a node without a successor would be
reported, and so is the threads' store.  It is off for `Runtime` (all requests
served, or a worker stranded), `RuntimeSurface` (all requests answered),
`P1Client` (one call), `Pages` (no more submissions) and the readers (one input);
there the liveness properties say the system stops only where it should.

**Fairness.**  `ResearchLoop`: weak fairness of `Next`; the thread is scheduled,
and a backend call ends because every backend is local or has timeouts.
`RunStoreThreads`: only a thread *inside* the lock is scheduled;
`threading.Lock` promises no order among those that wait, so nothing is claimed
about who gets in.  `Runtime`: each worker's step, the draining of a client that
stays, and the return of a `get` under way; a client may leave at any time, and
a request need not come.  `P1Client`: weak fairness of `Next`; every wait is
bounded by a timeout and the body by its size.  `Pages`: the answers of each
submission, because the server ends its streams (`Runtime`) and a browser gives
up on a silent connection; nobody need submit anything.  `RuntimeSurface`, `Pack`
and the readers state safety only and assume none.

## 4. What the runs found

Four runs refute a claim of the documentation.

1. **Over-long lookups** (`lexicon_request`).  The loop joins all uncovered terms into one
   `LexiconRequest` of at most 200 characters.  A question with enough uncovered
   terms makes `run_research` raise pydantic's `ValidationError`, which nothing
   in the loop treats as a tool failure.
2. **A disconnected client can leave a run half executed** (`stream_overflow`).
   The longest run is not shorter than the queue: with `top_k` 50 (the limit) and
   a hosted backend that fills it, 1 plan event, 5 retrievals of 53 events (call,
   result, critique, 50 notes), 2 lookups of 2, one `synthesize` and one `stop`
   make 272 events; the queue holds 256.  Nobody drains it, the worker waits in
   `put`, and the run is never stored.  It needs a step budget of 5 or more.
   `OnlyOverflowStrands`, in the passing run, shows that this is the only way a
   run is left unfinished.
3. **A pack may refuse to be loaded** (`pack_round_trip`).  Records are written one
   per line as JSON, which leaves U+0085, U+2028 and U+2029 unescaped, and are
   read with `str.splitlines`, which breaks lines there.  A question holding one
   makes `load_dir` and `load_zip` refuse what was just written.
   `PlainPackRoundTrips`, in the passing run, shows nothing else does.
4. **A drift the contract check does not report** (`contract_drift`).
   `verify_contract` asks only whether `question` is among the required request
   fields: a deployment that makes `mode` required, or requires a field it has
   added, rejects queries it was verified for.  The model knows more of the kind
   (`Overlooked`): another type of a field that is sent, or a constraint on one other
   than a maximal length or an enumeration; a `question` that is required but no
   longer described; a required parameter; a `refused` that may be missing; another
   type of `title`, `heading_path` or `refusal_reason`; and a `marker`, `rank` or
   `chunk_id` that `P1Citation` finds out of bounds.  `DriftIsReported`, in the passing
   run, shows that every other modelled deviation that spoils an exchange is
   reported, whatever the early returns hide, and that none of these ever is.  It
   says nothing of deviations that are not modelled.

The rest came up while modelling.  Where a model shows it, its property
states it as an exception.

* *An exhausted tool need not end a run*, though `api/schemas.py:114` says it
  does: a cap matters only when the loop wants one more call, and a spent lexicon
  cap is passed over unless it was an explicit zero (`LexiconPassedOver`).
* *A partial report blames the step budget* when a tool's cap ended the run with
  steps left (`Synthesize`).
* *The read timeout is per read* (`tools/http_p1.py`), while it is documented as
  the wait for the body: only the size bound ends a body that trickles.
* *The browser form answers a defect as its user's mistake.*  It validates and
  runs inside one `try` (`api/ui.py:128`), so the validation error of an over-long
  lookup is answered 422 as if the form were wrong, where every other door answers
  an internal error and `api/errors.py:85-88` says a defect is never presented as
  the caller's fault (`Reported`, excepted in `AnswersAgree`).
* *Unexpected exceptions are not counted*, although the comment at `main.py:155`
  says every response is (`Counted` in `CountsAddUp`).
* *A late artifact overwrites the page*, of a run that was already replaced
  (`late` in `PageShowsOneRun`), and *a stream that breaks off is silent*: the
  page says it is streaming for ever (`silent` in `NoSilentEnd`).  The properties
  bound these cases and do not catch them.
* *A title after a section leaves that section's passage without one*, its heading
  path beginning with the word `None`; deeper headings before the first section are
  dropped without an error (`CorpusIsFaithful`).

## 5. What is proved

Nothing is assumed beyond the named assumptions of the modules, which TLC also
evaluates in every run; they are what the code's types and validators establish:
plans have one to three distinct sub-questions, step budgets are 1 to 20, no chunk
is the absent citation, queues and stores have a capacity, a process has finitely
many requests, help is asked for on the command line only, a fresh id is none that
a caller sends, an answer has finitely many citations and its ranks start at one, and a file
written whole is neither missing nor cut short.
Each theorem is proved from three facts: the initial states satisfy an invariant,
every step preserves it, and it implies the property.  What stands in an invariant
beyond the property is what the arguments below name.

**`ResearchLoopProofs`**, for all sets of terms, texts, chunks, plans, answers,
budgets and caps:

| Theorem | States | Argument |
| --- | --- | --- |
| `TypeCorrect` | `Spec => []TypeOK` | inductive as it stands; one step per node |
| `BudgetsHold` | `Spec => []BudgetsRespected` | `BudgetInv`: while a call is in flight its step still fits, since the budget was tested one node before the step is recorded |
| `NeverTwice` | `Spec => []NoSubQuestionTwice` | `TwiceInv`: every step's request is among those requested, and the one in flight is not yet among the steps |
| `OutcomesHold` | `Spec => []OutcomeIsJustified` | `OutcomeInv`: the flags the outcome is decided by were set nodes earlier; the invariant carries what was true then (sufficient notes have no gaps, a flagged cap is spent, nothing but the queue moved since) to the end |
| `EvidenceHolds` | `Spec => []EvidenceBacksNotes` | inductive as it stands; `FirstPlace` finds, by well-foundedness of the places of an answer, the occurrence of a chunk that enters the evidence |
| `LeadsAreFollowed` | `Spec => []RefusalFollowedEveryLead` | `LeadInv`: plan and follow-ups stay requested or queued; what was requested is a step or the call in flight; only an empty queue ends a run with steps and caps to spare |
| `TraceIsTrue` | `Spec => []TraceTellsTheRun` | `TraceInv`: a trace is closed but for the call in flight, which is its last event; what each node records is closed in itself (`ClosedKeepsTrace`), and an answer adds as many note events as notes |
| `LoopConverges` | `Spec => []ConvergesBeyondPlan` | `ConvergeInv`: notes that cover a term of the question and do not suffice cover that one only (`OneTermCovered`), and go on covering it (`MissingStays`); so what is asked beyond the plan is the question, all its terms, or all but that one |
| `NothingTakenBack` | `Spec => OnlyGrows` | an action property, from `OutcomeInv`: while a node can run there is no outcome |
| `StepsAreBounded` | `Spec => Bounded!Init /\ [][Bounded!Next]_(Bounded!vars)` | the safety half of `ImplementsBoundedRun`: an answer maps to `Gather`, the last node to `End`, an exception to `Abandon`, everything else to a stutter |

**The run store**, for any threads, ids, owners, capacity and number of puts:

| Theorem | States | Argument |
| --- | --- | --- |
| `RunStoreProofs!StoreTellsHistory` | `StoreSpec => []StoreIsLatest` | `Tells`: the store is the last occurrences of its ids in the history, in order; a put takes away one such place, or the first of too many, and adds the last (`LastPlace`, by well-foundedness) |
| `RunStoreThreadsProofs!FetchesSeeWholePuts` | `Spec => []FetchSeesWholePuts` | only the holder of the lock is between entering and leaving (`OneInside`); the dictionary is the store the last put left but for what a put inside has done: popped, inserted, evicted (`Progress`) |
| `RunStoreThreadsProofs!ThreadsImplementStore` | `Spec => ImplementsRunStore` | each id once and never over capacity (`Sound`), so evicting is taking the tail (`EvictIsTail`) |
| `RunStoreThreadsProofs!StoreStaysLatest` | `Spec => []StoreIsLatest` | the two above: the history only changes with the store of `RunStore` |

**`RuntimeProofs`**, for any requests, streams, ids, run lengths and capacities:

| Theorem | States | Argument |
| --- | --- | --- |
| `TypeCorrect` | `Spec => []TypeOK` | `QueueBound` and `CallsEnd`, which make it inductive: a queue is only written while it has room, and only streams write one |
| `StreamsAreRuns` | `Spec => []StreamIsTheRun` | everything a worker publishes follows one script: its trace events, the outcome, the sentinel.  `Following`: what was sent is the beginning of the script and, while the client stays, the queue holds what comes next |
| `CountsHold` | `Spec => []CountsMatchStore` | `Stages` ties the outcome to whether the run was stored |
| `ToldAreFetchable` | `Spec => []ToldMeansFetchable` | `Following`: a client is told only what the script tells, and `Stages` that the run is stored by then; the store tells the history of what was stored (`RunStoreProofs`) |

**`RuntimeSurfaceProofs`**, for any requests, doors, ids, asks and capacity:

| Theorem | States | Argument |
| --- | --- | --- |
| `TypeCorrect` | `Spec => []TypeOK` | `Inv`: what a request has in hand at each step of its way, from which each answer's slug and status follow by cases of the door and of how the run ended |
| `EnvelopesAreCorrelated` | `Spec => []EnvelopeIsCorrelated` | from `Inv`: the id is fixed on arrival and every layer answers with it; minted ids differ from each other and from those callers send |
| `FetchesTellHistory` | `Spec => []FetchTellsHistory` | what was fetched was the store at a length of the history that is remembered, and the store tells that history |
| `AnswersAlwaysAgree` | `Spec => []AnswersAgree` | from `Inv`, by cases of the door and of the end |
| `CountsAlwaysAddUp` | `Spec => []CountsAddUp` | `CountsInv`: each answer is started once, the responses counted are the tally of those started, the runs counted those stored and past their count, and what a scrape took was such a state |

**`PagesProofs`**, for any number of submissions, lengths of runs and cuts of the
stream: `TypeCorrect` (`Spec => []TypeOK`), `PageAlwaysShowsOneRun`
(`Spec => []PageShowsOneRun`) and `NoRunEndsSilently` (`Spec => []NoSilentEnd`).
The invariant has a part for each thing a page might mix up: what is waited for
(`Waits`), the halves of frames that came and what they put into the timeline
(`Halves`, `Listed`), whose message, artifact and result is shown (`Owned`), and
how the last submission was told to have ended (`Told`).

**`InputProofs`**, four parts that take one input apart:

| Theorem | States | Argument |
| --- | --- | --- |
| `TypeCorrect` | `Spec => []TypeOK` (`P1Client`) | inductive as it stands |
| `PassagesAreAlwaysBest` | `Spec => []PassagesAreBest` | `BestSoFar`, the loop's invariant: what is kept for a chunk is the best-ranked of those looked at; `PlacesAreTaken`: `Before` is a strict total order, so the places are 1 to the number kept, each taken once, and cutting at the cap loses nothing better |
| `EmptyIsAlwaysExplained` | `Spec => []EmptyIsExplained` | `InHand`: what a call has in each of its phases; a citation looked at keeps something |
| `SearchesAreAlwaysBest` | `CorpusInit /\ [][CorpusNext]_corpusVars => []SearchIsBest` | `OrderedByPlace`: under a strict total order of a finite set each place is taken once, and the earlier place is the better; scores are natural numbers (`ScoresAreNatural`), so score and position are such an order |
| `CorpusIsAlwaysFaithful` | `CorpusInit /\ [][CorpusNext]_corpusVars => []CorpusIsFaithful` | `CorpusInv`, below |
| `PlansAreUsable` | `PlannerInit /\ [][PlannerNext]_plannerVars => []PlanIsUsable` | `FirstKept`: what is kept are the first occurrences of the fragments; a repeat adds none (`RepeatIsPassed`), a new one is the next (`NewIsKept`) |
| `DriftIsAlwaysReported` | `ContractInit /\ [][ContractNext]_contractVars => []DriftIsReported` | for every set of modelled deviations: each that rejects a query or spoils its answer is overlooked, reported, or hidden by one that is (`RejectedIsReported`, `UnreadableIsReported`); nothing overlooked is reported (`OverlookedPairs`, `ReportedChanged`) |

`CorpusInv` has a part for the file being read (`FileRead`) and one for the files
before it (`FilesTold`).  In the open file every section but the last is told by
its passage (`ClosedRead`), and of the last the lines read so far are known: the
paragraphs gathered and the one still open are the words inside it, in order, one
paragraph for each line a paragraph opens with, and none is open exactly when the
last has ended (`BodyRead`).  `LineIsRead` and `SectionIsRead` carry that over one
line more, `FileIsRead` and `FilesToldMore` over the end of a file, and
`RefusedIsIllFormed` shows that a refused line makes its file ill-formed.  What
the folds `Gather` and `Flat` compute is proved without an induction theorem:
`PlaceByPlace` and `AlikeAgree` take the least place at which a function would be
undefined, or two would differ, from the well-foundedness of `<` on `Nat`, so
`GatherMore` and `FlatMore` can say what one element more does.

**`PackProofs`**, for any collection of packs and number of writes:

| Theorem | States | Argument |
| --- | --- | --- |
| `NeverMadeUp` | `Spec => []LoadedPackWasBuilt` | `PackInv` follows only the manifest: it is written in one piece, so the one on disk and the one read are cut short or a built pack's; it names its content; and verification finds that content (`VerifiedIsTheManifests`) |
| `PlainPacksComeBack` | `Spec => []PlainPackRoundTrips` | `RoundTripInv`: as far as a write has come the directory holds its files, and a load that was promised a pack has read that pack's; verification of a pack's own files returns it (`VerifiedAsWritten`), if no record holds a separator (`PlainLines`) |

Only model-checked: liveness (`Terminates`, `ReaderIsAnswered`,
`OnlyOverflowStrands`, `LockComesBack`, `CallEnds`, `WaitsEnd`) and the fairness
of `ImplementsBoundedRun`, which are beyond this prover.

## 6. What is not modelled

* The wording of reports, gaps and errors, rendering, schemas, HTML and CSS: no
  property is about them.
* How a text is split into words and a question into fragments, the first sentence
  a lexicon quotes, the numbers of notes and markers: text work without state.
* Construction of the hosted backend and its address rules
  (`tools/service_url.py`): each inspects one value once.  `RuntimeSurface` knows
  that an address may be refused.
* The names of trace files: `trace_filename` (`api/routes.py:79`) maps ids that
  differ in a character it replaces to one name, which only names a download.
* The command line's flags and layout; its run, id and exit code are in
  `RuntimeSurface`.
* The evaluation harness: sequential calls of the loop over a fixed data set,
  with no state between them.
* A body nested so deeply that the JSON parser raises `RecursionError`: `P1Client`
  knows bodies that parse and bodies that do not.
* A separator in a field of a pack's record other than the question: it breaks the
  record's line in the same way.
* A comparison somebody supplies for a pack, and records made from a live state:
  they take the same path as those `Pack` builds.

## 7. Plan

Done: the loop with its critic and abstract run; store, threads and their
refinement; `Runtime` and `RuntimeSurface` over the store; the hosted client and
its contract; packs; pages; corpus and planner; the theorems of section 5.

What remains: every safety property that holds on the instances is proved for
all values of the constants, and liveness is only checked on them.
