--------------------------- MODULE RuntimeSurface ---------------------------
(***************************************************************************)
(* The doors into one ResearchService: the routes of api/routes.py, ui.py  *)
(* and stream.py, the two middlewares and the exception handlers around    *)
(* them as main.create_app assembles them, and the command line            *)
(* (research.py), a process of its own over the same service.              *)
(*                                                                         *)
(* A request is taken from its arrival to its answer in steps that end     *)
(* where it touches what requests share: the run store and the metrics     *)
(* registry.  How a run comes to its end is ResearchLoop's subject, how a  *)
(* stream is fed Runtime's; here a run ends in any way the loop, the       *)
(* backend and the deployment allow.                                       *)
(***************************************************************************)
EXTENDS Integers, Sequences, FiniteSets, Bags

CONSTANTS Requests,
          CallerIds,  \* ids that callers choose and is_safe_request_id accepts
          NoId,       \* no id sent, or one that is not safe; no id in a body
          Asks,       \* what callers ask: members of Ask
          Capacity    \* runs the store keeps

RunDoors == {"research", "trace", "form", "download", "stream", "cli"}
FetchDoors == {"run", "run.json", "trace.json"}
Doors == RunDoors \cup FetchDoors
             \cup {"compare", "pack", "page", "metrics", "nowhere", "wrong method"}

Ask == [door      : Doors,
        payload   : {"valid", "out of bounds", "unparsable", "help"},
        retriever : {"fake", "http"},
        header    : CallerIds \cup {NoId}]

Fresh(r, n) == <<r, n>>
Ids == CallerIds \cup {Fresh(r, n) : r \in Requests, n \in 1..2}

\* No caller guesses an id that is minted; only the command line has a help.
ASSUME SurfaceAssumption ==
    /\ IsFiniteSet(Requests)
    /\ Asks \subseteq Ask
    /\ \A ask \in Asks : ask.payload = "help" => ask.door = "cli"
    /\ Capacity \in Nat \ {0}
    /\ NoId \notin Ids
    /\ \A r \in Requests, n \in 1..2 : Fresh(r, n) \notin CallerIds

VARIABLES address,  \* PRODUCTION_RAG_URL of the deployment: unset, invalid or set
          req,      \* each request: what it asks, its id, how far it has come
          runs,     \* the run store
          finished, \* history of the run store
          served,   \* requests_total, a bag of <<label, status>>
          ended,    \* research_total, a bag of outcomes
          started   \* history: the requests answered, as their responses started

store == <<runs, finished>>
counters == <<served, ended>>
vars == <<address, req, store, counters, started>>

Store == INSTANCE RunStore WITH Owners <- Requests, MaxPuts <- Cardinality(Requests)

\* A slip: nothing is minted when the caller's id is absent.
ResolveOnlySent(header, r) == IF header = NoId THEN NoId ELSE header

\* resolve_request_id: the caller's id when it is safe to echo, else a new one.
ResolveRequestId(header, r) == IF header = NoId THEN Fresh(r, 1) ELSE header

-----------------------------------------------------------------------------
(* How a run ends, and what the doors call it.                             *)

Retriever(ask) == IF ask.door \in {"form", "download"} THEN "fake" ELSE ask.retriever

\* build_retriever, run_research and render_response.  A request for the hosted
\* backend is never served by the fixture.  An address the client will not dial
\* and an over-long lexicon lookup raise exceptions nobody expects.
RunEnds(retriever) ==
    IF retriever = "http" /\ address = "unset" THEN {"capability missing"}
    ELSE IF retriever = "http" /\ address = "invalid" THEN {"invalid address"}
    ELSE {"done", "partial", "lookup too long", "not reportable"}
             \cup IF retriever = "http" THEN {"backend failed"} ELSE {}

Finished == {"done", "partial"}
Unexpected == {"invalid address", "lookup too long"}

\* The slug a RuntimeSurfaceError carries, and what everything else is called.
Slug(end) ==
    CASE end \in Finished \cup {"served", "help"} -> "ok"
      [] end = "invalid" -> "validation_error"
      [] end = "capability missing" -> "capability_missing"
      [] end = "backend failed" -> "backend_unavailable"
      [] end = "not found" -> "not_found"
      [] end = "wrong method" -> "method_not_allowed"
      [] end \in Unexpected \cup {"not reportable"} -> "internal_error"

\* A slip: the stream's worker does not know the deliberate failures.
ReportedUntyped(door, end) ==
    IF door = "form" /\ end = "lookup too long" THEN "validation_error"
    ELSE IF door = "stream" /\ end \notin Finished /\ end # "invalid" THEN "internal_error"
    ELSE Slug(end)

\* The browser form validates and runs inside one `try`: a validation error that
\* comes out of the run is taken for the form's own.
Reported(door, end) ==
    IF door = "form" /\ end = "lookup too long" THEN "validation_error" ELSE Slug(end)

HttpStatus(slug) ==
    CASE slug = "ok" -> 200
      [] slug = "validation_error" -> 422
      [] slug = "not_found" -> 404
      [] slug = "method_not_allowed" -> 405
      [] slug \in {"capability_missing", "backend_unavailable"} -> 503
      [] slug = "internal_error" -> 500

ExitCode(end) ==
    CASE end \in {"done", "help"} -> 0
      [] end = "partial" -> 1
      [] Slug(end) = "validation_error" -> 2
      [] Slug(end) = "capability_missing" -> 3
      [] Slug(end) = "backend_unavailable" -> 4
      [] OTHER -> 5

\* An unexpected exception that leaves a route is answered by the outermost
\* layer of the application, outside both middlewares; the form and the
\* stream's worker answer theirs themselves.
Escapes(q) == q.end \in Unexpected /\ q.door \in {"research", "trace", "download"}

\* Paths of stored runs are counted under their prefix, unknown ones under one name.
Label(door) ==
    CASE door \in FetchDoors -> "/v1/runs" [] door = "nowhere" -> "other" [] OTHER -> door

-----------------------------------------------------------------------------
(* Handling a request.                                                     *)

NoAnswer == [status |-> 0, slug |-> "none", header |-> NoId, body |-> NoId]
NoCounts == [served |-> EmptyBag, ended |-> EmptyBag]

\* No request came yet; `retriever` and `header` are those of whatever will.
New == [door |-> "none", pc |-> "new", id |-> NoId, wanted |-> NoId, sent |-> NoId,
        payload |-> "valid", retriever |-> "fake", end |-> "none", found |-> <<>>, at |-> 0,
        shown |-> NoCounts, answer |-> NoAnswer]

Init ==
    /\ address \in {"unset", "invalid", "set"}
    /\ req = [r \in Requests |-> New]
    /\ Store!StoreInit
    /\ served = EmptyBag
    /\ ended = EmptyBag
    /\ started = <<>>

\* What routing and validation decide before anything is done.
Verdict(ask) ==
    IF ask.door = "nowhere" THEN "not found"
    ELSE IF ask.door = "wrong method" THEN "wrong method"
    ELSE IF ask.payload = "help" THEN "help"
    ELSE IF ask.payload \in {"out of bounds", "unparsable"} THEN "invalid"
    ELSE IF ask.door \in {"page", "compare", "pack"} THEN "served"
    ELSE "none"

FirstStep(ask) ==
    IF Verdict(ask) # "none" THEN "answer"
    ELSE CASE ask.door = "stream" -> "open"
           [] ask.door \in FetchDoors -> "fetch"
           [] ask.door = "metrics" -> "render"
           [] OTHER -> "run"

\* The middleware establishes the id in the request's scope, or main does.
\* A client asks for a run under an id somebody has been using.
Arrive(r) ==
    /\ req[r].pc = "new"
    /\ \E ask \in Asks :
       \E wanted \in IF ask.door \in FetchDoors
                       THEN CallerIds \cup ({req[q].id : q \in Requests} \ {NoId})
                       ELSE {NoId} :
          req' = [req EXCEPT ![r] =
                     [New EXCEPT !.door = ask.door, !.payload = ask.payload,
                                 !.retriever = Retriever(ask), !.sent = ask.header,
                                 !.wanted = wanted,
                                 !.id = ResolveRequestId(ask.header, r),
                                 !.end = Verdict(ask), !.pc = FirstStep(ask)]]
    /\ UNCHANGED <<address, store, counters, started>>

\* service.run: perform, then store under the id of the request.  The command
\* line is a process of its own, its store ends with it.
Perform(r) ==
    /\ req[r].pc = "run"
    /\ \E end \in RunEnds(req[r].retriever) :
          LET kept == end \in Finished /\ req[r].door # "cli"
          IN  /\ IF kept THEN Store!Put([id |-> req[r].id, owner |-> r]) ELSE UNCHANGED store
              /\ req' = [req EXCEPT ![r].end = end,
                                    ![r].pc = IF kept THEN "count" ELSE "answer"]
    /\ UNCHANGED <<address, counters, started>>

\* record_run, in run_and_count or in the stream's worker.
Count(r) ==
    /\ req[r].pc = "count"
    /\ ended' = ended (+) SetToBag({req[r].end})
    /\ req' = [req EXCEPT ![r].pc = "answer"]
    /\ UNCHANGED <<address, store, served, started>>

\* A slip: the fetch looks for its own request instead of the one in the path.
FetchOwnId(r) ==
    /\ req[r].pc = "fetch"
    /\ LET found == Store!Get(runs, req[r].id)
       IN  req' = [req EXCEPT ![r].found = found, ![r].at = Len(finished),
                              ![r].end = IF found = <<>> THEN "not found" ELSE "served",
                              ![r].pc = "answer"]
    /\ UNCHANGED <<address, store, counters, started>>

\* stored_run, by the three routes of a stored run.
Fetch(r) ==
    /\ req[r].pc = "fetch"
    /\ LET found == Store!Get(runs, req[r].wanted)
       IN  req' = [req EXCEPT ![r].found = found, ![r].at = Len(finished),
                              ![r].end = IF found = <<>> THEN "not found" ELSE "served",
                              ![r].pc = "answer"]
    /\ UNCHANGED <<address, store, counters, started>>

\* The exposition is read under the registry's lock, before it is answered.
Render(r) ==
    /\ req[r].pc = "render"
    /\ req' = [req EXCEPT ![r].shown = [served |-> served, ended |-> ended],
                          ![r].end = "served", ![r].pc = "answer"]
    /\ UNCHANGED <<address, store, counters, started>>

\* A slip: what answers outside the middleware does not see the request's scope.
CorrelationIdAnew(r) == IF Escapes(req[r]) THEN Fresh(r, 2) ELSE req[r].id

\* correlation_id: the id in the request's scope, which every layer shares.
CorrelationId(r) == req[r].id

\* The id in what is printed, shown or sent; lists and pages have none.
BodyId(r) ==
    LET q == req[r]
    IN  IF q.door = "cli" /\ q.payload \in {"unparsable", "help"} THEN NoId
        ELSE IF Slug(q.end) # "ok" THEN CorrelationId(r)
        ELSE CASE q.door \in {"research", "form", "stream", "cli"} -> CorrelationId(r)
               [] q.door \in {"run", "run.json"} -> q.found[1].id
               [] OTHER -> NoId

\* A slip: the middleware that counts is asked only where a route answered.
CountResponseRouted(r, status) ==
    served' = IF req[r].end \in {"not found", "wrong method"} THEN served
              ELSE served (+) SetToBag({<<Label(req[r].door), status>>})

\* MetricsMiddleware, as the response starts.
CountResponse(r, status) ==
    served' = IF Escapes(req[r]) THEN served
              ELSE served (+) SetToBag({<<Label(req[r].door), status>>})

\* A stream's response starts before its run does.
Open(r) ==
    /\ req[r].pc = "open"
    /\ CountResponse(r, 200)
    /\ started' = Append(started, r)
    /\ req' = [req EXCEPT ![r].pc = "run", ![r].answer.status = 200]
    /\ UNCHANGED <<address, store, ended>>

Answered(r, status) ==
    req' = [req EXCEPT ![r].pc = "answered",
                       ![r].answer = [status |-> status,
                                      slug |-> Reported(req[r].door, req[r].end),
                                      header |-> IF req[r].door = "cli" THEN NoId
                                                 ELSE CorrelationId(r),
                                      body |-> BodyId(r)]]

\* A response starts here, unless it is the command line or a stream under way.
Answer(r) ==
    /\ req[r].pc = "answer"
    /\ LET slug == Reported(req[r].door, req[r].end)
           responds == req[r].door # "cli" /\ req[r].answer.status = 0
           status == IF req[r].door = "cli" THEN ExitCode(req[r].end)
                     ELSE IF responds THEN HttpStatus(slug) ELSE req[r].answer.status
       IN  /\ Answered(r, status)
           /\ IF responds
                THEN CountResponse(r, status) /\ started' = Append(started, r)
                ELSE UNCHANGED <<served, started>>
    /\ UNCHANGED <<address, store, ended>>

Step(r) ==
    Arrive(r) \/ Perform(r) \/ Count(r) \/ Fetch(r) \/ Render(r) \/ Open(r) \/ Answer(r)

Next == \E r \in Requests : Step(r)

Spec == Init /\ [][Next]_vars

-----------------------------------------------------------------------------
(* Properties.                                                             *)

Ends == Finished \cup Unexpected
            \cup {"none", "invalid", "help", "served", "not found", "wrong method",
                  "capability missing", "backend failed", "not reportable"}

(***************************************************************************)
(* Requests, store and counters have their shapes: every request that came *)
(* has an id, every answer one of the slugs and one of the statuses or     *)
(* exit codes.                                                             *)
(***************************************************************************)
TypeOK ==
    /\ address \in {"unset", "invalid", "set"}
    /\ \A r \in Requests :
          /\ req[r].pc \in {"new", "open", "run", "count", "fetch", "render", "answer", "answered"}
          /\ req[r].door \in Doors \cup {"none"}
          /\ req[r].id \in IF req[r].pc = "new" THEN {NoId} ELSE Ids
          /\ req[r].wanted \in Ids \cup {NoId}
          /\ req[r].end \in Ends
          /\ req[r].found \in Seq(Store!Artifact)
          /\ req[r].at \in 0..Len(finished)
          /\ req[r].pc = "answered" =>
                /\ req[r].answer.slug \in {"ok", "validation_error", "capability_missing",
                                           "backend_unavailable", "internal_error", "not_found",
                                           "method_not_allowed"}
                /\ req[r].answer.status \in 0..5 \cup {200, 404, 405, 422, 500, 503}
    /\ runs \in Seq(Store!Artifact)
    /\ finished \in Seq(Store!Artifact)
    /\ IsABag(served) /\ IsABag(ended)
    /\ started \in Seq(Requests)

(***************************************************************************)
(* One id ties a request together: its caller's if that is safe, else a    *)
(* new one nobody else has; the same in the header, in the body -- also    *)
(* when an exception was answered outside the middleware -- and in the     *)
(* store.  A stored run is answered with the id it was asked for.          *)
(***************************************************************************)
EnvelopeIsCorrelated ==
    \A r \in Requests : LET q == req[r] IN
        /\ q.pc # "new" => (q.id = q.sent \/ q.sent = NoId)
        /\ \A s \in Requests \ {r} : q.id = req[s].id /\ q.id # NoId => q.sent = q.id
        /\ q.pc = "answered" =>
              /\ q.answer.header = IF q.door = "cli" THEN NoId ELSE q.id
              /\ q.answer.body \in {NoId, IF q.found = <<>> THEN q.id ELSE q.wanted}
              /\ q.answer.slug # "ok" /\ q.answer.body = NoId => q.payload = "unparsable"
        /\ \A i \in 1..Len(finished) : finished[i].owner = r => finished[i].id = q.id

Counted(r) == ~Escapes(req[r])

\* requests_total for the responses of a sequence of requests.
Tally(requests) ==
    LET label(r) == <<Label(req[r].door), req[r].answer.status>>
        counted == {i \in 1..Len(requests) : Counted(requests[i])}
    IN  [l \in {label(requests[i]) : i \in counted} |->
            Cardinality({i \in counted : label(requests[i]) = l})]

\* Runs counted under an outcome, and under any.
Runs(end, bag) == IF BagIn(end, bag) THEN bag[end] ELSE 0
AllRuns(bag) == Runs("done", bag) + Runs("partial", bag)

\* Answers that promise a finished run.
Promises(r) == req[r].answer.status = 200 /\ req[r].door \in {"research", "trace", "form", "download"}

(***************************************************************************)
(* The counters are the history: every response that started is counted    *)
(* once, under its route and the status it promised, the unexpected        *)
(* exceptions answered outside the middleware excepted; every stored run   *)
(* is counted once.  A scrape shows them as they were at one moment before *)
(* its own response, when no run was promised that it does not show.       *)
(***************************************************************************)
CountsAddUp ==
    /\ served = Tally(started)
    /\ AllRuns(ended) + Cardinality({r \in Requests : req[r].pc = "count"}) = Len(finished)
    /\ \A end \in Finished : Runs(end, ended) <=
          Cardinality({i \in 1..Len(finished) : req[finished[i].owner].end = end})
    /\ \A r \in Requests : req[r].door = "metrics" /\ req[r].pc \in {"answer", "answered"} =>
          \E k \in 0..Len(started) :
              LET before == SubSeq(started, 1, k)
              IN  /\ req[r].shown.served = Tally(before)
                  /\ \A i \in 1..k : before[i] # r
                  /\ Cardinality({i \in 1..k : Promises(before[i])}) <=
                        AllRuns(req[r].shown.ended)

(***************************************************************************)
(* A fetch by id is answered with what history says of that id when it was *)
(* read: its newest run, unless as many other ids finished after it as the *)
(* store holds.  So a page that fetches a run and then its trace is shown  *)
(* one run twice, or the id has finished again, or others pushed it out.   *)
(***************************************************************************)
FetchTellsHistory ==
    \A r \in Requests : req[r].door \in FetchDoors /\ req[r].pc \in {"answer", "answered"} =>
        LET past == {i \in 1..req[r].at : finished[i].id = req[r].wanted}
            others(i) == {finished[j].id : j \in (i + 1)..req[r].at} \ {req[r].wanted}
            last == CHOOSE i \in past : \A j \in past : j <= i
        IN  IF past # {} /\ Cardinality(others(last)) < Capacity
              THEN req[r].found = <<finished[last]>>
              ELSE req[r].found = <<>>

(***************************************************************************)
(* The same end reads the same whichever door it came through: one slug;   *)
(* one status for all responses that start when the end is known.  Only    *)
(* the form that takes a defect for its own validation differs.  A run     *)
(* that was to use the hosted backend answers only where one is set.       *)
(***************************************************************************)
AnswersAgree ==
    LET over == {r \in Requests : req[r].pc = "answered"}
        mistaken == {r \in over : req[r].door = "form" /\ req[r].end \in Unexpected}
    IN  /\ \A r, s \in over \ mistaken : req[r].end = req[s].end =>
              /\ req[r].answer.slug = req[s].answer.slug
              /\ {req[r].door, req[s].door} \cap {"cli", "stream"} = {} =>
                    req[r].answer.status = req[s].answer.status
              /\ req[r].door = "cli" =>
                    (req[r].answer.status = 0 <=> req[r].end \in {"done", "help"})
        /\ \A r \in over : req[r].retriever = "http" /\ req[r].end \in Finished =>
              address = "set"
=============================================================================
