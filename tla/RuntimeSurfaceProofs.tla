------------------------ MODULE RuntimeSurfaceProofs ------------------------
(***************************************************************************)
(* Ids, answers, fetches and counters of the doors, for any requests, ids, *)
(* asks and capacity.  A request has a story: what its stage says of its   *)
(* end, its id and its answer.  The store keeps the history of RunStore,   *)
(* to which every fetch is held, and what was counted is told by the       *)
(* stories of the requests that were stored and answered.                  *)
(***************************************************************************)
EXTENDS RuntimeSurface, FiniteSetTheorems, FunctionTheorems, SequenceTheorems, WellFoundedInduction, TLAPS

\* The lemmas about the store's history, for the store behind the doors.
History == INSTANCE RunStoreProofs WITH
    Owners <- Requests, MaxPuts <- Cardinality(Requests)

Stages == {"new", "open", "run", "count", "fetch", "render", "answer", "answered"}
Slugs == {"ok", "validation_error", "capability_missing", "backend_unavailable",
          "internal_error", "not_found", "method_not_allowed"}
Statuses == 0..5 \cup {200, 404, 405, 422, 500, 503}
Kept == [id : Ids, owner : Requests]

\* A request that shows what it shows.
Shape(shown) ==
    [door : Doors \cup {"none"}, pc : Stages, id : Ids \cup {NoId}, wanted : Ids \cup {NoId},
     sent : CallerIds \cup {NoId}, payload : {"valid", "out of bounds", "unparsable", "help"},
     retriever : {"fake", "http"}, end : Ends, found : Seq(Kept), at : Nat, shown : {shown},
     answer : [status : Statuses, slug : Slugs \cup {"none"},
               header : Ids \cup {NoId}, body : Ids \cup {NoId}]]

Types ==
    /\ address \in {"unset", "invalid", "set"}
    /\ DOMAIN req = Requests /\ req = [r \in Requests |-> req[r]]
    /\ \A r \in Requests : req[r] \in Shape(req[r].shown)
    /\ finished \in Seq(Kept)
    /\ started \in Seq(Requests)
    /\ IsABag(served) /\ IsABag(ended) /\ DOMAIN ended \subseteq Finished

\* What the stage of a request says of its end.
Course(q) ==
    /\ q.pc \in {"new", "open", "run", "fetch", "render"} <=> q.end = "none"
    /\ q.pc = "open" => q.door = "stream"
    /\ q.pc = "run" => q.door \in RunDoors
    /\ q.pc = "fetch" => q.door \in FetchDoors
    /\ q.pc = "render" => q.door = "metrics"
    /\ q.pc = "count" => q.end \in Finished /\ q.door # "cli"
    /\ q.end \in Finished => q.door \in RunDoors
    /\ q.end = "served" => q.door \notin RunDoors
    /\ q.payload = "help" => q.end = "help"
    /\ q.end = "help" => q.door = "cli"
    /\ q.found # <<>> => q.door \in FetchDoors /\ q.end = "served" /\ q.found[1].id = q.wanted
    /\ q.door \in FetchDoors /\ q.end = "served" => q.found # <<>>
    /\ q.retriever = "http" /\ q.end \in Finished => address = "set"

\* What it says of its id and of its answer.
Envelope(r, q) ==
    /\ q.pc = "new" => q = New
    /\ q.pc # "new" => q.door # "none" /\ q.id = ResolveRequestId(q.sent, r)
    /\ q.pc # "answered" =>
          /\ q.answer.status \in {0, 200}
          /\ q.answer.status = 200 => q.door = "stream" /\ q.pc \in {"run", "count", "answer"}
    /\ q.pc = "answered" =>
          /\ q.answer.slug = Reported(q.door, q.end)
          /\ q.door = "cli" => q.answer.status = ExitCode(q.end)
          /\ q.door # "cli" => q.answer.status # 0
          /\ q.door \notin {"cli", "stream"} => q.answer.status = HttpStatus(q.answer.slug)
          /\ q.answer.header = IF q.door = "cli" THEN NoId ELSE q.id
          /\ q.answer.body \in {NoId, IF q.found = <<>> THEN q.id ELSE q.wanted}
          /\ q.answer.slug # "ok" /\ q.answer.body = NoId => q.payload = "unparsable"

Stories == \A r \in Requests : Course(req[r]) /\ Envelope(r, req[r])

\* What is stored is what ended, under the id of its request, and once.
StoredOnce ==
    /\ \A i \in 1..Len(finished) :
          LET q == req[finished[i].owner]
          IN  q.end \in Finished /\ q.door # "cli" /\ q.id = finished[i].id
    /\ \A i, j \in 1..Len(finished) : finished[i].owner = finished[j].owner => i = j
    /\ \A r \in Requests : req[r].end \in Finished /\ req[r].door # "cli" =>
          \E i \in 1..Len(finished) : finished[i].owner = r

Read == \A r \in Requests : req[r].at <= Len(finished)

\* A fetch was answered with what a history said of its id.
ToldBy(q, history) ==
    LET past == {i \in 1..q.at : history[i].id = q.wanted}
        others(i) == {history[j].id : j \in (i + 1)..q.at} \ {q.wanted}
        last == CHOOSE i \in past : \A j \in past : j <= i
    IN  IF past # {} /\ Cardinality(others(last)) < Capacity
          THEN q.found = <<history[last]>>
          ELSE q.found = <<>>

Inv == Types /\ Stories /\ StoredOnce /\ History!StoreInv /\ Read /\ FetchTellsHistory

\* A step of one request.
Turns(r, q) == req' = [req EXCEPT ![r] = q] /\ address' = address

\* What it becomes goes on with its story.
GoesOn(r, q) == q \in Shape(q.shown) /\ Course(q) /\ Envelope(r, q)

\* What a stage leaves of a request.
Same(q, p) ==
    /\ q.door = p.door /\ q.id = p.id /\ q.wanted = p.wanted
    /\ q.found = p.found /\ q.at = p.at /\ q.shown = p.shown

-----------------------------------------------------------------------------
(* The start, and what a step leaves of the others.                        *)

LEMMA NoRequest == New \in Shape(New.shown) /\ Course(New) /\ \A r : Envelope(r, New)
<1>1. New \in Shape(New.shown)
  BY EmptySeq DEF New, Shape, NoAnswer, Stages, Statuses, Slugs, Ends
<1>2. Course(New) /\ \A r : Envelope(r, New)
  BY DEF New, Course, Envelope, NoAnswer, RunDoors, FetchDoors, Finished
<1>3. QED
  BY <1>1, <1>2

LEMMA Initially == Init => Inv
<1> SUFFICES ASSUME Init PROVE Inv
  OBVIOUS
<1>1. /\ finished = <<>> /\ runs = <<>> /\ started = <<>>
      /\ served = EmptyBag /\ ended = EmptyBag
      /\ address \in {"unset", "invalid", "set"}
      /\ req = [r \in Requests |-> New]
  BY DEF Init, Store!StoreInit
<1>2. Types
  <2>1. IsABag(EmptyBag) /\ DOMAIN EmptyBag = {}
    BY DEF IsABag, EmptyBag, SetToBag
  <2>2. finished \in Seq(Kept) /\ started \in Seq(Requests)
    BY <1>1
  <2>3. DOMAIN req = Requests /\ req = [r \in Requests |-> req[r]] /\ \A r \in Requests : req[r] = New
    BY <1>1
  <2>4. QED
    BY <1>1, <2>1, <2>2, <2>3, NoRequest DEF Types
<1>3. Stories
  BY <1>1, NoRequest DEF Stories
<1>4. StoredOnce /\ Read /\ FetchTellsHistory
  BY <1>1 DEF StoredOnce, Read, FetchTellsHistory, New, Finished
<1>5. History!StoreInv
  <2>1. History!StoreInit /\ Capacity \in Nat \ {0}
    BY <1>1, SurfaceAssumption DEF History!StoreInit
  <2>2. QED
    BY <2>1, History!StoreInvInit
<1>6. QED
  BY <1>2, <1>3, <1>4, <1>5 DEF Inv

LEMMA Turning ==
    ASSUME Types, Stories, NEW r \in Requests, NEW q, Turns(r, q), GoesOn(r, q)
    PROVE  /\ DOMAIN req' = Requests /\ req' = [s \in Requests |-> req'[s]]
           /\ req'[r] = q /\ \A s \in Requests : s # r => req'[s] = req[s]
           /\ \A s \in Requests : req'[s] \in Shape(req'[s].shown)
           /\ Stories'
<1>1. /\ DOMAIN req' = Requests /\ req' = [s \in Requests |-> req'[s]]
      /\ req'[r] = q /\ \A s \in Requests : s # r => req'[s] = req[s]
  BY DEF Turns, Types
<1>2. \A s \in Requests : req'[s] \in Shape(req'[s].shown)
  BY <1>1 DEF GoesOn, Types
<1>3. ASSUME NEW s \in Requests PROVE Course(req[s])' /\ Envelope(s, req[s])'
  <2>1. CASE s = r
    BY <1>1, <2>1 DEF GoesOn, Course, Envelope, Turns
  <2>2. CASE s # r
    BY <1>1, <2>2 DEF Stories, Course, Envelope, Turns
  <2>3. QED
    BY <2>1, <2>2
<1>4. QED
  BY <1>1, <1>2, <1>3 DEF Stories

LEMMA ArriveGoesOn ==
    ASSUME Types, Stories, NEW r \in Requests, Arrive(r)
    PROVE  \E q : /\ Turns(r, q) /\ GoesOn(r, q)
                  /\ q.end \notin Finished /\ q.found = <<>> /\ q.at = 0 /\ q.shown = NoCounts
                  /\ q.pc \notin {"count", "answered"} /\ q.answer.status = 0
<1> DEFINE wants(ask) == IF ask.door \in FetchDoors
                           THEN CallerIds \cup ({req[s].id : s \in Requests} \ {NoId})
                           ELSE {NoId}
<1>0. PICK ask \in Asks : \E wanted \in wants(ask) :
         req' = [req EXCEPT ![r] =
                     [New EXCEPT !.door = ask.door, !.payload = ask.payload,
                                 !.retriever = Retriever(ask), !.sent = ask.header,
                                 !.wanted = wanted,
                                 !.id = ResolveRequestId(ask.header, r),
                                 !.end = Verdict(ask), !.pc = FirstStep(ask)]]
  BY DEF Arrive
<1>1. PICK wanted \in wants(ask) :
         req' = [req EXCEPT ![r] =
                     [New EXCEPT !.door = ask.door, !.payload = ask.payload,
                                 !.retriever = Retriever(ask), !.sent = ask.header,
                                 !.wanted = wanted,
                                 !.id = ResolveRequestId(ask.header, r),
                                 !.end = Verdict(ask), !.pc = FirstStep(ask)]]
  BY <1>0
<1>11. wanted \in Ids \cup {NoId}
  <2>1. \A s \in Requests : req[s].id \in Ids \cup {NoId}
    BY DEF Types, Shape
  <2>2. CallerIds \subseteq Ids
    BY DEF Ids
  <2>3. QED
    BY <2>1, <2>2
<1> HIDE DEF wants
<1> DEFINE q == [New EXCEPT !.door = ask.door, !.payload = ask.payload,
                            !.retriever = Retriever(ask), !.sent = ask.header,
                            !.wanted = wanted,
                            !.id = ResolveRequestId(ask.header, r),
                            !.end = Verdict(ask), !.pc = FirstStep(ask)]
<1>2. ask \in Ask /\ (ask.payload = "help" => ask.door = "cli")
  BY SurfaceAssumption
<1>3. /\ q.door = ask.door /\ q.payload = ask.payload /\ q.retriever = Retriever(ask)
      /\ q.sent = ask.header /\ q.wanted = wanted /\ q.id = ResolveRequestId(ask.header, r)
      /\ q.end = Verdict(ask) /\ q.pc = FirstStep(ask)
      /\ q.found = <<>> /\ q.at = 0 /\ q.shown = NoCounts /\ q.answer = NoAnswer
  BY DEF New
<1>9. Turns(r, q)
  BY <1>1 DEF Turns, Arrive
<1> HIDE DEF q
<1>4. /\ Verdict(ask) \in {"not found", "wrong method", "help", "invalid", "served", "none"}
      /\ FirstStep(ask) \in {"answer", "open", "fetch", "render", "run"}
      /\ FirstStep(ask) = "answer" <=> Verdict(ask) # "none"
      /\ FirstStep(ask) = "open" => ask.door = "stream"
      /\ FirstStep(ask) = "fetch" => ask.door \in FetchDoors
      /\ FirstStep(ask) = "render" => ask.door = "metrics"
      /\ FirstStep(ask) = "run" => ask.door \in RunDoors
      /\ Verdict(ask) = "served" => ask.door \in {"page", "compare", "pack"}
      /\ ask.payload = "help" <=> Verdict(ask) = "help"
  <2>1. /\ Verdict(ask) \in {"not found", "wrong method", "help", "invalid", "served", "none"}
        /\ Verdict(ask) = "served" => ask.door \in {"page", "compare", "pack"}
        /\ Verdict(ask) = "none" =>
              ask.door \notin {"nowhere", "wrong method", "page", "compare", "pack"}
        /\ ask.payload = "help" <=> Verdict(ask) = "help"
    BY ONLY <1>2 DEF Verdict
  <2>2. ask.door \in Doors
    BY <1>2 DEF Ask
  <2> DEFINE v == Verdict(ask)
  <2> HIDE DEF v
  <2>3. FirstStep(ask) = IF v # "none" THEN "answer"
                         ELSE CASE ask.door = "stream" -> "open"
                                [] ask.door \in FetchDoors -> "fetch"
                                [] ask.door = "metrics" -> "render"
                                [] OTHER -> "run"
    BY DEF FirstStep, v
  <2>4. CASE v # "none"
    <3>1. FirstStep(ask) = "answer"
      BY ONLY <2>3, <2>4
    <3>2. QED
      BY <2>1, <2>4, <3>1 DEF v
  <2>5. CASE v = "none"
    <3>1. /\ FirstStep(ask) \in {"open", "fetch", "render", "run"}
          /\ FirstStep(ask) = "open" => ask.door = "stream"
          /\ FirstStep(ask) = "fetch" => ask.door \in FetchDoors
          /\ FirstStep(ask) = "render" => ask.door = "metrics"
          /\ FirstStep(ask) = "run" => ask.door \notin FetchDoors \cup {"stream", "metrics"}
      BY ONLY <2>3, <2>5 DEF FetchDoors
    <3>2. QED
      BY <2>1, <2>2, <2>5, <3>1 DEF v, Doors, RunDoors
  <2>6. QED
    BY <2>4, <2>5
<1>5. ResolveRequestId(ask.header, r) \in Ids
  <2>1. Fresh(r, 1) \in Ids /\ CallerIds \subseteq Ids
    BY DEF Ids
  <2>2. QED
    BY <1>2, <2>1 DEF Ask, ResolveRequestId
<1>6. q \in Shape(q.shown)
  <2>1. q.door \in Doors /\ q.sent \in CallerIds \cup {NoId} /\ q.retriever \in {"fake", "http"}
        /\ q.payload \in {"valid", "out of bounds", "unparsable", "help"}
    BY <1>2, <1>3 DEF Ask, Retriever
  <2>2. q.end \in Ends /\ q.pc \in Stages
    BY <1>3, <1>4 DEF Ends, Stages
  <2>3. q.found \in Seq(Kept) /\ q.answer \in [status : Statuses, slug : Slugs \cup {"none"},
                                       header : Ids \cup {NoId}, body : Ids \cup {NoId}]
    BY <1>3, EmptySeq DEF NoAnswer, Statuses
  <2>4. QED
    BY <1>3, <1>5, <1>11, <2>1, <2>2, <2>3 DEF Shape, q, New
<1>7. Course(q)
  BY <1>2, <1>3, <1>4 DEF Course, Finished, RunDoors, FetchDoors
<1>8. Envelope(r, q)
  <2>1. q.pc \notin {"new", "answered"}
    BY <1>3, <1>4
  <2>2. q.answer.status = 0
    BY <1>3 DEF NoAnswer
  <2>3. q.door # "none"
    BY <1>2, <1>3 DEF Ask, Doors, RunDoors, FetchDoors
  <2>4. QED
    BY <1>3, <2>1, <2>2, <2>3 DEF Envelope
<1>10. /\ q.end \notin Finished /\ q.found = <<>> /\ q.at = 0 /\ q.shown = NoCounts
       /\ q.pc \notin {"count", "answered"} /\ q.answer.status = 0
  <2>1. q.answer.status = 0
    BY <1>3 DEF NoAnswer
  <2>2. q.end \notin Finished /\ q.pc \notin {"count", "answered"}
    BY <1>3, <1>4 DEF Finished
  <2>3. QED
    BY <1>3, <2>1, <2>2
<1> WITNESS q
<1>12. QED
  BY <1>6, <1>7, <1>8, <1>9, <1>10 DEF GoesOn

\* Until it is answered, its envelope says little.
LEMMA Underway ==
    ASSUME NEW r, NEW q, Envelope(r, q), q.pc \notin {"new", "answered"}, NEW to,
           to.pc \in {"run", "count", "answer"},
           to.door = q.door, to.id = q.id, to.sent = q.sent, to.answer = q.answer
    PROVE  Envelope(r, to)
  BY DEF Envelope

LEMMA PerformGoesOn ==
    ASSUME Types, Stories, NEW r \in Requests, Perform(r)
    PROVE  \E q : /\ Turns(r, q) /\ GoesOn(r, q) /\ Same(q, req[r]) /\ q.answer = req[r].answer
                  /\ IF q.end \in Finished /\ q.door # "cli"
                       THEN q.pc = "count" /\ Store!Put([id |-> q.id, owner |-> r])
                       ELSE q.pc = "answer" /\ UNCHANGED store
<1>1. PICK end \in RunEnds(req[r].retriever) :
         /\ IF end \in Finished /\ req[r].door # "cli"
              THEN Store!Put([id |-> req[r].id, owner |-> r]) ELSE UNCHANGED store
         /\ req' = [req EXCEPT ![r].end = end,
                               ![r].pc = IF end \in Finished /\ req[r].door # "cli"
                                           THEN "count" ELSE "answer"]
  BY DEF Perform
<1> DEFINE pc == IF end \in Finished /\ req[r].door # "cli" THEN "count" ELSE "answer"
           q == [req[r] EXCEPT !.end = end, !.pc = pc]
<1>2. /\ end \in Ends /\ end \notin {"none", "served", "help"}
      /\ end \in Finished /\ req[r].retriever = "http" => address = "set"
  BY <1>1 DEF RunEnds, Ends, Finished, Unexpected, Types
<1>3. /\ req[r] \in Shape(req[r].shown) /\ Course(req[r]) /\ Envelope(r, req[r])
      /\ req[r].pc = "run" /\ address' = address
  BY DEF Types, Stories, Perform
<1>4. pc \in Stages /\ pc \in {"count", "answer"} /\ (pc = "count" => end \in Finished /\ req[r].door # "cli")
  BY DEF Stages
<1>5. Turns(r, q)
  BY <1>1, <1>3 DEF Turns, Types
<1> HIDE DEF pc
<1>6. /\ q \in Shape(q.shown) /\ q.end = end /\ q.pc = pc
      /\ q.door = req[r].door /\ q.id = req[r].id /\ q.wanted = req[r].wanted
      /\ q.sent = req[r].sent /\ q.payload = req[r].payload
      /\ q.retriever = req[r].retriever /\ q.found = req[r].found /\ q.answer = req[r].answer
      /\ q.at = req[r].at /\ q.shown = req[r].shown
  BY <1>2, <1>3, <1>4 DEF Shape
<1> HIDE DEF q
<1>7. Course(q)
  BY <1>2, <1>3, <1>4, <1>6 DEF Course, RunDoors, FetchDoors
<1>8. Envelope(r, q)
  BY <1>3, <1>4, <1>6, Underway
<1> WITNESS q
<1>9. QED
  BY <1>1, <1>5, <1>6, <1>7, <1>8 DEF GoesOn, Same, pc

LEMMA CountGoesOn ==
    ASSUME Types, Stories, NEW r \in Requests, Count(r)
    PROVE  \E q : /\ Turns(r, q) /\ GoesOn(r, q) /\ Same(q, req[r])
                  /\ q.end = req[r].end /\ q.pc = "answer" /\ q.answer = req[r].answer
<1> DEFINE q == [req[r] EXCEPT !.end = req[r].end, !.pc = "answer"]
<1>1. /\ req[r] \in Shape(req[r].shown) /\ Course(req[r]) /\ Envelope(r, req[r])
      /\ req[r].pc = "count" /\ address' = address /\ req[r].end \in Ends
  BY DEF Types, Stories, Count, Shape
<1>2. Turns(r, q)
  <2>1. q = [req[r] EXCEPT !.pc = "answer"]
    BY <1>1 DEF Shape
  <2> HIDE DEF q
  <2>2. req' = [req EXCEPT ![r] = q]
    BY <2>1 DEF Count
  <2>3. QED
    BY <1>1, <2>2 DEF Turns
<1>3. /\ q \in Shape(q.shown) /\ q.end = req[r].end /\ q.pc = "answer"
      /\ q.door = req[r].door /\ q.id = req[r].id /\ q.wanted = req[r].wanted
      /\ q.sent = req[r].sent /\ q.payload = req[r].payload
      /\ q.retriever = req[r].retriever /\ q.found = req[r].found /\ q.answer = req[r].answer
      /\ q.at = req[r].at /\ q.shown = req[r].shown
  BY <1>1 DEF Shape, Stages
<1> HIDE DEF q
<1>4. Course(q)
  BY <1>1, <1>3 DEF Course, RunDoors, FetchDoors, Finished
<1>5. Envelope(r, q)
  BY <1>1, <1>3, Underway
<1> WITNESS q
<1>6. QED
  BY <1>2, <1>3, <1>4, <1>5 DEF GoesOn, Same

LEMMA FetchGoesOn ==
    ASSUME Types, Stories, History!StoreInv, NEW r \in Requests, Fetch(r)
    PROVE  \E q : /\ Turns(r, q) /\ GoesOn(r, q)
                  /\ q.door = req[r].door /\ q.id = req[r].id /\ q.wanted = req[r].wanted
                  /\ q.shown = req[r].shown /\ q.answer = req[r].answer
                  /\ q.pc = "answer" /\ q.end \notin Finished
                  /\ q.found = Store!Get(runs, q.wanted) /\ q.at = Len(finished)
<1> DEFINE found == Store!Get(runs, req[r].wanted)
           end == IF found = <<>> THEN "not found" ELSE "served"
           q == [req[r] EXCEPT !.found = found, !.at = Len(finished), !.end = end, !.pc = "answer"]
<1>1. /\ req[r] \in Shape(req[r].shown) /\ Course(req[r]) /\ Envelope(r, req[r])
      /\ req[r].pc = "fetch" /\ address' = address
  BY DEF Types, Stories, Fetch
<1>2. found \in Seq(Kept) /\ (found # <<>> => found[1].id = req[r].wanted)
  <2>1. CASE Store!At(runs, req[r].wanted) = {}
    BY <2>1, EmptySeq DEF Store!Get
  <2>2. CASE Store!At(runs, req[r].wanted) # {}
    <3>1. PICK i \in 1..Len(runs) : runs[i].id = req[r].wanted /\ found = <<runs[i]>>
      BY <2>2 DEF Store!Get, Store!At
    <3>2. runs \in Seq(Kept)
      BY DEF History!StoreInv, History!Tells, History!Artifact, Kept
    <3>3. runs[i] \in Kept
      BY <3>2
    <3> HIDE DEF found
    <3>4. QED
      BY <3>1, <3>3
  <2>3. QED
    BY <2>1, <2>2
<1>3. Turns(r, q)
  BY <1>1 DEF Fetch, Turns, Types
<1>4. Len(finished) \in Nat
  BY DEF Types
<1>5. end \in {"not found", "served"} /\ (end = "served" <=> found # <<>>) /\ end \in Ends
  BY DEF Ends
<1> HIDE DEF found, end
<1>6. /\ q \in Shape(q.shown) /\ q.end = end /\ q.pc = "answer"
      /\ q.door = req[r].door /\ q.id = req[r].id /\ q.wanted = req[r].wanted
      /\ q.sent = req[r].sent /\ q.payload = req[r].payload
      /\ q.retriever = req[r].retriever /\ q.found = found /\ q.answer = req[r].answer
      /\ q.at = Len(finished) /\ q.shown = req[r].shown
  BY <1>1, <1>2, <1>4, <1>5 DEF Shape, Stages
<1> HIDE DEF q
<1>7. Course(q)
  BY <1>1, <1>2, <1>5, <1>6 DEF Course, RunDoors, FetchDoors, Finished
<1>8. Envelope(r, q)
  BY <1>1, <1>6, Underway
<1> WITNESS q
<1>9. QED
  BY <1>3, <1>5, <1>6, <1>7, <1>8 DEF GoesOn, found, Finished

LEMMA RenderGoesOn ==
    ASSUME Types, Stories, NEW r \in Requests, Render(r)
    PROVE  \E q : /\ Turns(r, q) /\ GoesOn(r, q)
                  /\ q.door = "metrics" /\ q.id = req[r].id /\ q.pc = "answer" /\ q.end = "served"
                  /\ q.found = req[r].found /\ q.at = req[r].at /\ q.wanted = req[r].wanted
                  /\ q.shown = [served |-> served, ended |-> ended] /\ q.answer = req[r].answer
<1> DEFINE shown == [served |-> served, ended |-> ended]
           q == [req[r] EXCEPT !.shown = shown, !.end = "served", !.pc = "answer"]
<1>1. /\ req[r] \in Shape(req[r].shown) /\ Course(req[r]) /\ Envelope(r, req[r])
      /\ req[r].pc = "render" /\ address' = address
  BY DEF Types, Stories, Render
<1>2. Turns(r, q)
  BY <1>1 DEF Render, Turns, Types
<1> HIDE DEF shown
<1>3. /\ q \in Shape(q.shown) /\ q.end = "served" /\ q.pc = "answer"
      /\ q.door = req[r].door /\ q.id = req[r].id /\ q.wanted = req[r].wanted
      /\ q.sent = req[r].sent /\ q.payload = req[r].payload
      /\ q.retriever = req[r].retriever /\ q.found = req[r].found /\ q.answer = req[r].answer
      /\ q.at = req[r].at /\ q.shown = shown
  <2>1. /\ q.end = "served" /\ q.pc = "answer"
        /\ q.door = req[r].door /\ q.id = req[r].id /\ q.wanted = req[r].wanted
        /\ q.sent = req[r].sent /\ q.payload = req[r].payload
        /\ q.retriever = req[r].retriever /\ q.found = req[r].found /\ q.answer = req[r].answer
        /\ q.at = req[r].at /\ q.shown = shown
    BY <1>1 DEF Shape
  <2>2. "served" \in Ends /\ "answer" \in Stages
    BY DEF Stages, Ends
  <2>3. q \in Shape(q.shown)
    BY <1>1, <2>1, <2>2 DEF Shape
  <2>4. QED
    BY <2>1, <2>3
<1> HIDE DEF q
<1>4. Course(q)
  BY <1>1, <1>3 DEF Course, RunDoors, FetchDoors, Finished
<1>5. Envelope(r, q)
  BY <1>1, <1>3, Underway
<1> WITNESS q
<1>6. QED
  BY <1>1, <1>2, <1>3, <1>4, <1>5 DEF GoesOn, Course, shown

LEMMA OpenGoesOn ==
    ASSUME Types, Stories, NEW r \in Requests, Open(r)
    PROVE  \E q : /\ Turns(r, q) /\ GoesOn(r, q) /\ Same(q, req[r])
                  /\ q.door = "stream" /\ q.end = "none" /\ q.pc = "run" /\ q.answer.status = 200
<1> DEFINE answer == [req[r].answer EXCEPT !.status = 200]
           q == [req[r] EXCEPT !.pc = "run", !.answer = answer]
<1>1. /\ req[r] \in Shape(req[r].shown) /\ Course(req[r]) /\ Envelope(r, req[r])
      /\ req[r].pc = "open" /\ address' = address
  BY DEF Types, Stories, Open
<1>2. Turns(r, q)
  <2> DEFINE one == [req EXCEPT ![r] = [req[r] EXCEPT !.pc = "run"]]
  <2>1. one[r] = [req[r] EXCEPT !.pc = "run"] /\ one[r].answer = req[r].answer
    BY <1>1 DEF Types, Shape
  <2>2. req' = [one EXCEPT ![r] = [one[r] EXCEPT !.answer = [one[r].answer EXCEPT !.status = 200]]]
    BY DEF Open
  <2>3. req' = [one EXCEPT ![r] = q]
    BY ONLY <2>1, <2>2
  <2>4. [one EXCEPT ![r] = q] = [req EXCEPT ![r] = q]
    OBVIOUS
  <2>5. QED
    BY <1>1, <2>3, <2>4 DEF Turns
<1>3. /\ answer.status = 200
      /\ answer \in [status : Statuses, slug : Slugs \cup {"none"},
                     header : Ids \cup {NoId}, body : Ids \cup {NoId}]
  <2>1. req[r].answer \in [status : Statuses, slug : Slugs \cup {"none"},
                           header : Ids \cup {NoId}, body : Ids \cup {NoId}]
    BY <1>1 DEF Shape
  <2>2. 200 \in Statuses
    BY DEF Statuses
  <2>3. QED
    BY <2>1, <2>2
<1> HIDE DEF answer
<1>4. /\ q \in Shape(q.shown) /\ q.end = req[r].end /\ q.pc = "run"
      /\ q.door = req[r].door /\ q.id = req[r].id /\ q.wanted = req[r].wanted
      /\ q.sent = req[r].sent /\ q.payload = req[r].payload
      /\ q.retriever = req[r].retriever /\ q.found = req[r].found /\ q.answer = answer
      /\ q.at = req[r].at /\ q.shown = req[r].shown
  <2>1. /\ q.end = req[r].end /\ q.pc = "run"
        /\ q.door = req[r].door /\ q.id = req[r].id /\ q.wanted = req[r].wanted
        /\ q.sent = req[r].sent /\ q.payload = req[r].payload
        /\ q.retriever = req[r].retriever /\ q.found = req[r].found /\ q.answer = answer
        /\ q.at = req[r].at /\ q.shown = req[r].shown
    BY <1>1, <1>3 DEF Shape
  <2>2. "run" \in Stages
    BY DEF Stages
  <2>3. q \in Shape(q.shown)
    BY <1>1, <1>3, <2>1, <2>2 DEF Shape
  <2>4. QED
    BY <2>1, <2>3
<1> HIDE DEF q
<1>5. Course(q)
  BY <1>1, <1>4 DEF Course, RunDoors, FetchDoors, Finished
<1>6. Envelope(r, q)
  BY <1>1, <1>3, <1>4 DEF Envelope, Course
<1> WITNESS q
<1>7. QED
  BY <1>1, <1>2, <1>3, <1>4, <1>5, <1>6 DEF GoesOn, Same, Course

\* Every end has a name, and every name a status and an exit code.
LEMMA Named ==
    ASSUME NEW end \in Ends, end # "none"
    PROVE  /\ Slug(end) \in Slugs
           /\ Slug(end) = "ok" <=> end \in {"done", "partial", "served", "help"}
           /\ \A door : Reported(door, end) \in Slugs /\ (Reported(door, end) = "ok" <=> Slug(end) = "ok")
           /\ HttpStatus(Slug(end)) \in Statuses \ {0}
           /\ \A door : HttpStatus(Reported(door, end)) \in Statuses \ {0}
           /\ ExitCode(end) \in Statuses
           /\ ExitCode(end) = 0 <=> end \in {"done", "help"}
<1>1. /\ Slug(end) \in Slugs
      /\ Slug(end) = "ok" <=> end \in {"done", "partial", "served", "help"}
  BY DEF Slug, Slugs, Ends, Finished, Unexpected
<1>2. \A slug \in Slugs : HttpStatus(slug) \in Statuses \ {0}
  BY DEF HttpStatus, Slugs, Statuses
<1>3. \A door : Reported(door, end) \in Slugs /\ (Reported(door, end) = "ok" <=> Slug(end) = "ok")
  BY <1>1 DEF Reported, Slugs
<1>4. ExitCode(end) \in Statuses /\ (ExitCode(end) = 0 <=> end \in {"done", "help"})
  <2> DEFINE slug == Slug(end)
  <2> HIDE DEF slug
  <2>1. ExitCode(end) = CASE end \in {"done", "help"} -> 0
                          [] end = "partial" -> 1
                          [] slug = "validation_error" -> 2
                          [] slug = "capability_missing" -> 3
                          [] slug = "backend_unavailable" -> 4
                          [] OTHER -> 5
    BY DEF ExitCode, slug
  <2>2. slug = "ok" <=> end \in {"done", "partial", "served", "help"}
    BY <1>1 DEF slug
  <2>3. ExitCode(end) \in 0..5 /\ (ExitCode(end) = 0 <=> end \in {"done", "help"})
    BY ONLY <2>1, <2>2
  <2>4. QED
    BY <2>3 DEF Statuses
<1>5. QED
  BY <1>1, <1>2, <1>3, <1>4

\* The id that an answer shows.
LEMMA Shown ==
    ASSUME NEW r \in Requests, NEW q, q = req[r], q \in Shape(q.shown), Course(q),
           q.end # "none"
    PROVE  /\ BodyId(r) \in {NoId, IF q.found = <<>> THEN q.id ELSE q.wanted}
           /\ BodyId(r) \in Ids \cup {NoId}
           /\ Slug(q.end) # "ok" /\ BodyId(r) = NoId => q.payload = "unparsable" \/ q.id = NoId
<1>1. /\ q.id \in Ids \cup {NoId} /\ q.wanted \in Ids \cup {NoId} /\ q.end \in Ends
      /\ q.found \in Seq(Kept)
  BY DEF Shape
<1>2. BodyId(r) = IF q.door = "cli" /\ q.payload \in {"unparsable", "help"} THEN NoId
                  ELSE IF Slug(q.end) # "ok" THEN q.id
                  ELSE CASE q.door \in {"research", "form", "stream", "cli"} -> q.id
                         [] q.door \in {"run", "run.json"} -> q.found[1].id
                         [] OTHER -> NoId
  BY DEF BodyId, CorrelationId
<1>3. Slug(q.end) = "ok" <=> q.end \in {"done", "partial", "served", "help"}
  BY <1>1, Named
<1>4. CASE q.door = "cli" /\ q.payload \in {"unparsable", "help"}
  <2>1. BodyId(r) = NoId
    BY <1>2, <1>4
  <2>2. q.payload = "help" => Slug(q.end) = "ok"
    BY <1>3 DEF Course
  <2>3. QED
    BY <1>4, <2>1, <2>2
<1>5. CASE ~(q.door = "cli" /\ q.payload \in {"unparsable", "help"}) /\ Slug(q.end) # "ok"
  <2>1. BodyId(r) = q.id /\ q.found = <<>>
    BY <1>2, <1>3, <1>5 DEF Course
  <2>2. QED
    BY <1>1, <2>1
<1>6. CASE ~(q.door = "cli" /\ q.payload \in {"unparsable", "help"}) /\ Slug(q.end) = "ok"
  <2>1. BodyId(r) = CASE q.door \in {"research", "form", "stream", "cli"} -> q.id
                      [] q.door \in {"run", "run.json"} -> q.found[1].id
                      [] OTHER -> NoId
    BY <1>2, <1>6
  <2>2. q.door \in {"research", "form", "stream", "cli"} => BodyId(r) = q.id /\ q.found = <<>>
    BY <2>1 DEF Course, FetchDoors
  <2>3. q.door \in {"run", "run.json"} => BodyId(r) = q.wanted /\ q.found # <<>>
    <3>1. ASSUME q.door \in {"run", "run.json"}
          PROVE  q.found # <<>> /\ q.found[1].id = q.wanted
      <4>1. q.door \in FetchDoors /\ q.door \notin RunDoors /\ q.door # "cli"
        BY <3>1 DEF FetchDoors, RunDoors
      <4>2. q.end = "served"
        BY <1>3, <1>6, <4>1 DEF Course, Finished
      <4>3. QED
        BY <4>1, <4>2 DEF Course
    <3>2. QED
      BY <2>1, <3>1
  <2>4. q.door \notin {"research", "form", "stream", "cli", "run", "run.json"} => BodyId(r) = NoId
    BY <2>1
  <2>5. QED
    BY <1>1, <1>6, <2>2, <2>3, <2>4
<1>7. QED
  BY <1>4, <1>5, <1>6

\* What is answered, and with which status.
StatusOf(q) ==
    IF q.door = "cli" THEN ExitCode(q.end)
    ELSE IF q.answer.status = 0 THEN HttpStatus(Reported(q.door, q.end)) ELSE q.answer.status

LEMMA AnswerGoesOn ==
    ASSUME Types, Stories, NEW r \in Requests, Answer(r)
    PROVE  \E q : /\ Turns(r, q) /\ GoesOn(r, q) /\ Same(q, req[r])
                  /\ q.end = req[r].end /\ q.pc = "answered" /\ q.answer.status = StatusOf(req[r])
<1> DEFINE answer == [status |-> StatusOf(req[r]),
                      slug |-> Reported(req[r].door, req[r].end),
                      header |-> IF req[r].door = "cli" THEN NoId ELSE req[r].id,
                      body |-> BodyId(r)]
           q == [req[r] EXCEPT !.pc = "answered", !.answer = answer]
<1>1. /\ req[r] \in Shape(req[r].shown) /\ Course(req[r]) /\ Envelope(r, req[r])
      /\ req[r].pc = "answer" /\ address' = address
      /\ req[r].end \in Ends /\ req[r].end # "none"
      /\ req[r].id = ResolveRequestId(req[r].sent, r)
  <2>1. /\ req[r] \in Shape(req[r].shown) /\ Course(req[r]) /\ Envelope(r, req[r])
        /\ req[r].pc = "answer" /\ address' = address
    BY DEF Types, Stories, Answer
  <2>2. req[r].end \in Ends
    BY <2>1 DEF Shape
  <2>3. req[r].end # "none"
    BY <2>1 DEF Course
  <2>4. req[r].id = ResolveRequestId(req[r].sent, r)
    BY <2>1 DEF Envelope
  <2>5. QED
    BY <2>1, <2>2, <2>3, <2>4
<1>2. Turns(r, q)
  <2>1. Answered(r, StatusOf(req[r]))
    BY DEF Answer, StatusOf
  <2>2. req' = [req EXCEPT ![r] = q]
    BY <2>1 DEF Answered, CorrelationId
  <2>3. QED
    BY <1>1, <2>2 DEF Turns
<1>3. /\ StatusOf(req[r]) \in Statuses /\ (req[r].door # "cli" => StatusOf(req[r]) # 0)
      /\ req[r].door \notin {"cli", "stream"} =>
            StatusOf(req[r]) = HttpStatus(Reported(req[r].door, req[r].end))
  <2>1. req[r].answer.status \in {0, 200} /\ (req[r].answer.status = 200 => req[r].door = "stream")
    BY <1>1 DEF Envelope
  <2>2. 200 \in Statuses
    BY DEF Statuses
  <2>3. QED
    BY <1>1, <2>1, <2>2, Named DEF StatusOf
<1>4. req[r].id \in Ids
  <2>1. Fresh(r, 1) \in Ids /\ CallerIds \subseteq Ids
    BY DEF Ids
  <2>2. QED
    BY <1>1, <2>1 DEF Shape, ResolveRequestId
<1>5. /\ answer.status = StatusOf(req[r]) /\ answer.slug = Reported(req[r].door, req[r].end)
      /\ answer.header = IF req[r].door = "cli" THEN NoId ELSE req[r].id
      /\ answer.body = BodyId(r)
      /\ answer \in [status : Statuses, slug : Slugs \cup {"none"},
                     header : Ids \cup {NoId}, body : Ids \cup {NoId}]
  <2>1. Reported(req[r].door, req[r].end) \in Slugs
    BY <1>1, Named
  <2>2. BodyId(r) \in Ids \cup {NoId}
    BY <1>1, Shown
  <2>3. QED
    BY <1>3, <1>4, <2>1, <2>2
<1> HIDE DEF answer
<1>6. /\ q \in Shape(q.shown) /\ q.end = req[r].end /\ q.pc = "answered"
      /\ q.door = req[r].door /\ q.id = req[r].id /\ q.wanted = req[r].wanted
      /\ q.sent = req[r].sent /\ q.payload = req[r].payload
      /\ q.retriever = req[r].retriever /\ q.found = req[r].found /\ q.answer = answer
      /\ q.at = req[r].at /\ q.shown = req[r].shown
  <2>1. /\ q.end = req[r].end /\ q.pc = "answered"
        /\ q.door = req[r].door /\ q.id = req[r].id /\ q.wanted = req[r].wanted
        /\ q.sent = req[r].sent /\ q.payload = req[r].payload
        /\ q.retriever = req[r].retriever /\ q.found = req[r].found /\ q.answer = answer
        /\ q.at = req[r].at /\ q.shown = req[r].shown
    BY <1>1, <1>5 DEF Shape
  <2>2. "answered" \in Stages
    BY DEF Stages
  <2>3. q \in Shape(q.shown)
    BY <1>1, <1>5, <2>1, <2>2 DEF Shape
  <2>4. QED
    BY <2>1, <2>3
<1> HIDE DEF q
<1>7. Course(q)
  BY <1>1, <1>6 DEF Course
<1>8. Envelope(r, q)
  <2>1. /\ BodyId(r) \in {NoId, IF req[r].found = <<>> THEN req[r].id ELSE req[r].wanted}
        /\ Slug(req[r].end) # "ok" /\ BodyId(r) = NoId => req[r].payload = "unparsable"
    BY <1>1, <1>4, Shown, SurfaceAssumption
  <2>2. Reported(req[r].door, req[r].end) = "ok" <=> Slug(req[r].end) = "ok"
    BY <1>1, Named
  <2>3. req[r].door # "none"
    BY <1>1 DEF Envelope
  <2>4. QED
    <3>1. q.pc # "new" => q.door # "none" /\ q.id = ResolveRequestId(q.sent, r)
      BY <1>1, <1>6, <2>3
    <3>2. /\ q.answer.slug = Reported(q.door, q.end)
          /\ q.answer.header = IF q.door = "cli" THEN NoId ELSE q.id
      BY <1>5, <1>6
    <3>3. /\ q.door = "cli" => q.answer.status = ExitCode(q.end)
          /\ q.door # "cli" => q.answer.status # 0
          /\ q.door \notin {"cli", "stream"} => q.answer.status = HttpStatus(q.answer.slug)
      BY <1>3, <1>5, <1>6 DEF StatusOf
    <3>4. /\ q.answer.body \in {NoId, IF q.found = <<>> THEN q.id ELSE q.wanted}
          /\ q.answer.slug # "ok" /\ q.answer.body = NoId => q.payload = "unparsable"
      BY <1>5, <1>6, <2>1, <2>2
    <3>5. q.pc = "answered"
      BY <1>6
    <3>6. QED
      BY <3>1, <3>2, <3>3, <3>4, <3>5 DEF Envelope
<1> WITNESS q
<1>9. QED
  BY <1>2, <1>5, <1>6, <1>7, <1>8 DEF GoesOn, Same

-----------------------------------------------------------------------------
(* What a fetch finds.                                                     *)

\* Of places up to a number there is a last one.
LEMMA LastPlace ==
    ASSUME NEW n \in Nat, NEW places \in SUBSET (1..n), places # {}
    PROVE  \E i \in places : \A j \in places : j <= i
<1> DEFINE T == {n - i : i \in places}
           R == OpToRel(<, Nat)
<1>1. T \subseteq Nat /\ T # {}
  <2>1. \A i \in places : i \in 1..n /\ n - i \in Nat
    OBVIOUS
  <2>2. PICK i \in places : TRUE
    OBVIOUS
  <2>3. n - i \in T
    OBVIOUS
  <2>4. QED
    BY <2>1, <2>3
<1>2. IsWellFoundedOn(R, Nat)
  BY NatLessThanWellFounded
<1>3. PICK m \in T : \A k \in T : ~(<<k, m>> \in R)
  <2> HIDE DEF T, R
  <2>1. QED
    BY <1>1, <1>2, WFMin
<1>4. PICK i \in places : m = n - i
  OBVIOUS
<1>5. ASSUME NEW j \in places PROVE j <= i
  <2>1. n - j \in T /\ ~(<<n - j, m>> \in R)
    BY <1>3
  <2>2. ~(n - j < m)
    BY <1>1, <2>1 DEF OpToRel
  <2>3. i \in Nat /\ j \in Nat
    OBVIOUS
  <2>4. QED
    BY <1>4, <2>2, <2>3
<1>6. QED
  BY <1>5

LEMMA SameStore ==
    /\ Store!Artifact = Kept /\ History!Artifact = Kept
    /\ \A a : Store!Put(a) <=> History!Put(a)
    /\ \A kept, id : Store!Get(kept, id) = History!Get(kept, id)
<1>1. \A a : Store!Put(a) <=> History!Put(a)
  BY DEF Store!Put, Store!Stored, Store!EvictOldest, Store!Without, Store!At,
         History!Put, History!Stored, History!EvictOldest, History!Without, History!At
<1>2. \A kept, id : Store!Get(kept, id) = History!Get(kept, id)
  BY DEF Store!Get, Store!At, History!Get, History!At
<1>3. QED
  BY <1>1, <1>2 DEF Store!Artifact, History!Artifact, Kept

LEMMA ToldNow ==
    ASSUME finished \in Seq(Kept), History!StoreInv, NEW q,
           q.at = Len(finished), q.found = Store!Get(runs, q.wanted)
    PROVE  ToldBy(q, finished)
<1> DEFINE n == Len(finished)
           id == q.wanted
           past == {i \in 1..n : finished[i].id = id}
           others(i) == {finished[j].id : j \in (i + 1)..n} \ {id}
           last == CHOOSE i \in past : \A j \in past : j <= i
<1>1. n \in Nat
  OBVIOUS
<1>2. PICK place : History!Tells(runs, finished, place)
  BY DEF History!StoreInv
<1>3. /\ q.found = <<>> =>
            \A i \in 1..n : finished[i].id = id /\ id \notin History!Later(finished, i) =>
                History!Cardinality(History!Later(finished, i)) >= Capacity
      /\ q.found # <<>> =>
            \E i \in 1..n :
                /\ finished[i].id = id /\ id \notin History!Later(finished, i)
                /\ History!Cardinality(History!Later(finished, i)) < Capacity
                /\ q.found = <<finished[i]>>
  <2>1. q.found = History!Get(runs, id) /\ Capacity \in Nat \ {0}
    BY SameStore, SurfaceAssumption
  <2>2. QED
    BY ONLY <1>2, <2>1, History!GetTells
<1>4. \A S : History!Cardinality(S) = Cardinality(S)
  BY DEF History!Cardinality, Cardinality
<1>5. \A i \in 1..n : id \notin History!Later(finished, i) => History!Later(finished, i) = others(i)
  BY DEF History!Later
<1>6. \A i \in 1..n : id \notin History!Later(finished, i) <=> \A j \in past : j <= i
  BY <1>1 DEF History!Later
<1>7. \A i \in past : (\A j \in past : j <= i) => i = last
  <2>1. \A i, j \in past : i <= j /\ j <= i => i = j
    BY <1>1
  <2>2. ASSUME NEW i \in past, \A j \in past : j <= i PROVE i = last
    <3>1. last \in past /\ \A j \in past : j <= last
      BY <2>2
    <3>2. QED
      BY <2>1, <2>2, <3>1
  <2>3. QED
    BY <2>2
<1>8. past # {} => last \in past /\ \A j \in past : j <= last
  <2>1. past \in SUBSET (1..n)
    OBVIOUS
  <2> HIDE DEF past
  <2>2. past # {} => \E i \in past : \A j \in past : j <= i
    BY <1>1, <2>1, LastPlace
  <2>3. QED
    BY <2>2
<1> HIDE DEF last
<1>9. CASE past # {} /\ Cardinality(others(last)) < Capacity
  <2>1. last \in 1..n /\ finished[last].id = id /\ id \notin History!Later(finished, last)
    BY <1>6, <1>8, <1>9
  <2>2. ~(Cardinality(others(last)) >= Capacity)
    <3>1. IsFiniteSet(others(last))
      <4>1. History!IsFiniteSet(History!Later(finished, last))
        <5>1. finished \in Seq(History!Artifact)
          BY SameStore
        <5>2. QED
          BY <2>1, <5>1, History!LaterFinite
      <4>2. QED
        BY <1>5, <2>1, <4>1 DEF History!IsFiniteSet, IsFiniteSet
    <3>2. Cardinality(others(last)) \in Nat
      BY <3>1, FS_CardinalityType
    <3>3. QED
      BY <1>9, <3>2, SurfaceAssumption
  <2>3. q.found # <<>>
    BY <1>3, <1>4, <1>5, <2>1, <2>2
  <2>4. PICK i \in 1..n : /\ finished[i].id = id /\ id \notin History!Later(finished, i)
                          /\ q.found = <<finished[i]>>
    BY <1>3, <2>3
  <2>5. i = last
    BY <1>6, <1>7, <2>4
  <2>6. q.found = <<finished[last]>>
    BY <2>4, <2>5
  <2>7. QED
    BY <1>9, <2>6 DEF ToldBy, last
<1>10. CASE ~(past # {} /\ Cardinality(others(last)) < Capacity)
  <2>1. SUFFICES ASSUME q.found # <<>> PROVE FALSE
    BY <1>10 DEF ToldBy, last
  <2>2. PICK i \in 1..n : /\ finished[i].id = id /\ id \notin History!Later(finished, i)
                          /\ Cardinality(History!Later(finished, i)) < Capacity
    BY <1>3, <1>4, <2>1
  <2>3. i = last /\ i \in past
    BY <1>6, <1>7, <2>2
  <2>4. Cardinality(others(last)) < Capacity
    BY <1>5, <2>2, <2>3
  <2>5. QED
    BY <1>10, <2>3, <2>4
<1>11. QED
  BY <1>9, <1>10

\* A history that goes on says the same of what was fetched.
LEMMA ToldStill ==
    ASSUME finished \in Seq(Kept), NEW q, q.at \in Nat, q.at <= Len(finished), ToldBy(q, finished),
           NEW a \in Kept
    PROVE  ToldBy(q, Append(finished, a))
<1> DEFINE now == Append(finished, a)
<1>1. \A i \in 1..q.at : now[i] = finished[i]
  OBVIOUS
<1> HIDE DEF now
<1> DEFINE past(h) == {i \in 1..q.at : h[i].id = q.wanted}
           others(h, i) == {h[j].id : j \in (i + 1)..q.at} \ {q.wanted}
           last(h) == CHOOSE i \in past(h) : \A j \in past(h) : j <= i
<1>2. past(now) = past(finished)
  BY <1>1
<1>3. last(now) = last(finished)
  BY <1>2
<1>4. past(now) # {} => \E i \in past(now) : \A j \in past(now) : j <= i
  <2>1. past(now) \in SUBSET (1..q.at)
    OBVIOUS
  <2> HIDE DEF past
  <2>2. QED
    BY <2>1, LastPlace
<1>5. past(now) # {} => last(now) \in 1..q.at
  BY <1>4
<1>6. past(now) # {} =>
         now[last(now)] = finished[last(finished)] /\ others(now, last(now)) = others(finished, last(finished))
  <2> HIDE DEF last
  <2>1. ASSUME NEW i \in 1..q.at PROVE others(now, i) = others(finished, i)
    <3>1. \A j \in (i + 1)..q.at : now[j] = finished[j]
      BY <1>1
    <3>2. QED
      BY <3>1
  <2>2. QED
    BY <1>1, <1>3, <1>5, <2>1
<1>7. IF past(finished) # {} /\ Cardinality(others(finished, last(finished))) < Capacity
        THEN q.found = <<finished[last(finished)]>> ELSE q.found = <<>>
  BY DEF ToldBy
<1> SUFFICES IF past(now) # {} /\ Cardinality(others(now, last(now))) < Capacity
               THEN q.found = <<now[last(now)]>> ELSE q.found = <<>>
  BY DEF ToldBy, now
<1> HIDE DEF past, others, last
<1>8. QED
  BY <1>2, <1>6, <1>7

-----------------------------------------------------------------------------
(* What every step keeps.                                                  *)

LEMMA EveryStepGoesOn ==
    ASSUME Inv, NEW r \in Requests, Step(r)
    PROVE  \E q : Turns(r, q) /\ GoesOn(r, q)
<1>1. Types /\ Stories /\ History!StoreInv
  BY DEF Inv
<1>2. CASE Arrive(r)
  BY <1>1, <1>2, ArriveGoesOn
<1>3. CASE Perform(r) \/ Count(r)
  BY <1>1, <1>3, PerformGoesOn, CountGoesOn
<1>4. CASE Fetch(r) \/ Render(r)
  BY <1>1, <1>4, FetchGoesOn, RenderGoesOn
<1>5. CASE Open(r) \/ Answer(r)
  BY <1>1, <1>5, OpenGoesOn, AnswerGoesOn
<1>6. QED
  BY <1>2, <1>3, <1>4, <1>5 DEF Step

LEMMA Appending ==
    ASSUME NEW S, NEW s \in Seq(S), NEW e \in S
    PROVE  /\ Append(s, e) \in Seq(S) /\ Len(Append(s, e)) = Len(s) + 1
           /\ \A i \in 1..Len(s) : Append(s, e)[i] = s[i]
           /\ Append(s, e)[Len(s) + 1] = e
           /\ \A i \in 1..(Len(s) + 1) : i \in 1..Len(s) \/ i = Len(s) + 1
  OBVIOUS

LEMMA BagGrows ==
    ASSUME NEW bag, IsABag(bag), NEW e
    PROVE  /\ IsABag(bag (+) SetToBag({e}))
           /\ DOMAIN (bag (+) SetToBag({e})) = DOMAIN bag \cup {e}
  BY DEF IsABag, SetToBag, (+)

LEMMA OwnersAreRequests ==
    ASSUME finished \in Seq(Kept)
    PROVE  \A i \in 1..Len(finished) : finished[i].owner \in Requests
<1>1. \A i \in 1..Len(finished) : finished[i] \in Kept
  BY ElementOfSeq
<1>2. QED
  BY <1>1 DEF Kept

\* What a step does to the counters.
LEMMA CountersMove ==
    ASSUME NEW r \in Requests, Step(r)
    PROVE  /\ served' = served \/ \E l : served' = served (+) SetToBag({l})
           /\ \/ ended' = ended
              \/ Count(r) /\ ended' = ended (+) SetToBag({req[r].end})
           /\ started' = started \/ started' = Append(started, r)
<1>1. CASE Arrive(r)
  BY <1>1 DEF Arrive, counters
<1>2. CASE Perform(r)
  BY <1>2 DEF Perform, counters
<1>3. CASE Count(r)
  BY <1>3 DEF Count
<1>4. CASE Fetch(r) \/ Render(r)
  BY <1>4 DEF Fetch, Render, counters
<1>5. ASSUME NEW status, CountResponse(r, status)
      PROVE  served' = served \/ \E l : served' = served (+) SetToBag({l})
  BY <1>5 DEF CountResponse
<1>6. CASE Open(r)
  BY <1>5, <1>6 DEF Open
<1>7. CASE Answer(r)
  BY <1>5, <1>7 DEF Answer
<1>8. QED
  BY <1>1, <1>2, <1>3, <1>4, <1>6, <1>7 DEF Step

\* What a step does to the store.
LEMMA StoreMoves ==
    ASSUME Inv, NEW r \in Requests, Step(r)
    PROVE  \/ UNCHANGED store
           \/ /\ Perform(r) /\ req[r].id \in Ids
              /\ Store!Put([id |-> req[r].id, owner |-> r])
<1>1. CASE Perform(r)
  <2>1. PICK q : /\ Turns(r, q) /\ GoesOn(r, q) /\ Same(q, req[r])
                 /\ IF q.end \in Finished /\ q.door # "cli"
                       THEN q.pc = "count" /\ Store!Put([id |-> q.id, owner |-> r])
                       ELSE q.pc = "answer" /\ UNCHANGED store
    BY <1>1, PerformGoesOn DEF Inv
  <2>2. req[r].id \in Ids
    <3>1. req[r].id = ResolveRequestId(req[r].sent, r) /\ req[r].sent \in CallerIds \cup {NoId}
      BY <1>1 DEF Inv, Types, Stories, Shape, Envelope, Perform
    <3>2. Fresh(r, 1) \in Ids /\ CallerIds \subseteq Ids
      BY DEF Ids
    <3>3. QED
      BY <3>1, <3>2 DEF ResolveRequestId
  <2>3. QED
    BY <1>1, <2>1, <2>2 DEF Same
<1>2. CASE ~Perform(r)
  <2>1. Arrive(r) => UNCHANGED store
    BY DEF Arrive
  <2>2. Count(r) \/ Fetch(r) \/ Render(r) => UNCHANGED store
    BY DEF Count, Fetch, Render
  <2>3. Open(r) \/ Answer(r) => UNCHANGED store
    BY DEF Open, Answer
  <2>4. QED
    BY <1>2, <2>1, <2>2, <2>3 DEF Step
<1>3. QED
  BY <1>1, <1>2

LEMMA TypesKept == Inv /\ [Next]_vars => Types' /\ Stories'
<1> SUFFICES ASSUME Inv, [Next]_vars PROVE Types' /\ Stories'
  OBVIOUS
<1>1. ASSUME NEW r \in Requests, Step(r) PROVE Types' /\ Stories'
  <2>1. PICK q : Turns(r, q) /\ GoesOn(r, q)
    BY <1>1, EveryStepGoesOn
  <2>2. /\ DOMAIN req' = Requests /\ req' = [s \in Requests |-> req'[s]]
        /\ \A s \in Requests : req'[s] \in Shape(req'[s].shown)
        /\ Stories'
    BY <2>1, Turning DEF Inv
  <2>3. finished' \in Seq(Kept)
    <3>1. CASE UNCHANGED store
      BY <3>1 DEF Inv, Types, store
    <3>2. CASE req[r].id \in Ids /\ Store!Put([id |-> req[r].id, owner |-> r])
      BY <3>2 DEF Store!Put, Inv, Types, Kept
    <3>3. QED
      BY <1>1, <3>1, <3>2, StoreMoves
  <2>4. started' \in Seq(Requests)
    <3>1. started' = started \/ started' = Append(started, r)
      BY <1>1, CountersMove
    <3>2. QED
      BY <3>1 DEF Inv, Types
  <2>5. IsABag(served')
    <3>1. served' = served \/ \E l : served' = served (+) SetToBag({l})
      BY <1>1, CountersMove
    <3>2. IsABag(served)
      BY DEF Inv, Types
    <3>3. \A l : IsABag(served (+) SetToBag({l}))
      BY <3>2, BagGrows
    <3>4. QED
      BY ONLY <3>1, <3>2, <3>3
  <2>6. IsABag(ended') /\ DOMAIN ended' \subseteq Finished
    <3>1. ended' = ended \/ (ended' = ended (+) SetToBag({req[r].end}) /\ Count(r))
      BY <1>1, CountersMove
    <3>2. Count(r) => req[r].end \in Finished
      BY DEF Count, Inv, Stories, Course
    <3>3. IsABag(ended) /\ DOMAIN ended \subseteq Finished
      BY DEF Inv, Types
    <3>4. \A l : /\ IsABag(ended (+) SetToBag({l}))
                 /\ DOMAIN (ended (+) SetToBag({l})) = DOMAIN ended \cup {l}
      BY <3>3, BagGrows
    <3>5. QED
      BY ONLY <3>1, <3>2, <3>3, <3>4
  <2>7. address' \in {"unset", "invalid", "set"}
    BY <2>1 DEF Turns, Inv, Types
  <2>8. QED
    BY <2>2, <2>3, <2>4, <2>5, <2>6, <2>7 DEF Types
<1>2. CASE UNCHANGED vars
  <2>1. UNCHANGED <<address, req, finished, started, served, ended>>
    BY <1>2 DEF vars, store, counters
  <2>2. QED
    BY <2>1 DEF Inv, Types, Stories, Course, Envelope
<1>3. QED
  BY <1>1, <1>2 DEF Next

LEMMA StoreInvKept == Inv /\ [Next]_vars => History!StoreInv'
<1> SUFFICES ASSUME Inv, [Next]_vars PROVE History!StoreInv'
  OBVIOUS
<1>1. History!StoreInv
  BY DEF Inv
<1>2. ASSUME UNCHANGED store PROVE History!StoreInv'
  BY <1>1, <1>2 DEF store, History!StoreInv
<1>3. ASSUME NEW r \in Requests, req[r].id \in Ids, Store!Put([id |-> req[r].id, owner |-> r])
      PROVE  History!StoreInv'
  <2>1. [id |-> req[r].id, owner |-> r] \in History!Artifact
    BY <1>3, SameStore DEF Kept
  <2>2. History!Put([id |-> req[r].id, owner |-> r])
    BY <1>3, SameStore
  <2>3. Capacity \in Nat \ {0}
    BY SurfaceAssumption
  <2>4. QED
    BY ONLY <1>1, <2>1, <2>2, <2>3, History!StoreInvPut
<1>4. UNCHANGED vars => UNCHANGED store
  BY DEF vars
<1>5. QED
  BY <1>2, <1>3, <1>4, StoreMoves DEF Next

\* A step that stores nothing leaves what is stored.
LEMMA StoredStays ==
    ASSUME Inv, NEW r \in Requests, finished' = finished,
           \A s \in Requests : s # r => req'[s] = req[s],
           \/ req'[r].door = req[r].door /\ req'[r].id = req[r].id /\ req'[r].end = req[r].end
           \/ /\ ~(req[r].end \in Finished /\ req[r].door # "cli")
              /\ ~(req'[r].end \in Finished /\ req'[r].door # "cli")
    PROVE  StoredOnce'
<1> DEFINE held(q) == q.end \in Finished /\ q.door # "cli"
<1>1. \A s \in Requests : held(req'[s]) <=> held(req[s])
  OBVIOUS
<1>2. \A s \in Requests : held(req[s]) => req'[s].id = req[s].id
  OBVIOUS
<1>3. \A i \in 1..Len(finished) : finished[i].owner \in Requests
  BY OwnersAreRequests DEF Inv, Types
<1> HIDE DEF held
<1>4. /\ \A i \in 1..Len(finished) :
            held(req[finished[i].owner]) /\ req[finished[i].owner].id = finished[i].id
      /\ \A i, j \in 1..Len(finished) : finished[i].owner = finished[j].owner => i = j
      /\ \A s \in Requests : held(req[s]) => \E i \in 1..Len(finished) : finished[i].owner = s
  BY DEF Inv, StoredOnce, held
<1>5. /\ \A i \in 1..Len(finished) :
            held(req'[finished[i].owner]) /\ req'[finished[i].owner].id = finished[i].id
      /\ \A s \in Requests : held(req'[s]) => \E i \in 1..Len(finished) : finished[i].owner = s
  BY <1>1, <1>2, <1>3, <1>4
<1>6. QED
  BY <1>4, <1>5 DEF StoredOnce, held

LEMMA StoredOnceKept == Inv /\ [Next]_vars => StoredOnce'
<1> SUFFICES ASSUME Inv, [Next]_vars PROVE StoredOnce'
  OBVIOUS
<1>1. Types /\ Stories /\ History!StoreInv
  BY DEF Inv
<1>2. ASSUME NEW r \in Requests, Arrive(r) PROVE StoredOnce'
  <2>1. PICK q : Turns(r, q) /\ GoesOn(r, q) /\ q.end \notin Finished
    BY <1>1, <1>2, ArriveGoesOn
  <2>2. req[r].end \notin Finished
    BY <1>1, <1>2 DEF Arrive, Stories, Course, Finished
  <2>3. QED
    BY <1>1, <1>2, <2>1, <2>2, Turning, StoredStays DEF Arrive, store
<1>3. ASSUME NEW r \in Requests, Count(r) \/ Answer(r) PROVE StoredOnce'
  <2>1. PICK q : Turns(r, q) /\ GoesOn(r, q) /\ Same(q, req[r]) /\ q.end = req[r].end
    BY <1>1, <1>3, CountGoesOn, AnswerGoesOn
  <2>2. finished' = finished
    BY <1>3 DEF Count, Answer, store
  <2>3. QED
    BY <1>1, <2>1, <2>2, Turning, StoredStays DEF Same
<1>4. ASSUME NEW r \in Requests, Fetch(r) \/ Render(r) \/ Open(r) PROVE StoredOnce'
  <2>1. PICK q : Turns(r, q) /\ GoesOn(r, q) /\ q.end \notin Finished
    BY <1>1, <1>4, FetchGoesOn, RenderGoesOn, OpenGoesOn DEF Finished
  <2>2. req[r].end \notin Finished
    BY <1>1, <1>4 DEF Fetch, Render, Open, Stories, Course, Finished
  <2>3. finished' = finished
    BY <1>4 DEF Fetch, Render, Open, store
  <2>4. QED
    BY <1>1, <2>1, <2>2, <2>3, Turning, StoredStays
<1>5. ASSUME NEW r \in Requests, Perform(r) PROVE StoredOnce'
  <2>1. PICK q : /\ Turns(r, q) /\ GoesOn(r, q) /\ Same(q, req[r])
                 /\ IF q.end \in Finished /\ q.door # "cli"
                       THEN q.pc = "count" /\ Store!Put([id |-> q.id, owner |-> r])
                       ELSE q.pc = "answer" /\ UNCHANGED store
    BY <1>1, <1>5, PerformGoesOn
  <2>2. req[r].end \notin Finished
    BY <1>1, <1>5 DEF Perform, Stories, Course, Finished
  <2>3. req'[r] = q /\ \A s \in Requests : s # r => req'[s] = req[s]
    BY <1>1, <2>1, Turning
  <2>4. CASE ~(q.end \in Finished /\ q.door # "cli")
    BY <2>1, <2>2, <2>3, <2>4, StoredStays DEF store
  <2>5. CASE q.end \in Finished /\ q.door # "cli"
    <3> DEFINE n == Len(finished)
               a == [id |-> q.id, owner |-> r]
               held(p) == p.end \in Finished /\ p.door # "cli"
    <3>1. finished' = Append(finished, a) /\ a.id = q.id /\ a.owner = r
      BY <2>1, <2>5 DEF Store!Put
    <3> HIDE DEF a
    <3>2. n \in Nat /\ Len(finished') = n + 1 /\ finished'[n + 1] = a
          /\ \A i \in 1..n : finished'[i] = finished[i]
      BY <1>1, <3>1 DEF Types
    <3>3. \A i \in 1..n : finished[i].owner \in Requests
      BY <1>1, OwnersAreRequests DEF Types
    <3>4. /\ \A i \in 1..n : held(req[finished[i].owner]) /\ req[finished[i].owner].id = finished[i].id
          /\ \A i, j \in 1..n : finished[i].owner = finished[j].owner => i = j
          /\ \A s \in Requests : held(req[s]) => \E i \in 1..n : finished[i].owner = s
      BY DEF Inv, StoredOnce
    <3>5. \A i \in 1..n : finished[i].owner # r
      BY <2>2, <3>4
    <3>6. held(q) /\ ~held(req[r])
      BY <2>2, <2>5
    <3> HIDE DEF held, n
    <3>7. \A i \in 1..(n + 1) : i \in 1..n \/ i = n + 1
      BY <3>2
    <3>8. \A i \in 1..(n + 1) :
             held(req'[finished'[i].owner]) /\ req'[finished'[i].owner].id = finished'[i].id
      BY <2>3, <3>1, <3>2, <3>3, <3>4, <3>5, <3>6, <3>7
    <3>9. \A i, j \in 1..(n + 1) : finished'[i].owner = finished'[j].owner => i = j
      BY <3>1, <3>2, <3>4, <3>5, <3>7
    <3>10. ASSUME NEW s \in Requests, held(req'[s])
           PROVE  \E i \in 1..(n + 1) : finished'[i].owner = s
      <4>1. CASE s = r
        BY <3>1, <3>2, <4>1
      <4>2. CASE s # r
        <5>1. PICK i \in 1..n : finished[i].owner = s
          BY <2>3, <3>4, <3>10, <4>2
        <5>2. i \in 1..(n + 1) /\ finished'[i].owner = s
          BY <3>2, <5>1
        <5>3. QED
          BY <5>2
      <4>3. QED
        BY <4>1, <4>2
    <3>11. QED
      BY <3>2, <3>8, <3>9, <3>10 DEF StoredOnce, held
  <2>6. QED
    BY <2>4, <2>5
<1>6. CASE UNCHANGED vars
  BY <1>6 DEF vars, store, Inv, StoredOnce
<1>7. QED
  BY <1>2, <1>3, <1>4, <1>5, <1>6 DEF Next, Step

\* A fetch that was answered stays true; another stage of a request fetches nothing.
FetchedRight(q, history) ==
    q.door \in FetchDoors /\ q.pc \in {"answer", "answered"} => ToldBy(q, history)

LEMMA FetchesKept == Inv /\ [Next]_vars => Read' /\ FetchTellsHistory'
<1> SUFFICES ASSUME Inv, [Next]_vars PROVE Read' /\ FetchTellsHistory'
  OBVIOUS
<1>1. /\ Types /\ Stories /\ History!StoreInv /\ finished \in Seq(Kept) /\ Len(finished) \in Nat
      /\ \A s \in Requests : req[s].at \in Nat /\ req[s].at <= Len(finished)
  <2>1. Types /\ Stories /\ History!StoreInv /\ finished \in Seq(Kept) /\ Read
    BY DEF Inv, Types
  <2>2. \A s \in Requests : req[s].at \in Nat
    BY <2>1 DEF Types, Shape
  <2>3. QED
    BY <2>1, <2>2 DEF Read
<1>2. \A s \in Requests : FetchedRight(req[s], finished)
  BY DEF Inv, FetchTellsHistory, FetchedRight, ToldBy
<1>3. SUFFICES \A s \in Requests : req'[s].at <= Len(finished') /\ FetchedRight(req'[s], finished')
  BY DEF Read, FetchTellsHistory, FetchedRight, ToldBy
<1>4. \/ finished' = finished
      \/ \E a \in Kept : finished' = Append(finished, a)
  <2>1. ASSUME NEW r \in Requests, req[r].id \in Ids, Store!Put([id |-> req[r].id, owner |-> r])
        PROVE  \E a \in Kept : finished' = Append(finished, a)
    BY <2>1 DEF Store!Put, Kept
  <2>2. UNCHANGED vars \/ UNCHANGED store => finished' = finished
    BY DEF vars, store
  <2>3. QED
    BY <2>1, <2>2, StoreMoves DEF Next
<1>5. Len(finished') >= Len(finished)
  BY <1>1, <1>4
<1>6. ASSUME NEW q, q.at \in Nat, q.at <= Len(finished), FetchedRight(q, finished)
      PROVE  q.at <= Len(finished') /\ FetchedRight(q, finished')
  <2>1. q.at <= Len(finished')
    BY <1>1, <1>4, <1>6
  <2>2. ASSUME ToldBy(q, finished) PROVE ToldBy(q, finished')
    <3>1. ASSUME NEW a \in Kept PROVE ToldBy(q, Append(finished, a))
      BY <1>1, <1>6, <2>2, <3>1, ToldStill
    <3>2. QED
      BY <1>4, <2>2, <3>1
  <2>3. QED
    BY <1>6, <2>1, <2>2 DEF FetchedRight
<1>7. ASSUME NEW r \in Requests, NEW q, Turns(r, q), GoesOn(r, q),
             q.at <= Len(finished') /\ FetchedRight(q, finished')
      PROVE  \A s \in Requests : req'[s].at <= Len(finished') /\ FetchedRight(req'[s], finished')
  <2>1. req'[r] = q /\ \A s \in Requests : s # r => req'[s] = req[s]
    BY <1>1, <1>7, Turning
  <2>2. QED
    BY <1>1, <1>2, <1>6, <1>7, <2>1
<1>8. ASSUME NEW r \in Requests, Arrive(r)
      PROVE  \A s \in Requests : req'[s].at <= Len(finished') /\ FetchedRight(req'[s], finished')
  <2>1. PICK q : Turns(r, q) /\ GoesOn(r, q) /\ q.found = <<>> /\ q.at = 0
    BY <1>1, <1>8, ArriveGoesOn
  <2>2. FetchedRight(q, finished')
    BY <2>1 DEF FetchedRight, ToldBy
  <2>3. q.at <= Len(finished')
    BY <1>1, <1>5, <1>4, <2>1
  <2>4. QED
    BY <1>7, <2>1, <2>2, <2>3
<1>9. ASSUME NEW r \in Requests, Fetch(r)
      PROVE  \A s \in Requests : req'[s].at <= Len(finished') /\ FetchedRight(req'[s], finished')
  <2>1. PICK q : /\ Turns(r, q) /\ GoesOn(r, q)
                 /\ q.found = Store!Get(runs, q.wanted) /\ q.at = Len(finished)
    BY <1>1, <1>9, FetchGoesOn
  <2>2. ToldBy(q, finished)
    BY <1>1, <2>1, ToldNow
  <2>3. finished' = finished
    BY <1>9 DEF Fetch, store
  <2>4. QED
    BY <1>1, <1>7, <2>1, <2>2, <2>3 DEF FetchedRight
<1>10. ASSUME NEW r \in Requests, Perform(r) \/ Count(r) \/ Render(r) \/ Open(r)
       PROVE  \A s \in Requests : req'[s].at <= Len(finished') /\ FetchedRight(req'[s], finished')
  <2>1. req[r].pc \in {"run", "count", "render", "open"}
    BY <1>10 DEF Perform, Count, Render, Open
  <2>2. req[r].door \notin FetchDoors
    BY <1>1, <2>1 DEF Stories, Course, RunDoors, FetchDoors, Finished
  <2>3. PICK q : Turns(r, q) /\ GoesOn(r, q) /\ q.door \notin FetchDoors /\ q.at = req[r].at
    <3>1. ASSUME NEW q, Same(q, req[r]) PROVE q.door \notin FetchDoors /\ q.at = req[r].at
      BY <2>2, <3>1 DEF Same
    <3>2. CASE Perform(r)
      <4>1. \E q : Turns(r, q) /\ GoesOn(r, q) /\ Same(q, req[r])
        BY <1>1, <3>2, PerformGoesOn
      <4>2. QED
        BY <3>1, <4>1
    <3>3. CASE Count(r)
      <4>1. \E q : Turns(r, q) /\ GoesOn(r, q) /\ Same(q, req[r])
        BY <1>1, <3>3, CountGoesOn
      <4>2. QED
        BY <3>1, <4>1
    <3>4. CASE Open(r)
      <4>1. \E q : Turns(r, q) /\ GoesOn(r, q) /\ Same(q, req[r])
        BY <1>1, <3>4, OpenGoesOn
      <4>2. QED
        BY <3>1, <4>1
    <3>5. CASE Render(r)
      BY <1>1, <3>5, RenderGoesOn DEF FetchDoors
    <3>6. QED
      BY <1>10, <3>2, <3>3, <3>4, <3>5
  <2>4. q.at <= Len(finished') /\ FetchedRight(q, finished')
    BY <1>1, <1>4, <2>3 DEF FetchedRight
  <2>5. QED
    BY <1>7, <2>3, <2>4
<1>11. ASSUME NEW r \in Requests, Answer(r)
       PROVE  \A s \in Requests : req'[s].at <= Len(finished') /\ FetchedRight(req'[s], finished')
  <2>1. PICK q : Turns(r, q) /\ GoesOn(r, q) /\ Same(q, req[r])
    BY <1>1, <1>11, AnswerGoesOn
  <2>2. finished' = finished /\ req[r].pc = "answer"
    BY <1>11 DEF Answer, store
  <2>3. ToldBy(req[r], finished) => ToldBy(q, finished)
    BY <2>1 DEF Same, ToldBy
  <2>4. FetchedRight(q, finished)
    BY <1>2, <2>1, <2>2, <2>3 DEF FetchedRight, Same
  <2>5. QED
    BY <1>1, <1>7, <2>1, <2>2, <2>4 DEF Same
<1>12. CASE UNCHANGED vars
  BY <1>1, <1>2, <1>12 DEF vars, store
<1>13. QED
  BY <1>8, <1>9, <1>10, <1>11, <1>12 DEF Next, Step

LEMMA InvAlways == Spec => []Inv
<1>1. Inv /\ [Next]_vars => Inv'
  BY TypesKept, StoreInvKept, StoredOnceKept, FetchesKept DEF Inv
<1>2. QED
  BY <1>1, Initially, PTL DEF Spec

-----------------------------------------------------------------------------
(* The counters: what they count is told by the stories of the requests.   *)

\* A tally of requests, as a table of them has it.
LabelIn(table, r) == <<Label(table[r].door), table[r].answer.status>>
CountedIn(requests, table) == {i \in 1..Len(requests) : ~Escapes(table[requests[i]])}
TallyIn(requests, table) ==
    [l \in {LabelIn(table, requests[i]) : i \in CountedIn(requests, table)} |->
        Cardinality({i \in CountedIn(requests, table) : LabelIn(table, requests[i]) = l})]

LEMMA TallyIsIn == \A requests : Tally(requests) = TallyIn(requests, req)
  BY DEF Tally, TallyIn, LabelIn, CountedIn, Counted

\* A tally depends on what was started, as it was answered.
LEMMA TallySame ==
    ASSUME NEW requests, NEW table, NEW other,
           \A i \in 1..Len(requests) :
              /\ other[requests[i]].door = table[requests[i]].door
              /\ other[requests[i]].answer.status = table[requests[i]].answer.status
              /\ Escapes(other[requests[i]]) <=> Escapes(table[requests[i]])
    PROVE  TallyIn(requests, other) = TallyIn(requests, table)
<1>1. CountedIn(requests, other) = CountedIn(requests, table)
  BY DEF CountedIn
<1>2. \A i \in CountedIn(requests, table) :
         LabelIn(other, requests[i]) = LabelIn(table, requests[i])
  BY DEF CountedIn, LabelIn
<1> DEFINE labels == {LabelIn(table, requests[i]) : i \in CountedIn(requests, table)}
<1>3. labels = {LabelIn(other, requests[i]) : i \in CountedIn(requests, other)}
  BY <1>1, <1>2
<1>4. \A l : {i \in CountedIn(requests, other) : LabelIn(other, requests[i]) = l}
              = {i \in CountedIn(requests, table) : LabelIn(table, requests[i]) = l}
  BY <1>1, <1>2
<1>5. QED
  BY <1>3, <1>4 DEF TallyIn

LEMMA TallyGrows ==
    ASSUME NEW requests \in Seq(Requests), NEW r \in Requests, NEW table
    PROVE  TallyIn(Append(requests, r), table) =
               IF Escapes(table[r]) THEN TallyIn(requests, table)
               ELSE TallyIn(requests, table) (+) SetToBag({LabelIn(table, r)})
<1> DEFINE n == Len(requests)
           now == Append(requests, r)
           counted == CountedIn(requests, table)
           label(s) == LabelIn(table, s)
           under(l) == {i \in counted : label(requests[i]) = l}
<1>1. /\ n \in Nat /\ Len(now) = n + 1 /\ now[n + 1] = r
      /\ \A i \in 1..n : now[i] = requests[i]
      /\ \A i \in 1..(n + 1) : i \in 1..n \/ i = n + 1
  OBVIOUS
<1> HIDE DEF now
<1>2. CASE Escapes(table[r])
  <2>1. CountedIn(now, table) = counted
    BY <1>1, <1>2 DEF CountedIn
  <2>2. \A i \in counted : now[i] = requests[i]
    BY <1>1 DEF CountedIn
  <2>3. {label(now[i]) : i \in counted} = {label(requests[i]) : i \in counted}
    BY <2>2
  <2>4. \A l : {i \in counted : label(now[i]) = l} = under(l)
    BY <2>2
  <2> HIDE DEF counted
  <2>5. TallyIn(now, table) = TallyIn(requests, table)
    BY <2>1, <2>3, <2>4 DEF TallyIn, counted
  <2>6. QED
    BY <1>2, <2>5 DEF now
<1>3. CASE ~Escapes(table[r])
  <2>1. CountedIn(now, table) = counted \cup {n + 1} /\ n + 1 \notin counted
    BY <1>1, <1>3 DEF CountedIn
  <2>2. \A i \in counted : now[i] = requests[i]
    BY <1>1 DEF CountedIn
  <2>3. \A l : IsFiniteSet(under(l)) /\ Cardinality(under(l)) \in Nat
    <3>1. IsFiniteSet(1..n)
      <4>1. 1 \in Int /\ n \in Int
        BY <1>1
      <4>2. QED
        BY ONLY <4>1, FS_Interval
    <3>2. \A l : under(l) \subseteq 1..n
      BY DEF CountedIn
    <3>3. QED
      BY <3>1, <3>2, FS_Subset, FS_CardinalityType
  <2>4. \A l : n + 1 \notin under(l)
    BY <2>1
  <2> DEFINE labels == {label(requests[i]) : i \in counted}
             after == {i \in counted \cup {n + 1} : label(now[i]) = label(r)}
  <2>5. {label(now[i]) : i \in counted \cup {n + 1}} = labels \cup {label(r)}
    BY <1>1, <2>2
  <2>6. after = under(label(r)) \cup {n + 1}
    BY <1>1, <2>2
  <2>7. \A l : l # label(r) => {i \in counted \cup {n + 1} : label(now[i]) = l} = under(l)
    BY <1>1, <2>2
  <2>8. label(r) \notin labels => under(label(r)) = {}
    OBVIOUS
  <2> HIDE DEF counted, label, under, labels
  <2>9. Cardinality(after) = Cardinality(under(label(r))) + 1
    BY <2>3, <2>4, <2>6, FS_AddElement
  <2>10. TallyIn(now, table) =
            [l \in labels \cup {label(r)} |-> Cardinality({i \in counted \cup {n + 1} : label(now[i]) = l})]
    BY <2>1, <2>5 DEF TallyIn, label
  <2>11. TallyIn(requests, table) = [l \in labels |-> Cardinality(under(l))]
    BY DEF TallyIn, label, labels, under, counted
  <2>12. TallyIn(requests, table) (+) SetToBag({label(r)}) =
            [l \in labels \cup {label(r)} |->
                (IF l \in labels THEN Cardinality(under(l)) ELSE 0)
                    + (IF l \in {label(r)} THEN 1 ELSE 0)]
    BY <2>11 DEF SetToBag, (+)
  <2>13. ASSUME NEW l \in labels \cup {label(r)}
         PROVE  Cardinality({i \in counted \cup {n + 1} : label(now[i]) = l}) =
                    (IF l \in labels THEN Cardinality(under(l)) ELSE 0)
                        + (IF l \in {label(r)} THEN 1 ELSE 0)
    <3>1. CASE l # label(r)
      <4>1. l \in labels /\ {i \in counted \cup {n + 1} : label(now[i]) = l} = under(l)
        BY <2>7, <2>13, <3>1
      <4>2. Cardinality(under(l)) \in Nat
        BY <2>3
      <4>3. Cardinality(under(l)) + 0 = Cardinality(under(l))
        BY <4>2
      <4>4. QED
        BY <3>1, <4>1, <4>3
    <3>2. CASE l = label(r)
      <4>1. l \notin labels => Cardinality(under(l)) = 0
        BY <2>8, <3>2, FS_EmptySet
      <4>2. QED
        BY <2>3, <2>9, <3>2, <4>1
    <3>3. QED
      BY <3>1, <3>2
  <2>14. TallyIn(now, table) = TallyIn(requests, table) (+) SetToBag({label(r)})
    BY <2>10, <2>12, <2>13
  <2>15. QED
    BY <1>3, <2>14 DEF now, label
<1>4. QED
  BY <1>2, <1>3

\* A response has started.
Begun(q) ==
    /\ q.answer.status # 0 /\ q.door # "cli"
    /\ q.pc = "answered" \/ q.door = "stream"

\* Runs that were stored and counted.
Past(end, table) ==
    {r \in Requests : table[r].end = end /\ table[r].door # "cli" /\ table[r].pc # "count"}

StartedOnce ==
    /\ \A i \in 1..Len(started) : Begun(req[started[i]])
    /\ \A i, j \in 1..Len(started) : started[i] = started[j] => i = j

RunsCounted == \A end \in Finished : Runs(end, ended) = Cardinality(Past(end, req))

PromisesIn(table, r) ==
    table[r].answer.status = 200 /\ table[r].door \in {"research", "trace", "form", "download"}

\* What a scrape shows was so when so many responses had started.
ShownAt(r, shown, requests, table) ==
    \E k \in 0..Len(requests) :
        /\ shown.served = TallyIn(SubSeq(requests, 1, k), table)
        /\ \A i \in 1..k : requests[i] # r
        /\ Cardinality({i \in 1..k : PromisesIn(table, requests[i])}) <= AllRuns(shown.ended)

Scraped ==
    \A r \in Requests : req[r].door = "metrics" /\ req[r].pc \in {"answer", "answered"} =>
        ShownAt(r, req[r].shown, started, req)

CountsInv == StartedOnce /\ served = TallyIn(started, req) /\ RunsCounted /\ Scraped

LEMMA CountsInitially == Init => CountsInv
<1> SUFFICES ASSUME Init PROVE CountsInv
  OBVIOUS
<1>1. started = <<>> /\ served = EmptyBag /\ ended = EmptyBag /\ req = [r \in Requests |-> New]
  BY DEF Init
<1>2. StartedOnce
  BY <1>1 DEF StartedOnce
<1>3. served = TallyIn(started, req)
  <2>1. CountedIn(<<>>, req) = {}
    BY DEF CountedIn
  <2>2. QED
    BY <1>1, <2>1 DEF TallyIn, EmptyBag, SetToBag
<1>4. RunsCounted
  <2>1. \A end \in Finished : Past(end, req) = {}
    BY <1>1 DEF Past, New, Finished
  <2>2. \A end \in Finished : Runs(end, ended) = 0
    BY <1>1 DEF Runs, BagIn, BagToSet, EmptyBag, SetToBag
  <2>3. QED
    BY <2>1, <2>2, FS_EmptySet DEF RunsCounted
<1>5. Scraped
  BY <1>1 DEF Scraped, New
<1>6. QED
  BY <1>2, <1>3, <1>4, <1>5 DEF CountsInv

\* How a step begins a response and counts it.
LEMMA Begins ==
    ASSUME Inv, NEW r \in Requests, Step(r)
    PROVE  /\ Begun(req[r]) =>
                 /\ Begun(req'[r]) /\ req[r].door = "stream" /\ req'[r].door = "stream"
                 /\ req'[r].answer.status = req[r].answer.status
           /\ \/ started' = started /\ served' = served
              \/ /\ ~Begun(req[r]) /\ Begun(req'[r]) /\ started' = Append(started, r)
                 /\ served' = IF Escapes(req'[r]) THEN served
                              ELSE served (+) SetToBag({LabelIn(req', r)})
<1>1. /\ Types /\ Stories /\ History!StoreInv
      /\ req[r] \in Shape(req[r].shown) /\ Course(req[r]) /\ Envelope(r, req[r])
  BY DEF Inv, Types, Stories
<1>2. CASE Arrive(r)
  <2>1. UNCHANGED <<started, served>> /\ req[r].pc = "new"
    BY <1>2 DEF Arrive, counters
  <2>2. ~Begun(req[r])
    BY <1>1, <2>1 DEF Begun, Envelope, New, NoAnswer
  <2>3. QED
    BY <2>1, <2>2
<1>3. CASE Fetch(r) \/ Render(r)
  <2>1. UNCHANGED <<started, served>>
    <3>1. Fetch(r) => UNCHANGED <<started, served>>
      BY DEF Fetch, counters
    <3>2. Render(r) => UNCHANGED <<started, served>>
      BY DEF Render, counters
    <3>3. QED
      BY <1>3, <3>1, <3>2
  <2>2. req[r].pc \in {"fetch", "render"}
    BY <1>3 DEF Fetch, Render
  <2>3. ~Begun(req[r])
    BY <1>1, <2>2 DEF Begun, Envelope
  <2>4. QED
    BY <2>1, <2>3
<1>4. CASE Perform(r) \/ Count(r)
  <2>1. UNCHANGED <<started, served>> /\ req[r].pc \in {"run", "count"}
    <3>1. Perform(r) => UNCHANGED <<started, served>> /\ req[r].pc = "run"
      BY DEF Perform, counters
    <3>2. Count(r) => UNCHANGED <<started, served>> /\ req[r].pc = "count"
      BY DEF Count
    <3>3. QED
      BY <1>4, <3>1, <3>2
  <2>2. /\ req'[r].door = req[r].door /\ req'[r].answer = req[r].answer
        /\ req'[r].pc # "answered"
    <3>1. CASE Perform(r)
      <4>1. PICK q : /\ Turns(r, q) /\ GoesOn(r, q) /\ Same(q, req[r]) /\ q.answer = req[r].answer
                     /\ q.pc \in {"count", "answer"}
        BY <1>1, <3>1, PerformGoesOn
      <4>2. req'[r] = q
        BY <1>1, <4>1, Turning
      <4>3. QED
        BY <4>1, <4>2 DEF Same
    <3>2. CASE Count(r)
      <4>1. PICK q : /\ Turns(r, q) /\ GoesOn(r, q) /\ Same(q, req[r])
                     /\ q.pc = "answer" /\ q.answer = req[r].answer
        BY <1>1, <3>2, CountGoesOn
      <4>2. req'[r] = q
        BY <1>1, <4>1, Turning
      <4>3. QED
        BY <4>1, <4>2 DEF Same
    <3>3. QED
      BY <1>4, <3>1, <3>2
  <2>3. Begun(req[r]) => Begun(req'[r]) /\ req[r].door = "stream"
    BY <2>1, <2>2 DEF Begun
  <2>4. QED
    BY <2>1, <2>2, <2>3
<1>5. CASE Open(r)
  <2>1. PICK q : /\ Turns(r, q) /\ GoesOn(r, q) /\ Same(q, req[r])
                 /\ q.door = "stream" /\ q.end = "none" /\ q.pc = "run" /\ q.answer.status = 200
    BY <1>1, <1>5, OpenGoesOn
  <2>2. req'[r] = q
    BY <1>1, <2>1, Turning
  <2>3. req[r].answer.status = 0 /\ req[r].door = "stream"
    BY <1>1, <1>5, <2>1 DEF Open, Envelope, Same
  <2>4. started' = Append(started, r) /\ served' = served (+) SetToBag({<<Label("stream"), 200>>})
    BY <1>1, <1>5, <2>3 DEF Open, CountResponse, Escapes
  <2>5. ~Escapes(q) /\ Begun(q) /\ ~Begun(req[r]) /\ LabelIn(req', r) = <<Label("stream"), 200>>
    BY <2>1, <2>2, <2>3 DEF Escapes, Begun, LabelIn
  <2>6. QED
    BY <2>2, <2>4, <2>5
<1>6. CASE Answer(r)
  <2>1. PICK q : /\ Turns(r, q) /\ GoesOn(r, q) /\ Same(q, req[r])
                 /\ q.end = req[r].end /\ q.pc = "answered" /\ q.answer.status = StatusOf(req[r])
    BY <1>1, <1>6, AnswerGoesOn
  <2>2. req'[r] = q /\ q.door = req[r].door
    BY <1>1, <2>1, Turning DEF Same
  <2>3. req[r].pc = "answer" /\ req[r].end \in Ends /\ req[r].end # "none"
    BY <1>1, <1>6 DEF Answer, Shape, Course
  <2>4. CASE req[r].door # "cli" /\ req[r].answer.status = 0
    <3>1. q.answer.status = HttpStatus(Reported(req[r].door, req[r].end)) /\ q.answer.status # 0
      BY <2>1, <2>3, <2>4, Named DEF StatusOf
    <3>2. started' = Append(started, r) /\ CountResponse(r, q.answer.status)
      BY <1>6, <2>4, <3>1 DEF Answer
    <3>3. Escapes(q) <=> Escapes(req[r])
      BY <2>1, <2>2 DEF Escapes
    <3>4. ~Begun(req[r]) /\ Begun(q)
      BY <2>1, <2>2, <2>4, <3>1 DEF Begun
    <3>5. LabelIn(req', r) = <<Label(req[r].door), q.answer.status>>
      BY <2>2 DEF LabelIn
    <3>6. served' = IF Escapes(q) THEN served ELSE served (+) SetToBag({LabelIn(req', r)})
      BY <3>2, <3>3, <3>5 DEF CountResponse
    <3>7. QED
      BY <2>2, <3>2, <3>4, <3>6
  <2>5. CASE ~(req[r].door # "cli" /\ req[r].answer.status = 0)
    <3>1. started' = started /\ served' = served
      BY <1>6, <2>5 DEF Answer
    <3>2. Begun(req[r]) => Begun(q) /\ q.answer.status = req[r].answer.status /\ req[r].door = "stream"
      BY <2>1, <2>2, <2>3 DEF Begun, StatusOf
    <3>3. QED
      BY <2>2, <3>1, <3>2
  <2>6. QED
    BY <2>4, <2>5
<1>7. QED
  BY <1>2, <1>3, <1>4, <1>5, <1>6 DEF Step

\* What has begun reads the same after a step.
LEMMA BegunStays ==
    ASSUME Inv, StartedOnce, NEW r \in Requests, Step(r), NEW i \in 1..Len(started)
    PROVE  LET s == started[i]
           IN  /\ s \in Requests /\ Begun(req'[s])
               /\ req'[s].door = req[s].door /\ req'[s].answer.status = req[s].answer.status
               /\ Escapes(req'[s]) <=> Escapes(req[s])
               /\ PromisesIn(req', s) <=> PromisesIn(req, s)
               /\ s = r => req[r].door = "stream"
<1> DEFINE s == started[i]
<1>1. s \in Requests /\ Begun(req[s])
  BY ElementOfSeq DEF Inv, Types, StartedOnce
<1>2. CASE s = r
  <2>1. /\ Begun(req'[r]) /\ req[r].door = "stream" /\ req'[r].door = "stream"
        /\ req'[r].answer.status = req[r].answer.status
    BY <1>1, <1>2, Begins
  <2>2. ~Escapes(req'[r]) /\ ~Escapes(req[r])
    BY <2>1 DEF Escapes
  <2>3. QED
    BY <1>1, <1>2, <2>1, <2>2 DEF PromisesIn
<1>3. CASE s # r
  <2>1. req'[s] = req[s]
    BY <1>1, <1>3, EveryStepGoesOn, Turning DEF Inv
  <2>2. QED
    BY <1>1, <1>3, <2>1 DEF PromisesIn
<1>4. QED
  BY <1>2, <1>3

LEMMA StartedKept ==
    ASSUME Inv, StartedOnce, served = TallyIn(started, req), NEW r \in Requests, Step(r)
    PROVE  StartedOnce' /\ served' = TallyIn(started', req')
<1> DEFINE n == Len(started)
<1>1. started \in Seq(Requests) /\ n \in Nat
  BY DEF Inv, Types
<1>2. \A i \in 1..n : Begun(req'[started[i]])
  BY BegunStays
<1>3. TallyIn(started, req') = served
  <2>1. \A i \in 1..Len(started) :
           /\ req'[started[i]].door = req[started[i]].door
           /\ req'[started[i]].answer.status = req[started[i]].answer.status
           /\ Escapes(req'[started[i]]) <=> Escapes(req[started[i]])
    BY BegunStays
  <2>2. QED
    BY <2>1, TallySame
<1>4. \A i, j \in 1..n : started[i] = started[j] => i = j
  BY DEF StartedOnce
<1>5. CASE started' = started /\ served' = served
  BY <1>2, <1>3, <1>4, <1>5 DEF StartedOnce
<1>6. CASE /\ ~Begun(req[r]) /\ Begun(req'[r]) /\ started' = Append(started, r)
           /\ served' = IF Escapes(req'[r]) THEN served
                        ELSE served (+) SetToBag({LabelIn(req', r)})
  <2>1. /\ Len(started') = n + 1 /\ started'[n + 1] = r
        /\ \A i \in 1..n : started'[i] = started[i]
        /\ \A i \in 1..(n + 1) : i \in 1..n \/ i = n + 1
    BY <1>1, <1>6
  <2>2. \A i \in 1..n : started[i] # r
    BY <1>6 DEF StartedOnce
  <2>3. TallyIn(started', req') = served'
    <3>1. TallyIn(Append(started, r), req') =
             IF Escapes(req'[r]) THEN TallyIn(started, req')
             ELSE TallyIn(started, req') (+) SetToBag({LabelIn(req', r)})
      BY <1>1, TallyGrows
    <3>2. QED
      BY <1>3, <1>6, <3>1
  <2>4. \A i \in 1..(n + 1) : Begun(req'[started'[i]])
    BY <1>2, <1>6, <2>1
  <2>5. \A i, j \in 1..(n + 1) : started'[i] = started'[j] => i = j
    BY <1>4, <2>1, <2>2
  <2>6. QED
    BY <2>1, <2>3, <2>4, <2>5 DEF StartedOnce
<1>7. QED
  BY <1>5, <1>6, Begins

\* One more run under an end.
LEMMA RunsGrow ==
    ASSUME NEW bag, IsABag(bag), NEW end, NEW other
    PROVE  /\ Runs(other, bag) \in Nat
           /\ Runs(other, bag (+) SetToBag({end})) = Runs(other, bag) + (IF other = end THEN 1 ELSE 0)
<1>1. Runs(other, bag) \in Nat
  BY DEF Runs, BagIn, BagToSet, IsABag
<1>2. /\ DOMAIN (bag (+) SetToBag({end})) = DOMAIN bag \cup {end}
      /\ \A x \in DOMAIN bag \cup {end} :
            (bag (+) SetToBag({end}))[x] =
               (IF x \in DOMAIN bag THEN bag[x] ELSE 0) + (IF x \in {end} THEN 1 ELSE 0)
  BY DEF SetToBag, (+)
<1>3. Runs(other, bag) = IF other \in DOMAIN bag THEN bag[other] ELSE 0
  BY DEF Runs, BagIn, BagToSet
<1>4. Runs(other, bag (+) SetToBag({end})) =
         IF other \in DOMAIN bag \cup {end} THEN (bag (+) SetToBag({end}))[other] ELSE 0
  BY <1>2 DEF Runs, BagIn, BagToSet
<1> DEFINE more == (bag (+) SetToBag({end}))
<1>5. CASE other = end
  <2>1. more[end] = (IF end \in DOMAIN bag THEN bag[end] ELSE 0) + 1
    BY <1>2
  <2>2. Runs(end, more) = more[end]
    BY <1>4, <1>5
  <2>3. QED
    BY <1>1, <1>3, <1>5, <2>1, <2>2
<1>6. CASE other # end
  <2>1. other \in DOMAIN bag => more[other] = bag[other] + 0
    BY <1>2, <1>6
  <2>2. Runs(other, more) = IF other \in DOMAIN bag THEN more[other] ELSE 0
    BY <1>4, <1>6
  <2>3. Runs(other, bag) + 0 = Runs(other, bag)
    BY <1>1
  <2> HIDE DEF more
  <2>4. Runs(other, more) = Runs(other, bag) + 0
    BY <1>3, <2>1, <2>2, <2>3
  <2>5. QED
    BY <1>1, <1>6, <2>4 DEF more
<1>7. QED
  BY <1>5, <1>6

LEMMA PastFinite ==
    \A end, table : IsFiniteSet(Past(end, table)) /\ Cardinality(Past(end, table)) \in Nat
<1>1. \A end, table : Past(end, table) \subseteq Requests
  BY DEF Past
<1>2. QED
  BY <1>1, FS_Subset, FS_CardinalityType, SurfaceAssumption

LEMMA RunsKept ==
    ASSUME Inv, RunsCounted, NEW r \in Requests, Step(r)
    PROVE  RunsCounted'
<1> DEFINE past(q, end) == q.end = end /\ q.door # "cli" /\ q.pc # "count"
<1>1. /\ Types /\ Stories /\ History!StoreInv /\ Course(req[r]) /\ IsABag(ended)
      /\ \A s \in Requests : s # r => req'[s] = req[s]
  <2>1. Types /\ Stories /\ History!StoreInv /\ Course(req[r]) /\ IsABag(ended)
    BY DEF Inv, Types, Stories
  <2>2. QED
    BY <2>1, EveryStepGoesOn, Turning
<1>2. ASSUME ended' = ended, \A end \in Finished : past(req'[r], end) <=> past(req[r], end)
      PROVE  RunsCounted'
  <2>1. \A end \in Finished : Past(end, req') = Past(end, req)
    BY <1>1, <1>2 DEF Past
  <2>2. QED
    BY <1>2, <2>1 DEF RunsCounted
<1>3. CASE Arrive(r) \/ Fetch(r) \/ Render(r) \/ Open(r)
  <2>1. ended' = ended /\ req[r].end \notin Finished
    <3>1. /\ Arrive(r) => ended' = ended /\ req[r].pc = "new"
          /\ Fetch(r) => ended' = ended /\ req[r].pc = "fetch"
          /\ Render(r) => ended' = ended /\ req[r].pc = "render"
      <4>1. Arrive(r) => ended' = ended /\ req[r].pc = "new"
        BY DEF Arrive, counters
      <4>2. Fetch(r) => ended' = ended /\ req[r].pc = "fetch"
        BY DEF Fetch, counters
      <4>3. Render(r) => ended' = ended /\ req[r].pc = "render"
        BY DEF Render, counters
      <4>4. QED
        BY <4>1, <4>2, <4>3
    <3>2. Open(r) => ended' = ended /\ req[r].pc = "open"
      BY DEF Open
    <3>3. req[r].pc \in {"new", "fetch", "render", "open"}
      BY <1>3, <3>1, <3>2
    <3>4. QED
      BY <1>1, <1>3, <3>1, <3>2, <3>3 DEF Course, Finished
  <2>2. req'[r].end \notin Finished
    <3>1. ASSUME NEW q, Turns(r, q), GoesOn(r, q), q.end \notin Finished
          PROVE  req'[r].end \notin Finished
      BY <1>1, <3>1, Turning
    <3>2. CASE Arrive(r)
      BY <1>1, <3>1, <3>2, ArriveGoesOn
    <3>3. CASE Fetch(r)
      BY <1>1, <3>1, <3>3, FetchGoesOn
    <3>4. CASE Render(r)
      <4>1. PICK q : Turns(r, q) /\ GoesOn(r, q) /\ q.end = "served"
        BY <1>1, <3>4, RenderGoesOn
      <4>2. QED
        BY <3>1, <4>1 DEF Finished
    <3>5. CASE Open(r)
      <4>1. PICK q : Turns(r, q) /\ GoesOn(r, q) /\ q.end = "none"
        BY <1>1, <3>5, OpenGoesOn
      <4>2. QED
        BY <3>1, <4>1 DEF Finished
    <3>6. QED
      BY <1>3, <3>2, <3>3, <3>4, <3>5
  <2>3. QED
    BY <1>2, <2>1, <2>2
<1>4. CASE Perform(r)
  <2>1. PICK q : /\ Turns(r, q) /\ GoesOn(r, q)
                 /\ q.end \in Finished /\ q.door # "cli" => q.pc = "count"
    BY <1>1, <1>4, PerformGoesOn
  <2>2. req'[r] = q
    BY <1>1, <2>1, Turning
  <2>3. ended' = ended /\ req[r].end \notin Finished
    BY <1>1, <1>4 DEF Perform, counters, Course, Finished
  <2>4. QED
    BY <1>2, <2>1, <2>2, <2>3
<1>5. CASE Answer(r)
  <2>1. PICK q : /\ Turns(r, q) /\ GoesOn(r, q) /\ Same(q, req[r])
                 /\ q.end = req[r].end /\ q.pc = "answered"
    BY <1>1, <1>5, AnswerGoesOn
  <2>2. req'[r] = q
    BY <1>1, <2>1, Turning
  <2>3. ended' = ended /\ req[r].pc = "answer"
    BY <1>5 DEF Answer
  <2>4. QED
    BY <1>2, <2>1, <2>2, <2>3 DEF Same
<1>6. CASE Count(r)
  <2>1. PICK q : /\ Turns(r, q) /\ GoesOn(r, q) /\ Same(q, req[r])
                 /\ q.end = req[r].end /\ q.pc = "answer"
    BY <1>1, <1>6, CountGoesOn
  <2>2. req'[r] = q
    BY <1>1, <2>1, Turning
  <2>3. /\ req[r].pc = "count" /\ req[r].end \in Finished /\ req[r].door # "cli"
        /\ ended' = ended (+) SetToBag({req[r].end})
    BY <1>1, <1>6 DEF Count, Course
  <2>4. SUFFICES ASSUME NEW end \in Finished PROVE Runs(end, ended') = Cardinality(Past(end, req'))
    BY DEF RunsCounted
  <2>5. /\ Runs(end, ended) = Cardinality(Past(end, req)) /\ Runs(end, ended) \in Nat
        /\ Runs(end, ended') = Runs(end, ended) + (IF end = req[r].end THEN 1 ELSE 0)
    BY <1>1, <2>3, RunsGrow DEF RunsCounted
  <2>6. CASE end = req[r].end
    <3>1. Past(end, req') = Past(end, req) \cup {r} /\ r \notin Past(end, req)
      BY <1>1, <2>1, <2>2, <2>3, <2>6 DEF Past, Same
    <3>2. IsFiniteSet(Past(end, req)) /\ Cardinality(Past(end, req)) \in Nat
      BY PastFinite
    <3>3. Cardinality(Past(end, req')) = Cardinality(Past(end, req)) + 1
      BY <3>1, <3>2, FS_AddElement
    <3>4. QED
      BY <2>5, <2>6, <3>3
  <2>7. CASE end # req[r].end
    <3>1. Past(end, req') = Past(end, req)
      BY <1>1, <2>1, <2>2, <2>3, <2>7 DEF Past
    <3>2. QED
      BY <2>5, <2>7, <3>1
  <2>8. QED
    BY <2>6, <2>7
<1>7. QED
  BY <1>3, <1>4, <1>5, <1>6 DEF Step

\* Places of what is listed once, and what is listed there.
LEMMA PlacesOf ==
    ASSUME NEW places, NEW list, NEW S, IsFiniteSet(S),
           \A i \in places : list[i] \in S,
           \A i, j \in places : list[i] = list[j] => i = j
    PROVE  /\ Cardinality(places) \in Nat /\ Cardinality(places) <= Cardinality(S)
           /\ (\A s \in S : \E i \in places : list[i] = s) => Cardinality(places) = Cardinality(S)
<1> DEFINE f == [i \in places |-> list[i]]
<1>1. f \in Injection(places, S)
  <2>1. f \in [places -> S] /\ \A i, j \in places : f[i] = f[j] => i = j
    OBVIOUS
  <2> HIDE DEF f
  <2>2. QED
    BY <2>1, Fun_IsInj
<1>2. (\A s \in S : \E i \in places : list[i] = s) => f \in Surjection(places, S)
  <2>1. f \in [places -> S] /\ \A i \in places : f[i] = list[i]
    OBVIOUS
  <2> HIDE DEF f
  <2>2. QED
    BY <2>1, Fun_IsSurj
<1> HIDE DEF f
<1>3. QED
  BY <1>1, <1>2, FS_Injection, FS_CardinalityType

\* What a scrape shows stays what was so then.
LEMMA ShownStays ==
    ASSUME Inv, StartedOnce, NEW r \in Requests, Step(r), NEW s, NEW shown,
           ShownAt(s, shown, started, req)
    PROVE  ShownAt(s, shown, started', req')
<1>1. PICK k \in 0..Len(started) :
         /\ shown.served = TallyIn(SubSeq(started, 1, k), req)
         /\ \A i \in 1..k : started[i] # s
         /\ Cardinality({i \in 1..k : PromisesIn(req, started[i])}) <= AllRuns(shown.ended)
  BY DEF ShownAt
<1> DEFINE before == SubSeq(started, 1, k)
<1>2. /\ started \in Seq(Requests) /\ k \in Nat /\ k <= Len(started)
      /\ Len(before) = k /\ \A i \in 1..k : i \in 1..Len(started) /\ before[i] = started[i]
  BY <1>1 DEF Inv, Types
<1>3. /\ k \in 0..Len(started') /\ SubSeq(started', 1, k) = before
      /\ \A i \in 1..k : started'[i] = started[i]
  <2>1. CASE started' = started
    BY <1>1, <2>1
  <2>2. CASE started' = Append(started, r)
    <3>1. /\ started' \in Seq(Requests) /\ Len(started') = Len(started) + 1
          /\ \A i \in 1..Len(started) : started'[i] = started[i]
      BY <1>2, <2>2
    <3>2. \A i \in 1..k : started'[i] = started[i]
      BY <1>2, <3>1
    <3>3. k \in 0..Len(started')
      BY <1>2, <3>1
    <3>4. SubSeq(started', 1, k) = [i \in 1..k |-> started'[i]] /\ before = [i \in 1..k |-> started[i]]
      BY <1>2, <3>1 DEF SubSeq
    <3>5. QED
      BY <3>2, <3>3, <3>4
  <2>3. QED
    BY <2>1, <2>2, CountersMove
<1> HIDE DEF before
<1>4. \A i \in 1..k :
         /\ req'[started[i]].door = req[started[i]].door
         /\ req'[started[i]].answer.status = req[started[i]].answer.status
         /\ Escapes(req'[started[i]]) <=> Escapes(req[started[i]])
         /\ PromisesIn(req', started[i]) <=> PromisesIn(req, started[i])
  BY <1>2, BegunStays
<1>5. TallyIn(before, req') = TallyIn(before, req)
  <2>1. \A i \in 1..Len(before) :
           /\ req'[before[i]].door = req[before[i]].door
           /\ req'[before[i]].answer.status = req[before[i]].answer.status
           /\ Escapes(req'[before[i]]) <=> Escapes(req[before[i]])
    BY <1>2, <1>4
  <2>2. QED
    BY <2>1, TallySame
<1>6. {i \in 1..k : PromisesIn(req', started'[i])} = {i \in 1..k : PromisesIn(req, started[i])}
  BY <1>3, <1>4
<1>7. QED
  BY <1>1, <1>3, <1>5, <1>6 DEF ShownAt, before

\* What is promised was stored and counted before.
LEMMA PromisedIsPast ==
    ASSUME Inv, StartedOnce, NEW i \in 1..Len(started), PromisesIn(req, started[i])
    PROVE  started[i] \in Past("done", req) \cup Past("partial", req)
<1> DEFINE r == started[i]
<1>1. r \in Requests /\ Begun(req[r]) /\ PromisesIn(req, r)
  BY ElementOfSeq DEF Inv, Types, StartedOnce
<1>2. req[r] \in Shape(req[r].shown) /\ Course(req[r]) /\ Envelope(r, req[r])
  BY <1>1 DEF Inv, Types, Stories
<1> HIDE DEF r
<1>3. req[r].pc = "answered" /\ req[r].door \in {"research", "trace", "form", "download"}
  BY <1>1 DEF Begun, PromisesIn
<1>4. req[r].answer.slug = Reported(req[r].door, req[r].end) /\ HttpStatus(req[r].answer.slug) = 200
  BY <1>1, <1>2, <1>3 DEF Envelope, PromisesIn
<1>5. req[r].end \in Ends /\ req[r].end # "none"
  BY <1>2, <1>3 DEF Shape, Course
<1>6. Slug(req[r].end) = "ok"
  <2>1. req[r].answer.slug \in Slugs
    BY <1>4, <1>5, Named
  <2>2. req[r].answer.slug = "ok"
    BY <1>4, <2>1 DEF Slugs, HttpStatus
  <2>3. ASSUME NEW end, end = req[r].end PROVE Slug(end) = "ok"
    <3>1. end \in Ends /\ end # "none" /\ Reported(req[r].door, end) = "ok"
      BY <1>4, <1>5, <2>2, <2>3
    <3>2. QED
      BY <3>1, Named
  <2>4. QED
    BY <2>3
<1>7. req[r].end \in {"done", "partial"}
  <2>1. req[r].end \in {"done", "partial", "served", "help"}
    BY <1>5, <1>6, Named
  <2>2. QED
    BY <1>2, <1>3, <2>1 DEF Course, RunDoors
<1>8. QED
  BY <1>1, <1>3, <1>7 DEF Past, r

LEMMA RunsArePast ==
    ASSUME RunsCounted
    PROVE  /\ AllRuns(ended) = Cardinality(Past("done", req) \cup Past("partial", req))
           /\ IsFiniteSet(Past("done", req) \cup Past("partial", req)) /\ AllRuns(ended) \in Nat
<1> DEFINE done == Past("done", req)
           partial == Past("partial", req)
<1>1. IsFiniteSet(done) /\ IsFiniteSet(partial) /\ Cardinality(done) \in Nat /\ Cardinality(partial) \in Nat
  BY PastFinite
<1>2. done \cap partial = {}
  BY DEF Past
<1>3. AllRuns(ended) = Cardinality(done) + Cardinality(partial)
  BY DEF RunsCounted, AllRuns, Finished
<1> HIDE DEF done, partial
<1>4. Cardinality(done \cap partial) = 0
  BY <1>2, FS_EmptySet
<1>5. IsFiniteSet(done \cup partial) /\ Cardinality(done \cup partial) =
         Cardinality(done) + Cardinality(partial) - Cardinality(done \cap partial)
  BY <1>1, FS_Union
<1>6. Cardinality(done \cup partial) = Cardinality(done) + Cardinality(partial)
  BY <1>1, <1>4, <1>5
<1>7. AllRuns(ended) = Cardinality(done \cup partial) /\ AllRuns(ended) \in Nat
  BY <1>1, <1>3, <1>6
<1>8. QED
  BY <1>5, <1>7 DEF done, partial

\* What is shown is so when it is read.
LEMMA ShownNow ==
    ASSUME Inv, StartedOnce, served = TallyIn(started, req), RunsCounted,
           NEW r \in Requests, req[r].pc = "render"
    PROVE  ShownAt(r, [served |-> served, ended |-> ended], started, req)
<1> DEFINE n == Len(started)
           promised == {i \in 1..n : PromisesIn(req, started[i])}
           past == Past("done", req) \cup Past("partial", req)
<1>1. started \in Seq(Requests) /\ n \in 0..Len(started) /\ n \in Nat
  BY DEF Inv, Types
<1>2. SubSeq(started, 1, n) = started
  BY <1>1
<1>3. ~Begun(req[r])
  BY DEF Inv, Stories, Course, Envelope, Begun
<1>4. \A i \in 1..n : started[i] # r
  BY <1>3 DEF StartedOnce
<1>5. Cardinality(promised) <= AllRuns(ended)
  <2>1. \A i \in promised : started[i] \in past
    BY PromisedIsPast
  <2>2. \A i, j \in promised : started[i] = started[j] => i = j
    BY DEF StartedOnce
  <2>3. IsFiniteSet(past) /\ Cardinality(past) = AllRuns(ended)
    BY RunsArePast
  <2> HIDE DEF promised, past, n
  <2>4. Cardinality(promised) <= Cardinality(past)
    BY ONLY <2>1, <2>2, <2>3, PlacesOf
  <2>5. QED
    BY <2>3, <2>4
<1>6. QED
  BY <1>1, <1>2, <1>4, <1>5 DEF ShownAt

\* Nothing is shown that nothing has been counted for.
LEMMA NothingShown ==
    ASSUME Inv
    PROVE  \A r : ShownAt(r, NoCounts, started, req)
<1>1. NoCounts.served = EmptyBag /\ NoCounts.ended = EmptyBag
  BY DEF NoCounts
<1>2. AllRuns(EmptyBag) = 0
  BY DEF AllRuns, Runs, BagIn, BagToSet, EmptyBag, SetToBag
<1>3. TallyIn(<<>>, req) = EmptyBag
  <2>1. CountedIn(<<>>, req) = {}
    BY DEF CountedIn
  <2>2. QED
    BY <2>1 DEF TallyIn, EmptyBag, SetToBag
<1>4. SubSeq(started, 1, 0) = <<>>
  BY DEF SubSeq
<1>5. Cardinality({i \in 1..0 : PromisesIn(req, started[i])}) <= AllRuns(NoCounts.ended)
  <2>1. {i \in 1..0 : PromisesIn(req, started[i])} = {}
    OBVIOUS
  <2>2. QED
    BY <1>1, <1>2, <2>1, FS_EmptySet
<1>6. 0 <= Len(started) /\ Len(started) \in Nat
  BY DEF Inv, Types
<1>7. NoCounts.served = TallyIn(SubSeq(started, 1, 0), req)
  BY <1>1, <1>3, <1>4
<1>8. SUFFICES ASSUME NEW r
               PROVE  \E k \in 0..Len(started) :
                         /\ NoCounts.served = TallyIn(SubSeq(started, 1, k), req)
                         /\ \A i \in 1..k : started[i] # r
                         /\ Cardinality({i \in 1..k : PromisesIn(req, started[i])})
                               <= AllRuns(NoCounts.ended)
  BY DEF ShownAt
<1>9. \A i \in 1..0 : started[i] # r
  OBVIOUS
<1> WITNESS 0 \in 0..Len(started)
<1>10. QED
  BY ONLY <1>5, <1>7, <1>9

LEMMA ScrapedKept ==
    ASSUME Inv, CountsInv, NEW r \in Requests, Step(r)
    PROVE  Scraped'
<1> DEFINE due(q) == q.door = "metrics" /\ q.pc \in {"answer", "answered"}
<1>1. /\ Types /\ Stories /\ History!StoreInv /\ Course(req[r])
      /\ StartedOnce /\ served = TallyIn(started, req) /\ RunsCounted /\ Scraped
  BY DEF Inv, Types, Stories, CountsInv
<1>2. \A s \in Requests : s # r => req'[s] = req[s]
  BY <1>1, EveryStepGoesOn, Turning
<1>3. ASSUME NEW s, NEW shown, ShownAt(s, shown, started, req)
      PROVE  ShownAt(s, shown, started', req')
  BY <1>1, <1>3, ShownStays
<1>4. ASSUME NEW s \in Requests, s # r, due(req'[s])
      PROVE  ShownAt(s, req'[s].shown, started', req')
  BY <1>1, <1>2, <1>3, <1>4 DEF Scraped
<1>5. ASSUME NEW q, Turns(r, q), GoesOn(r, q), due(q) => ShownAt(r, q.shown, started, req)
      PROVE  due(req'[r]) => ShownAt(r, req'[r].shown, started', req')
  <2>1. req'[r] = q
    BY <1>1, <1>5, Turning
  <2>2. QED
    BY <1>3, <1>5, <2>1
<1>6. CASE Arrive(r)
  <2>1. PICK q : Turns(r, q) /\ GoesOn(r, q) /\ q.shown = NoCounts
    BY <1>1, <1>6, ArriveGoesOn
  <2>2. ShownAt(r, q.shown, started, req)
    BY <2>1, NothingShown
  <2>3. due(req'[r]) => ShownAt(r, req'[r].shown, started', req')
    BY <1>5, <2>1, <2>2
  <2>4. QED
    BY <1>4, <2>3 DEF Scraped
<1>7. CASE Render(r)
  <2>1. PICK q : Turns(r, q) /\ GoesOn(r, q) /\ q.shown = [served |-> served, ended |-> ended]
    BY <1>1, <1>7, RenderGoesOn
  <2>2. ShownAt(r, q.shown, started, req)
    BY <1>1, <1>7, <2>1, ShownNow DEF Render
  <2>3. QED
    BY <1>4, <1>5, <2>1, <2>2 DEF Scraped
<1>8. CASE Answer(r)
  <2>1. PICK q : Turns(r, q) /\ GoesOn(r, q) /\ Same(q, req[r])
    BY <1>1, <1>8, AnswerGoesOn
  <2>2. due(q) => due(req[r])
    BY <1>8, <2>1 DEF Answer, Same
  <2>3. due(q) => ShownAt(r, q.shown, started, req)
    BY <1>1, <2>1, <2>2 DEF Same, Scraped
  <2>4. QED
    BY <1>4, <1>5, <2>1, <2>3 DEF Scraped
<1>9. CASE Perform(r) \/ Count(r) \/ Fetch(r) \/ Open(r)
  <2>1. req[r].door # "metrics"
    <3>1. Perform(r) => req[r].pc = "run"
      BY DEF Perform
    <3>2. Count(r) => req[r].pc = "count"
      BY DEF Count
    <3>3. Fetch(r) => req[r].pc = "fetch"
      BY DEF Fetch
    <3>4. Open(r) => req[r].pc = "open"
      BY DEF Open
    <3>5. QED
      BY <1>1, <1>9, <3>1, <3>2, <3>3, <3>4 DEF Course, RunDoors, FetchDoors, Finished
  <2>2. \E q : Turns(r, q) /\ GoesOn(r, q) /\ q.door = req[r].door
    <3>1. CASE Perform(r)
      BY <1>1, <3>1, PerformGoesOn DEF Same
    <3>2. CASE Count(r)
      <4>1. PICK q : Turns(r, q) /\ GoesOn(r, q) /\ Same(q, req[r])
        BY <1>1, <3>2, CountGoesOn
      <4>2. QED
        BY <4>1 DEF Same
    <3>3. CASE Fetch(r)
      BY <1>1, <3>3, FetchGoesOn
    <3>4. CASE Open(r)
      BY <1>1, <3>4, OpenGoesOn DEF Same
    <3>5. QED
      BY <1>9, <3>1, <3>2, <3>3, <3>4
  <2>3. PICK q : Turns(r, q) /\ GoesOn(r, q) /\ q.door = req[r].door
    BY <2>2
  <2>4. QED
    BY <1>4, <1>5, <2>1, <2>3 DEF Scraped
<1>10. QED
  BY <1>6, <1>7, <1>8, <1>9 DEF Step

LEMMA CountsAlways == Spec => [](Inv /\ CountsInv)
<1>1. Inv /\ CountsInv /\ [Next]_vars => CountsInv'
  <2> SUFFICES ASSUME Inv, CountsInv, [Next]_vars PROVE CountsInv'
    OBVIOUS
  <2>1. CASE Next
    <3>1. PICK r \in Requests : Step(r)
      BY <2>1 DEF Next
    <3>2. StartedOnce' /\ served' = TallyIn(started', req') /\ RunsCounted' /\ Scraped'
      BY <3>1, StartedKept, RunsKept, ScrapedKept DEF CountsInv
    <3>3. QED
      BY <3>2 DEF CountsInv
  <2>2. CASE UNCHANGED vars
    BY <2>2 DEF CountsInv, StartedOnce, RunsCounted, Scraped, vars, store, counters
  <2>3. QED
    BY <2>1, <2>2
<1>2. QED
  BY <1>1, InvAlways, CountsInitially, PTL DEF Spec

-----------------------------------------------------------------------------
(* The theorems.                                                           *)

(***************************************************************************)
(* Requests, store and counters keep their shapes, and every answer has a  *)
(* slug and a status or exit code of the contract, whichever way the       *)
(* request went.                                                           *)
(***************************************************************************)
THEOREM TypeCorrect == Spec => []TypeOK
<1>1. ASSUME Inv PROVE TypeOK
  <2>1. Types /\ Stories /\ Read
    BY <1>1 DEF Inv
  <2>2. runs \in Seq(Store!Artifact) /\ finished \in Seq(Store!Artifact)
    BY <1>1, SameStore DEF Inv, Types, History!StoreInv, History!Tells
  <2>3. ASSUME NEW r \in Requests
        PROVE  /\ req[r].pc \in Stages /\ req[r].door \in Doors \cup {"none"}
               /\ req[r].id \in IF req[r].pc = "new" THEN {NoId} ELSE Ids
               /\ req[r].wanted \in Ids \cup {NoId} /\ req[r].end \in Ends
               /\ req[r].found \in Seq(Store!Artifact) /\ req[r].at \in 0..Len(finished)
               /\ req[r].pc = "answered" =>
                     req[r].answer.slug \in Slugs /\ req[r].answer.status \in Statuses
    <3>1. req[r] \in Shape(req[r].shown) /\ Course(req[r]) /\ Envelope(r, req[r])
          /\ req[r].at <= Len(finished)
      BY <2>1 DEF Types, Stories, Read
    <3>2. /\ req[r].pc \in Stages /\ req[r].door \in Doors \cup {"none"}
          /\ req[r].wanted \in Ids \cup {NoId} /\ req[r].end \in Ends
          /\ req[r].found \in Seq(Kept) /\ req[r].at \in Nat
          /\ req[r].sent \in CallerIds \cup {NoId} /\ req[r].answer.status \in Statuses
      BY <3>1 DEF Shape
    <3>3. req[r].id \in IF req[r].pc = "new" THEN {NoId} ELSE Ids
      <4>1. req[r].pc = "new" => req[r].id = NoId
        BY <3>1 DEF Envelope, New
      <4>2. req[r].pc # "new" => req[r].id = ResolveRequestId(req[r].sent, r)
        BY <3>1 DEF Envelope
      <4>3. Fresh(r, 1) \in Ids /\ CallerIds \subseteq Ids
        BY DEF Ids
      <4>4. QED
        BY <3>2, <4>1, <4>2, <4>3 DEF ResolveRequestId
    <3>4. req[r].pc = "answered" => req[r].answer.slug \in Slugs
      <4>1. req[r].pc = "answered" =>
               req[r].end # "none" /\ req[r].answer.slug = Reported(req[r].door, req[r].end)
        BY <3>1 DEF Course, Envelope
      <4>2. QED
        BY <3>2, <4>1, Named
    <3>5. req[r].at \in 0..Len(finished)
      BY <2>1, <3>1, <3>2 DEF Types
    <3>6. QED
      BY <3>2, <3>3, <3>4, <3>5, SameStore
  <2>4. QED
    BY <2>1, <2>2, <2>3 DEF TypeOK, Types, Stages, Slugs, Statuses
<1>2. QED
  BY <1>1, InvAlways, PTL

(***************************************************************************)
(* One id ties a request together -- header, body, store -- however its    *)
(* answer came about, and a minted id is nobody else's.                    *)
(***************************************************************************)
THEOREM EnvelopesAreCorrelated == Spec => []EnvelopeIsCorrelated
<1>1. ASSUME Inv PROVE EnvelopeIsCorrelated
  <2>1. ASSUME NEW r \in Requests
        PROVE  /\ req[r] \in Shape(req[r].shown) /\ Course(req[r]) /\ Envelope(r, req[r])
               /\ req[r].sent \in CallerIds \cup {NoId}
    <3>1. req[r] \in Shape(req[r].shown) /\ Course(req[r]) /\ Envelope(r, req[r])
      BY <1>1 DEF Inv, Types, Stories
    <3>2. QED
      BY <3>1 DEF Shape
  <2>2. ASSUME NEW r \in Requests, NEW s \in Requests \ {r}, req[r].id = req[s].id, req[r].id # NoId
        PROVE  req[r].sent = req[r].id
    <3>1. req[r].pc # "new" /\ req[s].pc # "new"
      BY <2>1, <2>2 DEF Envelope, New
    <3>2. req[r].id = ResolveRequestId(req[r].sent, r) /\ req[s].id = ResolveRequestId(req[s].sent, s)
      BY <2>1, <3>1 DEF Envelope
    <3>3. Fresh(r, 1) # Fresh(s, 1)
      BY <2>2 DEF Fresh
    <3>4. Fresh(r, 1) \notin CallerIds
      BY SurfaceAssumption
    <3>5. req[s].sent \in CallerIds \cup {NoId}
      BY <2>1
    <3> HIDE DEF Fresh
    <3>6. QED
      BY <2>2, <3>2, <3>3, <3>4, <3>5 DEF ResolveRequestId
  <2>3. ASSUME NEW r \in Requests, NEW i \in 1..Len(finished), finished[i].owner = r
        PROVE  finished[i].id = req[r].id
    BY <1>1, <2>3 DEF Inv, StoredOnce
  <2>4. ASSUME NEW r \in Requests, req[r].pc # "new" PROVE req[r].id = req[r].sent \/ req[r].sent = NoId
    BY <2>1, <2>4 DEF Envelope, ResolveRequestId
  <2>5. ASSUME NEW r \in Requests, req[r].pc = "answered"
        PROVE  /\ req[r].answer.header = IF req[r].door = "cli" THEN NoId ELSE req[r].id
               /\ req[r].answer.body \in {NoId, IF req[r].found = <<>> THEN req[r].id ELSE req[r].wanted}
               /\ req[r].answer.slug # "ok" /\ req[r].answer.body = NoId => req[r].payload = "unparsable"
    BY <2>1, <2>5 DEF Envelope
  <2>6. QED
    BY <2>2, <2>3, <2>4, <2>5 DEF EnvelopeIsCorrelated
<1>2. QED
  BY <1>1, InvAlways, PTL

(***************************************************************************)
(* A fetch is answered with what the history of the store said of the id   *)
(* when it was read, whatever finished in between or since.                *)
(***************************************************************************)
THEOREM FetchesTellHistory == Spec => []FetchTellsHistory
<1>1. Inv => FetchTellsHistory
  BY DEF Inv
<1>2. QED
  BY <1>1, InvAlways, PTL

(***************************************************************************)
(* One end, one slug and one status through every door, the form's own     *)
(* mistake excepted, and the hosted backend only where one is set.         *)
(***************************************************************************)
THEOREM AnswersAlwaysAgree == Spec => []AnswersAgree
<1>1. ASSUME Inv PROVE AnswersAgree
  <2> DEFINE over == {r \in Requests : req[r].pc = "answered"}
             mistaken == {r \in over : req[r].door = "form" /\ req[r].end \in Unexpected}
  <2>1. ASSUME NEW r \in over
        PROVE  /\ req[r].answer.slug = Reported(req[r].door, req[r].end)
               /\ req[r].door = "cli" => req[r].answer.status = ExitCode(req[r].end)
               /\ req[r].door \notin {"cli", "stream"} =>
                     req[r].answer.status = HttpStatus(req[r].answer.slug)
               /\ req[r].end \in Ends /\ req[r].end # "none"
               /\ req[r].retriever = "http" /\ req[r].end \in Finished => address = "set"
    <3>1. req[r] \in Shape(req[r].shown) /\ Course(req[r]) /\ Envelope(r, req[r])
          /\ req[r].pc = "answered"
      BY <1>1 DEF Inv, Types, Stories
    <3>2. req[r].end \in Ends
      BY <3>1 DEF Shape
    <3>3. QED
      BY <3>1, <3>2 DEF Course, Envelope
  <2>2. ASSUME NEW r \in over \ mistaken PROVE req[r].answer.slug = Slug(req[r].end)
    BY <2>1, <2>2 DEF Reported, Unexpected
  <2>3. ASSUME NEW r \in over, req[r].door = "cli"
        PROVE  req[r].answer.status = 0 <=> req[r].end \in {"done", "help"}
    BY <2>1, <2>3, Named
  <2> HIDE DEF over, mistaken
  <2>4. mistaken \subseteq over
    BY DEF mistaken
  <2>5. ASSUME NEW r \in over \ mistaken, NEW s \in over \ mistaken, req[r].end = req[s].end
        PROVE  /\ req[r].answer.slug = req[s].answer.slug
               /\ {req[r].door, req[s].door} \cap {"cli", "stream"} = {} =>
                     req[r].answer.status = req[s].answer.status
    <3>1. req[r].answer.slug = req[s].answer.slug
      BY <2>2, <2>5
    <3>2. QED
      BY <2>1, <2>5, <3>1
  <2>6. QED
    BY <2>1, <2>3, <2>4, <2>5 DEF AnswersAgree, over, mistaken
<1>2. QED
  BY <1>1, InvAlways, PTL

(***************************************************************************)
(* What is counted is what was answered and what was stored, once each,    *)
(* and a scrape shows a state the counters had been in: whatever requests  *)
(* came between, and whichever layer answered.                             *)
(***************************************************************************)
THEOREM CountsAlwaysAddUp == Spec => []CountsAddUp
<1>1. ASSUME Inv, CountsInv PROVE CountsAddUp
  <2> DEFINE n == Len(finished)
             list == [i \in 1..n |-> finished[i].owner]
             held == {r \in Requests : req[r].end \in Finished /\ req[r].door # "cli"}
             counting == {r \in Requests : req[r].pc = "count"}
             past == Past("done", req) \cup Past("partial", req)
  <2>1. /\ served = Tally(started) /\ n \in Nat
        /\ \A r \in Requests : Course(req[r])
        /\ RunsCounted /\ Scraped /\ finished \in Seq(Kept)
    BY <1>1, TallyIsIn DEF CountsInv, Inv, Types, Stories
  <2>2. /\ \A i \in 1..n : list[i] \in held /\ list[i] = finished[i].owner
        /\ \A i, j \in 1..n : list[i] = list[j] => i = j
        /\ \A r \in held : \E i \in 1..n : list[i] = r
    BY <1>1, <2>1, OwnersAreRequests DEF Inv, StoredOnce
  <2>3. IsFiniteSet(held) /\ IsFiniteSet(counting) /\ IsFiniteSet(past)
    <3>1. held \subseteq Requests /\ counting \subseteq Requests /\ past \subseteq Requests
      BY DEF Past
    <3>2. QED
      BY <3>1, FS_Subset, SurfaceAssumption
  <2>4. held = past \cup counting /\ past \cap counting = {}
    BY <2>1 DEF Past, Course, Finished
  <2>5. AllRuns(ended) = Cardinality(past) /\ AllRuns(ended) \in Nat
    BY <2>1, RunsArePast
  <2>6. \A end \in Finished : Past(end, req) \subseteq held
    BY DEF Past
  <2> HIDE DEF list, held, counting, past
  <2>7. AllRuns(ended) + Cardinality(counting) = n
    <3>1. Cardinality(1..n) = Cardinality(held)
      <4> DEFINE places == 1..n
      <4>1. /\ \A i \in places : list[i] \in held
            /\ \A i, j \in places : list[i] = list[j] => i = j
            /\ \A r \in held : \E i \in places : list[i] = r
        BY <2>2
      <4> HIDE DEF places
      <4>2. Cardinality(places) = Cardinality(held)
        BY ONLY <2>3, <4>1, PlacesOf
      <4>3. QED
        BY <4>2 DEF places
    <3>2. Cardinality(1..n) = n
      <4>1. 1 \in Int /\ n \in Int
        BY <2>1
      <4>2. Cardinality(1..n) = IF 1 > n THEN 0 ELSE n - 1 + 1
        BY ONLY <4>1, FS_Interval
      <4>3. QED
        BY <2>1, <4>2
    <3>3. Cardinality(held) = Cardinality(past) + Cardinality(counting) - Cardinality(past \cap counting)
      BY <2>3, <2>4, FS_Union
    <3>4. Cardinality(past \cap counting) = 0 /\ Cardinality(counting) \in Nat
      BY <2>3, <2>4, FS_EmptySet, FS_CardinalityType
    <3>5. QED
      BY <2>5, <3>1, <3>2, <3>3, <3>4
  <2>8. ASSUME NEW end \in Finished
        PROVE  Runs(end, ended) <= Cardinality({i \in 1..n : req[finished[i].owner].end = end})
    <3> DEFINE places == {i \in 1..n : req[finished[i].owner].end = end}
               under == {r \in held : req[r].end = end}
    <3>1. \A i \in places : list[i] \in under
      BY <2>2
    <3>2. \A i, j \in places : list[i] = list[j] => i = j
      BY <2>2
    <3>3. \A r \in under : \E i \in places : list[i] = r
      BY <2>2
    <3>4. IsFiniteSet(under)
      BY <2>3, FS_Subset
    <3>5. Past(end, req) \subseteq under
      BY <2>6 DEF Past
    <3> HIDE DEF places, under, n
    <3>7. Cardinality(places) = Cardinality(under)
      BY ONLY <3>1, <3>2, <3>3, <3>4, PlacesOf
    <3>8. Cardinality(Past(end, req)) <= Cardinality(under)
      BY <3>4, <3>5, FS_Subset
    <3>9. Runs(end, ended) = Cardinality(Past(end, req))
      BY <2>1 DEF RunsCounted
    <3>10. QED
      BY <3>7, <3>8, <3>9 DEF places, n
  <2>9. ASSUME NEW r \in Requests, req[r].door = "metrics", req[r].pc \in {"answer", "answered"}
        PROVE  \E k \in 0..Len(started) :
                  LET before == SubSeq(started, 1, k)
                  IN  /\ req[r].shown.served = Tally(before)
                      /\ \A i \in 1..k : before[i] # r
                      /\ Cardinality({i \in 1..k : Promises(before[i])}) <=
                            AllRuns(req[r].shown.ended)
    <3>1. ShownAt(r, req[r].shown, started, req)
      BY <2>1, <2>9 DEF Scraped
    <3>2. PICK k \in 0..Len(started) :
             /\ req[r].shown.served = TallyIn(SubSeq(started, 1, k), req)
             /\ \A i \in 1..k : started[i] # r
             /\ Cardinality({i \in 1..k : PromisesIn(req, started[i])}) <= AllRuns(req[r].shown.ended)
      BY <3>1 DEF ShownAt
    <3> DEFINE before == SubSeq(started, 1, k)
    <3>3. \A i \in 1..k : before[i] = started[i]
      BY <1>1, <3>2 DEF Inv, Types
    <3>4. {i \in 1..k : Promises(before[i])} = {i \in 1..k : PromisesIn(req, started[i])}
      BY <3>3 DEF Promises, PromisesIn
    <3>5. req[r].shown.served = Tally(before)
      BY <3>2, TallyIsIn
    <3> HIDE DEF before
    <3>6. (\A i \in 1..k : before[i] # r)
          /\ Cardinality({i \in 1..k : Promises(before[i])}) <= AllRuns(req[r].shown.ended)
      BY <3>2, <3>3, <3>4
    <3> WITNESS k \in 0..Len(started)
    <3>7. QED
      BY <3>5, <3>6 DEF before
  <2>10. QED
    BY <2>1, <2>7, <2>8, <2>9 DEF CountsAddUp, counting
<1>2. QED
  BY <1>1, CountsAlways, PTL
=============================================================================
