---------------------------- MODULE RuntimeProofs ----------------------------
(***************************************************************************)
(* What a client of a stream is sent, and what is counted, for any number  *)
(* of requests and streams, runs of any length and queues of any capacity. *)
(* Everything a worker publishes follows one script: its trace events, the *)
(* outcome, the sentinel.  What was sent is the beginning of it and, while *)
(* the client stays, the queue holds what comes next.                      *)
(***************************************************************************)
EXTENDS Runtime, SequenceTheorems, FiniteSetTheorems, TLAPS

Labels == {"idle", "running", "store", "count", "report", "failed", "end", "ended"}

Published == [name : {"trace", "done", "error", "end"}, offset : Nat]

Types ==
    /\ length \in [Requests -> Lengths]
    /\ worker \in [Requests -> Labels]
    /\ recorded \in [Requests -> Nat]
    /\ queue \in [Streams -> Seq(Published)]
    /\ reader \in [Streams -> {"none", "reading", "leaving", "gone", "closed"}]
    /\ received \in [Streams -> Seq(Published)]
    /\ finished \in Seq([id : Ids, owner : Requests])
    /\ counted \in Nat

\* How far a run is and whether it was stored.
Stages ==
    \A r \in Requests :
        /\ worker[r] \in {"idle", "running", "store", "failed"} => ~Stored(r)
        /\ worker[r] \in {"count", "report"} => Stored(r)
        /\ worker[r] \in {"store", "count", "report"} => recorded[r] = length[r]
        /\ Stored(r) => recorded[r] = length[r]
        /\ r \in Streams /\ worker[r] = "idle" => reader[r] = "none"

Counted == {r \in Requests : worker[r] = "count"}

CountInv == counted + Cardinality(Counted) = Len(finished)

Outcome(r) == IF Stored(r) THEN Done ELSE Error

\* The k-th event of a run that records n.
Script(n, outcome, k) ==
    IF k <= n THEN TraceEvent(k - 1) ELSE IF k = n + 1 THEN outcome ELSE End

\* How many it has published.
Sent(r) ==
    recorded[r] + IF worker[r] = "ended" THEN 2 ELSE IF worker[r] = "end" THEN 1 ELSE 0

Following(r) ==
    /\ Len(received[r]) <= Sent(r) /\ Len(received[r]) <= recorded[r] + 1
    /\ \A i \in 1..Len(received[r]) : received[r][i] = Script(recorded[r], Outcome(r), i)
    /\ reader[r] \in {"none", "reading"} =>
          /\ Len(received[r]) + Len(queue[r]) = Sent(r)
          /\ \A i \in 1..Len(queue[r]) : queue[r][i] = Script(recorded[r], Outcome(r), Len(received[r]) + i)
    /\ reader[r] = "closed" => Len(received[r]) = recorded[r] + 1

Inv == Types /\ Stages /\ CountInv /\ \A r \in Streams : Following(r)

\* The lemmas about the store's history, for the store the requests share.
History == INSTANCE RunStoreProofs WITH
    Owners <- Requests, Capacity <- StoreCapacity, MaxPuts <- Cardinality(Requests)

QueueBound == \A r \in Streams : Len(queue[r]) <= QueueCapacity

\* A call has no stream to report to: it ends stored, or having raised.
CallsEnd ==
    \A r \in Requests \ Streams :
        /\ worker[r] \notin {"report", "failed", "end"}
        /\ worker[r] = "ended" => Stored(r) \/ recorded[r] < length[r]

\* What makes the runs a client is told of be found again.
ServingInv == History!StoreInv /\ QueueBound /\ CallsEnd

-----------------------------------------------------------------------------

\* The events of a script differ by what they are.
LEMMA ScriptTypes ==
    ASSUME NEW n \in Nat, NEW outcome \in {Done, Error}, NEW k \in Nat \ {0}
    PROVE  /\ Script(n, outcome, k) \in Published
           /\ (Script(n, outcome, k) = End) <=> k > n + 1
           /\ (Script(n, outcome, k) \in {Done, Error}) <=> k = n + 1
  BY DEF Script, Published, TraceEvent, Event, Done, Error, End

LEMMA Initially == Init => Inv
<1> SUFFICES ASSUME Init PROVE Inv
  OBVIOUS
<1>1. Types
  BY DEF Init, Types, Labels, Store!StoreInit
<1>2. Stages
  BY DEF Init, Stages, Stored, Store!StoreInit
<1>3. CountInv
  <2>1. Counted = {}
    BY DEF Init, Counted
  <2>2. QED
    BY <2>1, FS_EmptySet DEF Init, CountInv, Store!StoreInit
<1>4. \A r \in Streams : Following(r)
  BY RuntimeAssumption DEF Init, Following, Sent
<1>5. QED
  BY <1>1, <1>2, <1>3, <1>4 DEF Inv

\* Runs between storing and counting, as a worker goes on.
LEMMA CountedMoves ==
    ASSUME Types, NEW r \in Requests, NEW label \in Labels, Goto(r, label)
    PROVE  /\ Cardinality(Counted) \in Nat
           /\ (worker[r] = "count" <=> label = "count") => Counted' = Counted
           /\ worker[r] # "count" /\ label = "count" =>
                 Cardinality(Counted') = Cardinality(Counted) + 1
           /\ worker[r] = "count" /\ label # "count" =>
                 Cardinality(Counted') = Cardinality(Counted) - 1
<1>1. IsFiniteSet(Counted) /\ Cardinality(Counted) \in Nat
  <2>1. Counted \subseteq Requests
    BY DEF Counted
  <2>2. QED
    BY <2>1, FS_Subset, FS_CardinalityType, RuntimeAssumption
<1>2. (worker[r] = "count" <=> label = "count") => Counted' = Counted
  BY DEF Types, Counted, Goto
<1>3. ASSUME worker[r] # "count", label = "count"
      PROVE  Cardinality(Counted') = Cardinality(Counted) + 1
  <2>1. Counted' = Counted \cup {r} /\ r \notin Counted
    BY <1>3 DEF Types, Counted, Goto
  <2>2. QED
    BY <1>1, <2>1, FS_AddElement
<1>4. ASSUME worker[r] = "count", label # "count"
      PROVE  Cardinality(Counted') = Cardinality(Counted) - 1
  <2>1. Counted' = Counted \ {r} /\ r \in Counted
    BY <1>4 DEF Types, Counted, Goto
  <2>2. QED
    BY <1>1, <2>1, FS_RemoveElement
<1>5. QED
  BY <1>1, <1>2, <1>3, <1>4

\* Appending to a sequence.
LEMMA AppendAt ==
    ASSUME NEW S, NEW q \in Seq(S), NEW e \in S
    PROVE  /\ Append(q, e) \in Seq(S)
           /\ Len(Append(q, e)) = Len(q) + 1
           /\ \A i \in 1..Len(q) : Append(q, e)[i] = q[i]
           /\ Append(q, e)[Len(q) + 1] = e
  OBVIOUS

\* A step of one worker leaves the streams of the others as they are.
LEMMA OthersFollow ==
    ASSUME Inv, NEW r \in Streams, Following(r),
           UNCHANGED <<worker[r], recorded[r], queue[r], reader[r], received[r]>>,
           Stored(r)' <=> Stored(r)
    PROVE  Following(r)'
<1>1. Outcome(r)' = Outcome(r) /\ Sent(r)' = Sent(r)
  BY DEF Outcome, Sent
<1>2. QED
  BY <1>1 DEF Following

\* Publishing the next event of the script.
LEMMA Publishing ==
    ASSUME Inv, NEW r \in Requests, NEW event \in Published, Emit(r, event),
           UNCHANGED <<reader, received>>
    PROVE  /\ queue' \in [Streams -> Seq(Published)]
           /\ \A s \in Streams \ {r} : queue'[s] = queue[s]
           /\ r \in Streams => queue'[r] = Append(queue[r], event)
<1>1. CASE r \notin Streams
  BY <1>1 DEF Inv, Types, Emit
<1>2. CASE r \in Streams
  <2>1. queue[r] \in Seq(Published)
    BY <1>2 DEF Inv, Types
  <2>2. Append(queue[r], event) \in Seq(Published)
    BY <2>1
  <2>3. queue' = [queue EXCEPT ![r] = Append(queue[r], event)]
    BY <1>2 DEF Emit
  <2>4. QED
    BY <1>2, <2>2, <2>3 DEF Inv, Types
<1>3. QED
  BY <1>1, <1>2

\* The script goes on with what its worker publishes.
LEMMA NextFollows ==
    ASSUME Inv, NEW r \in Streams, NEW event \in Published,
           queue'[r] = Append(queue[r], event),
           UNCHANGED <<reader[r], received[r]>>,
           Sent(r)' = Sent(r) + 1,
           recorded'[r] \in Nat, recorded'[r] >= recorded[r],
           reader[r] = "closed" => recorded'[r] = recorded[r],
           \A k \in 1..Sent(r) :
               Script(recorded'[r], Outcome(r)', k) = Script(recorded[r], Outcome(r), k),
           Script(recorded'[r], Outcome(r)', Sent(r) + 1) = event
    PROVE  Following(r)'
<1> DEFINE before(k) == Script(recorded[r], Outcome(r), k)
           after(k) == Script(recorded'[r], Outcome(r)', k)
<1>1. /\ received[r] \in Seq(Published) /\ queue[r] \in Seq(Published)
      /\ recorded[r] \in Nat /\ Sent(r) \in Nat
  BY RuntimeAssumption DEF Inv, Types, Sent
<1>2. Following(r)
  BY DEF Inv
<1>3. /\ Len(queue'[r]) = Len(queue[r]) + 1
      /\ \A i \in 1..Len(queue[r]) : queue'[r][i] = queue[r][i]
      /\ queue'[r][Len(queue[r]) + 1] = event
  BY <1>1, AppendAt
<1> DEFINE a == Len(received[r])
           b == Len(queue[r])
<1>4. a \in Nat /\ b \in Nat
  BY <1>1
<1>5. /\ a <= Sent(r)
      /\ \A i \in 1..a : received[r][i] = before(i)
      /\ reader[r] \in {"none", "reading"} =>
            a + b = Sent(r) /\ \A i \in 1..b : queue[r][i] = before(a + i)
  BY <1>2 DEF Following
<1>6. \A k \in 1..Sent(r) : after(k) = before(k)
  OBVIOUS
<1>7. after(Sent(r) + 1) = event
  OBVIOUS
<1> HIDE DEF a, b, before, after
<1>8. \A i \in 1..a : received[r][i] = after(i)
  BY <1>1, <1>4, <1>5, <1>6
<1>9. ASSUME reader[r] \in {"none", "reading"}
      PROVE  \A i \in 1..(b + 1) : queue'[r][i] = after(a + i)
  <2>1. a + b = Sent(r)
    BY <1>5, <1>9
  <2>2. ASSUME NEW i \in 1..b PROVE queue'[r][i] = after(a + i)
    <3>1. a + i \in 1..Sent(r)
      BY <1>4, <2>1
    <3>2. queue'[r][i] = queue[r][i] /\ queue[r][i] = before(a + i)
      BY <1>3, <1>5, <1>9 DEF b
    <3>3. QED
      BY <1>6, <3>1, <3>2
  <2>3. queue'[r][b + 1] = after(a + (b + 1))
    <3>1. a + (b + 1) = Sent(r) + 1
      BY <1>4, <2>1
    <3>2. QED
      BY <1>3, <1>7, <3>1 DEF b
  <2>4. \A i \in 1..(b + 1) : i \in 1..b \/ i = b + 1
    BY <1>4
  <2>5. QED
    BY <2>2, <2>3, <2>4
<1>10. reader[r] \in {"none", "reading"} => a + (b + 1) = Sent(r) + 1
  BY <1>4, <1>5
<1>11. /\ Len(received'[r]) <= Sent(r)' /\ Len(received'[r]) <= recorded'[r] + 1
       /\ reader'[r] = "closed" => Len(received'[r]) = recorded'[r] + 1
  BY <1>1, <1>2, <1>4, <1>5 DEF Following, a
<1>12. \A i \in 1..Len(received'[r]) :
          received'[r][i] = Script(recorded'[r], Outcome(r)', i)
  BY <1>8 DEF a, after
<1>13. reader'[r] \in {"none", "reading"} =>
          /\ Len(received'[r]) + Len(queue'[r]) = Sent(r)'
          /\ \A i \in 1..Len(queue'[r]) :
                queue'[r][i] = Script(recorded'[r], Outcome(r)', Len(received'[r]) + i)
  BY <1>3, <1>9, <1>10 DEF a, b, after
<1>14. QED
  BY <1>11, <1>12, <1>13 DEF Following

\* Storing the run of a request.
LEMMA Storing ==
    ASSUME Types, NEW r \in Requests,
           Store!Put([id |-> IdOf[r], owner |-> r])
    PROVE  /\ finished' \in Seq([id : Ids, owner : Requests])
           /\ Len(finished') = Len(finished) + 1
           /\ \A s \in Requests : Stored(s)' <=> Stored(s) \/ s = r
<1> DEFINE a == [id |-> IdOf[r], owner |-> r]
<1>1. a \in [id : Ids, owner : Requests] /\ a.owner = r
  BY RuntimeAssumption
<1>2. finished' = Append(finished, a) /\ finished \in Seq([id : Ids, owner : Requests])
  BY DEF Store!Put, Types
<1> HIDE DEF a
<1>3. /\ finished' \in Seq([id : Ids, owner : Requests])
      /\ Len(finished') = Len(finished) + 1
      /\ \A i \in 1..Len(finished) : finished'[i] = finished[i]
      /\ finished'[Len(finished) + 1] = a
  BY <1>1, <1>2, AppendAt
<1>4. Len(finished) \in Nat
  BY <1>2
<1>5. \A i \in 1..(Len(finished) + 1) : i \in 1..Len(finished) \/ i = Len(finished) + 1
  BY <1>4
<1>6. Stored(r)'
  BY <1>1, <1>3, <1>4 DEF Stored
<1>7. ASSUME NEW s \in Requests, Stored(s) PROVE Stored(s)'
  BY <1>3, <1>4, <1>7 DEF Stored
<1>8. ASSUME NEW s \in Requests, s # r, Stored(s)' PROVE Stored(s)
  BY <1>1, <1>3, <1>5, <1>8 DEF Stored
<1>9. QED
  BY <1>3, <1>6, <1>7, <1>8

LEMMA TypesKept == Inv /\ [Next]_vars => Types'
<1> SUFFICES ASSUME Inv, [Next]_vars PROVE Types'
  OBVIOUS
<1> USE DEF Inv, Labels
<1>1. ASSUME NEW r \in Requests, Start(r) PROVE Types'
  BY <1>1 DEF Start, Goto, Types, store
<1>2. ASSUME NEW r \in Requests, RecordEvent(r) PROVE Types'
  <2>1. TraceEvent(recorded[r]) \in Published
    BY DEF Types, TraceEvent, Event, Published
  <2>2. QED
    BY <1>2, <2>1, Publishing DEF RecordEvent, Types, store
<1>3. ASSUME NEW r \in Requests, RunReturns(r) \/ RunRaises(r) \/ CountRun(r) PROVE Types'
  <2>1. PICK label \in Labels : worker' = [worker EXCEPT ![r] = label]
    BY <1>3 DEF RunReturns, RunRaises, CountRun, Goto
  <2>2. UNCHANGED <<length, recorded, queue, reader, received, finished>> /\ counted' \in Nat
    BY <1>3 DEF RunReturns, RunRaises, CountRun, Types, watching, store
  <2>3. QED
    BY <2>1, <2>2 DEF Types
<1>4. ASSUME NEW r \in Requests, StoreRun(r) PROVE Types'
  BY <1>4, Storing DEF StoreRun, Goto, Types, watching
<1>5. ASSUME NEW r \in Requests, ReportDone(r) \/ ReportError(r) \/ PublishEnd(r) PROVE Types'
  <2>1. {Done, Error, End} \subseteq Published
    BY DEF Done, Error, End, Event, Published
  <2>2. QED
    BY <1>5, <2>1, Publishing DEF ReportDone, ReportError, PublishEnd, Goto, Types, store
<1>6. ASSUME NEW r \in Streams, Drain(r) PROVE Types'
  <2>1. queue[r] \in Seq(Published) /\ queue[r] # <<>> /\ received[r] \in Seq(Published)
    BY <1>6 DEF Drain, Types
  <2>2. Tail(queue[r]) \in Seq(Published) /\ Append(received[r], Head(queue[r])) \in Seq(Published)
    BY <2>1
  <2>3. QED
    BY <1>6, <2>2 DEF Drain, Types, store
<1>7. ASSUME NEW r \in Streams, Disconnect(r) PROVE Types'
  BY <1>7 DEF Disconnect, Types, store
<1>8. ASSUME NEW r \in Streams, LoseOne(r) PROVE Types'
  <2>1. Tail(queue[r]) \in Seq(Published)
    BY <1>8 DEF LoseOne, Types
  <2>2. QED
    BY <1>8, <2>1 DEF LoseOne, Types, store
<1>9. CASE UNCHANGED vars
  BY <1>9 DEF vars, watching, store, Types
<1>10. QED
  BY <1>1, <1>2, <1>3, <1>4, <1>5, <1>6, <1>7, <1>8, <1>9 DEF Next, WorkerStep

LEMMA StagesKept == Inv /\ [Next]_vars => Stages'
<1> SUFFICES ASSUME Inv, [Next]_vars PROVE Stages'
  OBVIOUS
<1> USE DEF Inv
<1>1. ASSUME NEW r \in Requests, Start(r) PROVE Stages'
  BY <1>1, RuntimeAssumption DEF Start, Goto, Types, Stages, Stored, store
<1>2. ASSUME NEW r \in Requests, RecordEvent(r) PROVE Stages'
  BY <1>2 DEF RecordEvent, Types, Stages, Stored, store
<1>3. ASSUME NEW r \in Requests, RunReturns(r) \/ RunRaises(r) \/ CountRun(r) PROVE Stages'
  <2>1. UNCHANGED <<length, recorded, reader, finished>>
    BY <1>3 DEF RunReturns, RunRaises, CountRun, watching, store
  <2>2. /\ \A s \in Requests \ {r} : worker'[s] = worker[s]
        /\ worker'[r] \in {"store", "failed", "report", "end", "ended"}
        /\ worker'[r] = "store" => worker[r] = "running" /\ recorded[r] = length[r]
        /\ worker'[r] = "failed" => worker[r] = "running"
        /\ worker'[r] = "report" => worker[r] = "count"
    BY <1>3 DEF RunReturns, RunRaises, CountRun, Goto, Types
  <2>3. QED
    BY <2>1, <2>2 DEF Stages, Stored
<1>4. ASSUME NEW r \in Requests, StoreRun(r) PROVE Stages'
  BY <1>4, Storing DEF StoreRun, Goto, Types, Stages, watching
<1>5. ASSUME NEW r \in Requests, ReportDone(r) \/ ReportError(r) \/ PublishEnd(r) PROVE Stages'
  <2>1. UNCHANGED <<length, recorded, reader, finished>>
    BY <1>5 DEF ReportDone, ReportError, PublishEnd, store
  <2>2. /\ \A s \in Requests \ {r} : worker'[s] = worker[s]
        /\ worker'[r] \in {"end", "ended"}
    BY <1>5 DEF ReportDone, ReportError, PublishEnd, Goto, Types
  <2>3. QED
    BY <2>1, <2>2 DEF Stages, Stored
<1>6. ASSUME NEW r \in Streams, Drain(r) \/ Disconnect(r) \/ LoseOne(r) PROVE Stages'
  <2>1. UNCHANGED <<length, recorded, worker, finished>>
    BY <1>6 DEF Drain, Disconnect, LoseOne, store
  <2>2. reader[r] # "none" /\ \A s \in Streams \ {r} : reader'[s] = reader[s]
    BY <1>6 DEF Drain, Disconnect, LoseOne, Types
  <2>3. QED
    BY <2>1, <2>2 DEF Stages, Stored
<1>7. CASE UNCHANGED vars
  BY <1>7 DEF vars, watching, store, Stages, Stored
<1>8. QED
  BY <1>1, <1>2, <1>3, <1>4, <1>5, <1>6, <1>7 DEF Next, WorkerStep

LEMMA CountKept == Inv /\ [Next]_vars => CountInv'
<1> SUFFICES ASSUME Inv, [Next]_vars PROVE CountInv'
  OBVIOUS
<1>1. Types /\ CountInv /\ counted \in Nat
  BY DEF Inv, Types
<1>2. ASSUME NEW r \in Requests, StoreRun(r) PROVE CountInv'
  <2>1. worker[r] = "store" /\ Goto(r, "count") /\ counted' = counted
    BY <1>2 DEF StoreRun
  <2>2. Cardinality(Counted) \in Nat /\ Cardinality(Counted') = Cardinality(Counted) + 1
    BY <1>1, <2>1, CountedMoves DEF Labels
  <2>3. Len(finished') = Len(finished) + 1
    BY <1>1, <1>2, Storing DEF StoreRun
  <2>4. QED
    BY <1>1, <2>1, <2>2, <2>3 DEF CountInv
<1>3. ASSUME NEW r \in Requests, CountRun(r) PROVE CountInv'
  <2>1. worker[r] = "count" /\ counted' = counted + 1 /\ finished' = finished
    BY <1>3 DEF CountRun, store
  <2>2. Cardinality(Counted) \in Nat /\ Cardinality(Counted') = Cardinality(Counted) - 1
    BY <1>1, <1>3, CountedMoves DEF CountRun, Labels
  <2>3. QED
    BY <1>1, <2>1, <2>2 DEF CountInv
<1>4. ASSUME UNCHANGED <<counted, finished>>, Counted' = Counted PROVE CountInv'
  BY <1>1, <1>4 DEF CountInv
<1>5. ASSUME NEW r \in Requests,
             \/ Start(r) \/ RunReturns(r) \/ RunRaises(r)
             \/ ReportDone(r) \/ ReportError(r) \/ PublishEnd(r)
      PROVE  CountInv'
  <2>1. UNCHANGED <<counted, finished>>
    BY <1>5 DEF Start, RunReturns, RunRaises, ReportDone, ReportError, PublishEnd, store
  <2>2. worker[r] # "count" /\ \E label \in Labels \ {"count"} : Goto(r, label)
    BY <1>5 DEF Start, RunReturns, RunRaises, ReportDone, ReportError, PublishEnd, Labels
  <2>3. QED
    BY <1>1, <1>4, <2>1, <2>2, CountedMoves
<1>6. ASSUME NEW r \in Requests, RecordEvent(r) PROVE CountInv'
  BY <1>4, <1>6 DEF RecordEvent, Counted, store
<1>7. ASSUME NEW r \in Streams, Drain(r) \/ Disconnect(r) \/ LoseOne(r) PROVE CountInv'
  BY <1>4, <1>7 DEF Drain, Disconnect, LoseOne, Counted, store
<1>8. CASE UNCHANGED vars
  BY <1>4, <1>8 DEF vars, Counted, store
<1>9. QED
  BY <1>2, <1>3, <1>5, <1>6, <1>7, <1>8 DEF Next, WorkerStep

LEMMA FollowingKept == Inv /\ [Next]_vars => \A s \in Streams : Following(s)'
<1> SUFFICES ASSUME Inv, [Next]_vars, NEW s \in Streams PROVE Following(s)'
  OBVIOUS
<1>1. /\ Types /\ Stages /\ Following(s) /\ s \in Requests
      /\ recorded[s] \in Nat /\ received[s] \in Seq(Published) /\ queue[s] \in Seq(Published)
  BY RuntimeAssumption DEF Inv, Types
<1>2. \* A step of another request.
      ASSUME UNCHANGED <<worker[s], recorded[s], queue[s], reader[s], received[s]>>,
             Stored(s)' <=> Stored(s)
      PROVE  Following(s)'
  BY <1>1, <1>2, OthersFollow
<1>3. \* The worker of s goes on without publishing.
      ASSUME UNCHANGED <<recorded[s], queue[s], received[s]>>, Sent(s)' = Sent(s),
             Stored(s)' <=> Stored(s),
             reader'[s] = reader[s] \/ (reader[s] = "none" /\ reader'[s] = "reading")
      PROVE  Following(s)'
  <2>1. Outcome(s)' = Outcome(s)
    BY <1>3 DEF Outcome
  <2>2. QED
    BY <1>1, <1>3, <2>1 DEF Following
<1>4. ASSUME NEW r \in Requests, Start(r) PROVE Following(s)'
  <2>1. Stored(s)' <=> Stored(s)
    BY <1>4 DEF Start, Stored, store
  <2>2. UNCHANGED <<recorded[s], queue[s], received[s]>> /\ Sent(s)' = Sent(s)
    BY <1>1, <1>4 DEF Start, Goto, Types, Sent
  <2>3. reader'[s] = reader[s] \/ (reader[s] = "none" /\ reader'[s] = "reading")
    BY <1>1, <1>4 DEF Start, Types, Stages
  <2>4. QED
    BY <1>3, <2>1, <2>2, <2>3
<1>5. ASSUME NEW r \in Requests, RunReturns(r) \/ RunRaises(r) \/ CountRun(r)
      PROVE  Following(s)'
  <2>1. Stored(s)' <=> Stored(s)
    BY <1>5 DEF RunReturns, RunRaises, CountRun, Stored, store
  <2>2. UNCHANGED <<recorded[s], queue[s], received[s], reader[s]>>
    BY <1>5 DEF RunReturns, RunRaises, CountRun, watching
  <2>3. CASE s = r
    <3>1. Sent(s)' = Sent(s)
      BY <1>1, <1>5, <2>2, <2>3 DEF RunReturns, RunRaises, CountRun, Goto, Types, Sent
    <3>2. QED
      BY <1>3, <2>1, <2>2, <3>1
  <2>4. CASE s # r
    <3>1. worker'[s] = worker[s]
      BY <1>1, <1>5, <2>4 DEF RunReturns, RunRaises, CountRun, Goto, Types
    <3>2. QED
      BY <1>2, <2>1, <2>2, <3>1
  <2>5. QED
    BY <2>3, <2>4
<1>6. ASSUME NEW r \in Requests, StoreRun(r) PROVE Following(s)'
  <2>1. /\ UNCHANGED <<recorded[s], queue[s], received[s], reader[s]>>
        /\ worker[r] = "store" /\ worker' = [worker EXCEPT ![r] = "count"]
    BY <1>6 DEF StoreRun, Goto, watching
  <2>2. \A q \in Requests : Stored(q)' <=> Stored(q) \/ q = r
    BY <1>1, <1>6, Storing DEF StoreRun
  <2>3. CASE s # r
    <3>1. worker'[s] = worker[s]
      BY <1>1, <2>1, <2>3 DEF Types
    <3>2. QED
      BY <1>1, <1>2, <2>1, <2>2, <2>3, <3>1
  <2>4. CASE s = r
    <3>1. Sent(s)' = Sent(s) /\ Sent(s) = recorded[s]
      BY <1>1, <2>1, <2>4 DEF Types, Sent
    <3>2. \A k \in 1..recorded[s] :
             Script(recorded'[s], Outcome(s)', k) = Script(recorded[s], Outcome(s), k)
      BY <1>1, <2>1 DEF Script
    <3>3. /\ \A i \in 1..Len(received[s]) : i \in 1..recorded[s]
          /\ reader[s] \in {"none", "reading"} =>
                \A i \in 1..Len(queue[s]) : Len(received[s]) + i \in 1..recorded[s]
      <4> DEFINE a == Len(received[s])
                 b == Len(queue[s])
      <4>1. a \in Nat /\ b \in Nat
        BY <1>1
      <4>2. a <= Sent(s) /\ (reader[s] \in {"none", "reading"} => a + b = Sent(s))
        BY <1>1 DEF Following
      <4> HIDE DEF a, b
      <4>3. /\ \A i \in 1..a : i \in 1..recorded[s]
            /\ a + b = recorded[s] => \A i \in 1..b : a + i \in 1..recorded[s]
        BY <1>1, <3>1, <4>1, <4>2
      <4>4. QED
        BY <3>1, <4>2, <4>3 DEF a, b
    <3>4. QED
      BY <1>1, <2>1, <3>1, <3>2, <3>3 DEF Following
  <2>5. QED
    BY <2>3, <2>4
<1>7. ASSUME NEW r \in Requests, NEW event \in Published, Emit(r, event),
             UNCHANGED <<reader, received>>, Stored(s)' <=> Stored(s),
             \A q \in Requests \ {r} : UNCHANGED <<worker[q], recorded[q]>>,
             s = r => /\ Sent(s)' = Sent(s) + 1
                      /\ recorded'[s] \in Nat /\ recorded'[s] >= recorded[s]
                      /\ reader[s] = "closed" => recorded'[s] = recorded[s]
                      /\ \A k \in 1..Sent(s) : Script(recorded'[s], Outcome(s)', k) =
                                                  Script(recorded[s], Outcome(s), k)
                      /\ Script(recorded'[s], Outcome(s)', Sent(s) + 1) = event
      PROVE  Following(s)'
  <2>1. /\ \A q \in Streams \ {r} : queue'[q] = queue[q]
        /\ r \in Streams => queue'[r] = Append(queue[r], event)
    BY <1>7, Publishing
  <2>2. CASE s # r
    BY <1>1, <1>2, <1>7, <2>1, <2>2
  <2>3. CASE s = r
    BY <1>1, <1>7, <2>1, <2>3, NextFollows
  <2>4. QED
    BY <2>2, <2>3
<1>8. ASSUME NEW r \in Requests, RecordEvent(r) PROVE Following(s)'
  <2>1. TraceEvent(recorded[r]) \in Published /\ Emit(r, TraceEvent(recorded[r]))
    BY <1>1, <1>8 DEF RecordEvent, Types, TraceEvent, Event, Published
  <2>2. /\ UNCHANGED <<reader, received, worker>> /\ worker[r] = "running"
        /\ recorded' = [recorded EXCEPT ![r] = @ + 1]
    BY <1>8 DEF RecordEvent
  <2>3. (Stored(s)' <=> Stored(s)) /\ Outcome(s)' = Outcome(s)
    BY <1>8 DEF RecordEvent, Stored, Outcome, store
  <2>4. \A q \in Requests \ {r} : UNCHANGED <<worker[q], recorded[q]>>
    BY <1>1, <2>2 DEF Types
  <2>5. ASSUME s = r
        PROVE  /\ Sent(s) = recorded[s] /\ Sent(s)' = Sent(s) + 1
               /\ recorded'[s] = recorded[s] + 1
    BY <1>1, <2>2, <2>5 DEF Types, Sent
  <2>6. s = r => reader[s] # "closed"
    BY <1>1, <2>5 DEF Following
  <2>7. ASSUME s = r
        PROVE  /\ \A k \in 1..Sent(s) : Script(recorded'[s], Outcome(s)', k) =
                                           Script(recorded[s], Outcome(s), k)
               /\ Script(recorded'[s], Outcome(s)', Sent(s) + 1) = TraceEvent(recorded[r])
    <3>1. Sent(s) = recorded[s] /\ recorded'[s] = recorded[s] + 1
      BY <2>5, <2>7
    <3>2. \A k \in 1..recorded[s] : k <= recorded[s] /\ k <= recorded[s] + 1
      BY <1>1
    <3>3. recorded[s] + 1 <= recorded[s] + 1 /\ (recorded[s] + 1) - 1 = recorded[s]
      BY <1>1
    <3>4. QED
      BY <2>7, <3>1, <3>2, <3>3 DEF Script
  <2>8. s = r => recorded'[s] \in Nat /\ recorded'[s] >= recorded[s]
    BY <1>1, <2>5
  <2>9. QED
    BY <1>7, <2>1, <2>2, <2>3, <2>4, <2>5, <2>6, <2>7, <2>8
<1>9. ASSUME NEW r \in Requests, ReportDone(r) \/ ReportError(r) \/ PublishEnd(r)
      PROVE  Following(s)'
  <2> DEFINE event == IF worker[r] = "report" THEN Done
                      ELSE IF worker[r] = "failed" THEN Error ELSE End
  <2>1. event \in Published /\ Emit(r, event)
    BY <1>9 DEF ReportDone, ReportError, PublishEnd, Done, Error, End, Event, Published
  <2>2. UNCHANGED <<reader, received, recorded, finished>>
    BY <1>9 DEF ReportDone, ReportError, PublishEnd, store
  <2>3. (Stored(s)' <=> Stored(s)) /\ Outcome(s)' = Outcome(s)
    BY <2>2 DEF Stored, Outcome
  <2>4. \A q \in Requests \ {r} : UNCHANGED <<worker[q], recorded[q]>>
    BY <1>1, <1>9, <2>2 DEF ReportDone, ReportError, PublishEnd, Goto, Types
  <2>5. /\ worker[r] \in {"report", "failed", "end"}
        /\ worker'[r] = IF worker[r] = "end" THEN "ended" ELSE "end"
    BY <1>1, <1>9 DEF ReportDone, ReportError, PublishEnd, Goto, Types
  <2>6. s = r => Sent(s)' = Sent(s) + 1
    BY <1>1, <2>2, <2>5 DEF Sent
  <2>7. s = r => Script(recorded'[s], Outcome(s)', Sent(s) + 1) = event
    BY <1>1, <2>2, <2>3, <2>5 DEF Sent, Script, Outcome, Stages
  <2>8. QED
    BY <1>1, <1>7, <2>1, <2>2, <2>3, <2>4, <2>6, <2>7
<1>10. ASSUME NEW r \in Streams, Drain(r) PROVE Following(s)'
  <2>1. /\ UNCHANGED <<worker, recorded, finished>>
        /\ reader[r] = "reading" /\ queue[r] # <<>>
        /\ queue' = [queue EXCEPT ![r] = Tail(@)]
    BY <1>10 DEF Drain, store
  <2>2. (Stored(s)' <=> Stored(s)) /\ Outcome(s)' = Outcome(s) /\ Sent(s)' = Sent(s)
    BY <2>1 DEF Stored, Outcome, Sent
  <2>3. CASE s # r
    <3>1. UNCHANGED <<queue[s], reader[s], received[s]>>
      BY <1>1, <1>10, <2>3 DEF Drain, Types
    <3>2. QED
      BY <1>2, <2>1, <2>2, <3>1
  <2>4. CASE s = r
    <3> DEFINE a == Len(received[s])
               b == Len(queue[s])
               next(k) == Script(recorded[s], Outcome(s), k)
    <3>1. a \in Nat /\ b \in Nat /\ b > 0
      BY <1>1, <2>1, <2>4
    <3>2. /\ a + b = Sent(s) /\ a <= recorded[s] + 1
          /\ \A i \in 1..a : received[s][i] = next(i)
          /\ \A i \in 1..b : queue[s][i] = next(a + i)
      BY <1>1, <2>1, <2>4 DEF Following
    <3>3. /\ Head(queue[s]) = queue[s][1] /\ queue[s][1] \in Published
          /\ Len(Tail(queue[s])) = b - 1
          /\ \A i \in 1..(b - 1) : Tail(queue[s])[i] = queue[s][i + 1]
      BY <1>1, <2>1, <2>4
    <3>4. queue'[s] = Tail(queue[s])
      BY <2>1, <2>4 DEF Inv, Types
    <3>5. Head(queue[s]) = next(a + 1) /\ (next(a + 1) = End <=> a + 1 > recorded[s] + 1)
      <4>1. Outcome(s) \in {Done, Error}
        BY DEF Outcome
      <4>2. QED
        BY <1>1, <3>1, <3>2, <3>3, <4>1, ScriptTypes
    <3>6. CASE Head(queue[s]) = End
      <4>1. reader'[s] = "closed" /\ received'[s] = received[s]
        BY <1>1, <1>10, <2>4, <3>6 DEF Drain, Types
      <4>2. a = recorded[s] + 1
        BY <1>1, <3>1, <3>2, <3>5, <3>6
      <4>3. QED
        BY <1>1, <2>1, <2>2, <3>1, <3>2, <4>1, <4>2 DEF Following
    <3>7. CASE Head(queue[s]) # End
      <4>1. reader'[s] = reader[s] /\ received'[s] = Append(received[s], Head(queue[s]))
        BY <1>1, <1>10, <2>4, <3>7 DEF Drain, Types
      <4>2. /\ Len(received'[s]) = a + 1
            /\ \A i \in 1..a : received'[s][i] = received[s][i]
            /\ received'[s][a + 1] = Head(queue[s])
        BY <1>1, <3>3, <4>1, AppendAt
      <4> HIDE DEF a, b, next
      <4>3. \A i \in 1..(a + 1) : received'[s][i] = next(i)
        <5>1. \A i \in 1..(a + 1) : i \in 1..a \/ i = a + 1
          BY <3>1
        <5>2. QED
          BY <3>2, <3>5, <4>2, <5>1
      <4>4. \A i \in 1..(b - 1) : queue'[s][i] = next((a + 1) + i)
        <5>1. \A i \in 1..(b - 1) : i + 1 \in 1..b /\ a + (i + 1) = (a + 1) + i
          BY <3>1
        <5>2. \A i \in 1..(b - 1) : queue'[s][i] = queue[s][i + 1] /\ queue[s][i + 1] = next(a + (i + 1))
          BY <3>2, <3>3, <3>4, <5>1
        <5>3. QED
          BY <5>1, <5>2
      <4>5. /\ a + 1 <= Sent(s) /\ a + 1 <= recorded[s] + 1
            /\ (a + 1) + (b - 1) = Sent(s)
        BY <1>1, <3>1, <3>2, <3>5, <3>7
      <4>6. Len(queue'[s]) = b - 1
        BY <3>3, <3>4
      <4>7. reader'[s] = "reading" /\ recorded'[s] = recorded[s]
        BY <2>1, <2>4, <4>1
      <4>8. QED
        BY <2>2, <4>2, <4>3, <4>4, <4>5, <4>6, <4>7 DEF Following, next
    <3>8. QED
      BY <3>6, <3>7
  <2>5. QED
    BY <2>3, <2>4
<1>11. ASSUME NEW r \in Streams, Disconnect(r) \/ LoseOne(r) PROVE Following(s)'
  <2>1. UNCHANGED <<worker, recorded, received, finished>>
    BY <1>11 DEF Disconnect, LoseOne, store
  <2>2. (Stored(s)' <=> Stored(s)) /\ Outcome(s)' = Outcome(s) /\ Sent(s)' = Sent(s)
    BY <2>1 DEF Stored, Outcome, Sent
  <2>3. CASE s # r
    <3>1. UNCHANGED <<queue[s], reader[s]>>
      BY <1>1, <1>11, <2>3 DEF Disconnect, LoseOne, Types
    <3>2. QED
      BY <1>2, <2>1, <2>2, <3>1
  <2>4. CASE s = r
    <3>1. reader'[s] \in {"leaving", "gone"}
      BY <1>1, <1>11, <2>4 DEF Disconnect, LoseOne, Types
    <3>2. QED
      BY <1>1, <2>1, <2>2, <3>1 DEF Following
  <2>5. QED
    BY <2>3, <2>4
<1>12. CASE UNCHANGED vars
  <2>1. (Stored(s)' <=> Stored(s)) /\ UNCHANGED <<worker, recorded, queue, reader, received>>
    BY <1>12 DEF vars, watching, store, Stored
  <2>2. QED
    BY <1>2, <2>1
<1>13. QED
  BY <1>4, <1>5, <1>6, <1>8, <1>9, <1>10, <1>11, <1>12 DEF Next, WorkerStep

LEMMA InvAlways == Spec => []Inv
<1>1. Inv /\ [Next]_vars => Inv'
  BY TypesKept, StagesKept, CountKept, FollowingKept DEF Inv
<1>2. QED
  BY <1>1, Initially, PTL DEF Spec

-----------------------------------------------------------------------------
(* The theorems.                                                           *)

(***************************************************************************)
(* What the client of a stream is sent is its run, in order and without a  *)
(* hole, and then how it ended, for runs of any length, any queue, and any *)
(* number of other requests, whenever clients leave.                       *)
(***************************************************************************)
THEOREM StreamsAreRuns == Spec => []StreamIsTheRun
<1>1. ASSUME Inv, NEW r \in Streams
      PROVE  LET sent == received[r]
                 n == Len(sent)
                 over == n > 0 /\ sent[n] \in {Done, Error}
                 traces == IF over THEN n - 1 ELSE n
             IN  /\ \A k \in 1..traces : sent[k] = TraceEvent(k - 1)
                 /\ over => traces = recorded[r]
                 /\ over => (sent[n] = Done <=> Stored(r))
                 /\ reader[r] = "closed" => over
  <2> DEFINE n == Len(received[r])
             over == n > 0 /\ received[r][n] \in {Done, Error}
  <2>1. /\ recorded[r] \in Nat /\ n \in Nat /\ Outcome(r) \in {Done, Error}
        /\ Outcome(r) = Done <=> Stored(r)
    BY <1>1, RuntimeAssumption DEF Inv, Types, Outcome, Done, Error, Event
  <2>2. /\ n <= recorded[r] + 1
        /\ \A i \in 1..n : received[r][i] = Script(recorded[r], Outcome(r), i)
        /\ reader[r] = "closed" => n = recorded[r] + 1
    BY <1>1 DEF Inv, Following
  <2> HIDE DEF n
  <2>3. over <=> n = recorded[r] + 1
    <3>1. CASE n = 0
      BY <2>1, <3>1
    <3>2. CASE n # 0
      <4>1. n \in Nat \ {0} /\ received[r][n] = Script(recorded[r], Outcome(r), n)
        BY <2>1, <2>2, <3>2
      <4>2. Script(recorded[r], Outcome(r), n) \in {Done, Error} <=> n = recorded[r] + 1
        BY <2>1, <4>1, ScriptTypes
      <4>3. QED
        BY <2>1, <4>1, <4>2
    <3>3. QED
      BY <3>1, <3>2
  <2>4. \A k \in 1..n : k <= recorded[r] => received[r][k] = TraceEvent(k - 1)
    BY <2>1, <2>2 DEF Script
  <2>5. n = recorded[r] + 1 => received[r][n] = Outcome(r)
    BY <2>1, <2>2 DEF Script
  <2>6. QED
    BY <2>1, <2>2, <2>3, <2>4, <2>5 DEF n
<1>2. Inv => StreamIsTheRun
  BY <1>1 DEF StreamIsTheRun
<1>3. QED
  BY <1>2, InvAlways, PTL

(***************************************************************************)
(* Every stored run is counted once, by whichever route it was performed,  *)
(* and was performed to its end.                                           *)
(***************************************************************************)
THEOREM CountsHold == Spec => []CountsMatchStore
<1>1. ASSUME Inv PROVE CountsMatchStore
  <2>1. counted + Cardinality({r \in Requests : worker[r] = "count"}) = Len(finished)
    BY <1>1 DEF Inv, CountInv, Counted
  <2>2. ASSUME NEW i \in 1..Len(finished)
        PROVE  recorded[finished[i].owner] = length[finished[i].owner]
    <3>1. finished[i].owner \in Requests
      <4>1. finished \in Seq([id : Ids, owner : Requests])
        BY <1>1 DEF Inv, Types
      <4>2. finished[i] \in [id : Ids, owner : Requests]
        BY <4>1, ElementOfSeq
      <4>3. QED
        BY <4>2
    <3>2. Stored(finished[i].owner)
      BY DEF Stored
    <3>3. QED
      BY <1>1, <3>1, <3>2 DEF Inv, Stages
  <2>3. QED
    BY <2>1, <2>2 DEF CountsMatchStore
<1>2. QED
  BY <1>1, InvAlways, PTL

-----------------------------------------------------------------------------
(* What was told can be fetched.                                           *)

LEMMA SameStore ==
    /\ Store!Artifact = [id : Ids, owner : Requests] /\ History!Artifact = [id : Ids, owner : Requests]
    /\ Store!StoreInit <=> History!StoreInit
    /\ \A a : Store!Put(a) <=> History!Put(a)
    /\ \A i : Store!Served(i) <=> History!Served(i)
<1>1. \A S : Store!Cardinality(S) = History!Cardinality(S)
  BY DEF Store!Cardinality, History!Cardinality
<1>2. \A i : Store!Served(i) <=> History!Served(i)
  BY <1>1 DEF Store!Served, History!Served
<1>3. \A a : Store!Put(a) <=> History!Put(a)
  BY DEF Store!Put, Store!Stored, Store!EvictOldest, Store!Without, Store!At,
         History!Put, History!Stored, History!EvictOldest, History!Without, History!At
<1>4. QED
  BY <1>2, <1>3 DEF Store!Artifact, History!Artifact, Store!StoreInit, History!StoreInit

LEMMA ServingInitially == Init => ServingInv
<1> SUFFICES ASSUME Init PROVE ServingInv
  OBVIOUS
<1>1. History!StoreInv
  <2>1. History!StoreInit /\ StoreCapacity \in Nat \ {0}
    BY SameStore, RuntimeAssumption DEF Init
  <2>2. QED
    BY <2>1, History!StoreInvInit
<1>2. QueueBound
  BY RuntimeAssumption DEF Init, QueueBound
<1>3. CallsEnd
  BY DEF Init, CallsEnd
<1>4. QED
  BY <1>1, <1>2, <1>3 DEF ServingInv

LEMMA StoreInvKept == Inv /\ ServingInv /\ [Next]_vars => History!StoreInv'
<1> SUFFICES ASSUME Inv, ServingInv, [Next]_vars PROVE History!StoreInv'
  OBVIOUS
<1>1. History!StoreInv
  BY DEF ServingInv
<1>2. ASSUME NEW r \in Requests, StoreRun(r) PROVE History!StoreInv'
  <2>1. [id |-> IdOf[r], owner |-> r] \in History!Artifact
    BY RuntimeAssumption, SameStore
  <2>2. History!Put([id |-> IdOf[r], owner |-> r])
    BY <1>2, SameStore DEF StoreRun
  <2>3. StoreCapacity \in Nat \ {0}
    BY RuntimeAssumption
  <2>4. QED
    BY ONLY <1>1, <2>1, <2>2, <2>3, History!StoreInvPut
<1>3. ASSUME UNCHANGED store PROVE History!StoreInv'
  BY <1>1, <1>3 DEF store, History!StoreInv
<1>4. ASSUME NEW r \in Requests,
             \/ Start(r) \/ RecordEvent(r) \/ RunReturns(r) \/ RunRaises(r) \/ CountRun(r)
             \/ ReportDone(r) \/ ReportError(r) \/ PublishEnd(r)
      PROVE  UNCHANGED store
  BY <1>4 DEF Start, RecordEvent, RunReturns, RunRaises, CountRun, ReportDone, ReportError, PublishEnd
<1>5. ASSUME NEW r \in Streams, Drain(r) \/ Disconnect(r) \/ LoseOne(r) PROVE UNCHANGED store
  BY <1>5 DEF Drain, Disconnect, LoseOne
<1>6. UNCHANGED vars => UNCHANGED store
  BY DEF vars
<1>7. QED
  BY <1>2, <1>3, <1>4, <1>5, <1>6 DEF Next, WorkerStep

LEMMA QueueBoundKept == Inv /\ ServingInv /\ [Next]_vars => QueueBound'
<1> SUFFICES ASSUME Inv, ServingInv, [Next]_vars, NEW s \in Streams
             PROVE  Len(queue'[s]) <= QueueCapacity
  BY DEF QueueBound
<1>1. /\ queue \in [Streams -> Seq(Published)] /\ queue[s] \in Seq(Published)
      /\ Len(queue[s]) <= QueueCapacity /\ QueueCapacity \in Nat
  BY RuntimeAssumption DEF Inv, Types, ServingInv, QueueBound
<1>2. ASSUME NEW r \in Requests, NEW event, Emit(r, event)
      PROVE  Len(queue'[s]) <= QueueCapacity
  <2>1. CASE s # r \/ r \notin Streams
    BY <1>1, <1>2, <2>1 DEF Emit
  <2>2. CASE s = r
    <3>1. Len(queue[s]) < QueueCapacity /\ queue'[s] = Append(queue[s], event)
      BY <1>1, <1>2, <2>2 DEF Emit
    <3>2. Len(Append(queue[s], event)) = Len(queue[s]) + 1
      BY <1>1
    <3>3. Len(queue[s]) \in Nat
      BY <1>1
    <3>4. QED
      BY <1>1, <3>1, <3>2, <3>3
  <2>3. QED
    BY <2>1, <2>2
<1>3. ASSUME NEW r \in Requests,
             RecordEvent(r) \/ ReportDone(r) \/ ReportError(r) \/ PublishEnd(r)
      PROVE  Len(queue'[s]) <= QueueCapacity
  BY <1>2, <1>3 DEF RecordEvent, ReportDone, ReportError, PublishEnd
<1>4. ASSUME NEW r \in Requests,
             Start(r) \/ RunReturns(r) \/ RunRaises(r) \/ StoreRun(r) \/ CountRun(r)
      PROVE  queue' = queue
  BY <1>4 DEF Start, RunReturns, RunRaises, StoreRun, CountRun, watching
<1>5. ASSUME NEW r \in Streams, Drain(r) \/ LoseOne(r) PROVE Len(queue'[s]) <= QueueCapacity
  <2>1. queue[r] # <<>> /\ queue' = [queue EXCEPT ![r] = Tail(queue[r])]
    BY <1>5 DEF Drain, LoseOne
  <2>2. CASE s = r
    <3>1. Len(Tail(queue[s])) = Len(queue[s]) - 1 /\ Len(queue[s]) \in Nat
      BY <1>1, <2>1, <2>2
    <3>2. queue'[s] = Tail(queue[s])
      BY <1>1, <2>1, <2>2
    <3>3. QED
      BY <1>1, <3>1, <3>2
  <2>3. CASE s # r
    BY <1>1, <2>1, <2>3
  <2>4. QED
    BY <2>2, <2>3
<1>6. ASSUME NEW r \in Streams, Disconnect(r) PROVE queue' = queue
  BY <1>6 DEF Disconnect
<1>7. UNCHANGED vars => queue' = queue
  BY DEF vars, watching
<1>8. QED
  BY <1>1, <1>3, <1>4, <1>5, <1>6, <1>7 DEF Next, WorkerStep

LEMMA CallsEndKept == Inv /\ ServingInv /\ [Next]_vars => CallsEnd'
<1> SUFFICES ASSUME Inv, ServingInv, [Next]_vars PROVE CallsEnd'
  OBVIOUS
<1>1. /\ Types /\ Stages /\ CallsEnd /\ Streams \subseteq Requests
  BY RuntimeAssumption DEF Inv, ServingInv
<1>2. ASSUME NEW r \in Requests, Start(r) \/ RunReturns(r) PROVE CallsEnd'
  <2>1. /\ UNCHANGED <<length, recorded, finished>>
        /\ worker' \in {[worker EXCEPT ![r] = "running"], [worker EXCEPT ![r] = "store"]}
    BY <1>2 DEF Start, RunReturns, Goto, store
  <2>2. QED
    BY <1>1, <2>1 DEF Types, CallsEnd, Stored
<1>3. ASSUME NEW r \in Requests, RunRaises(r) PROVE CallsEnd'
  BY <1>1, <1>3 DEF RunRaises, Goto, store, Types, CallsEnd, Stored
<1>4. ASSUME NEW r \in Requests, RecordEvent(r) PROVE CallsEnd'
  BY <1>1, <1>4 DEF RecordEvent, store, Types, CallsEnd, Stored
<1>5. ASSUME NEW r \in Requests, StoreRun(r) PROVE CallsEnd'
  <2>1. \A s \in Requests : Stored(s) => Stored(s)'
    BY <1>1, <1>5, Storing DEF StoreRun
  <2>2. UNCHANGED <<length, recorded>> /\ worker' = [worker EXCEPT ![r] = "count"]
    BY <1>5 DEF StoreRun, Goto
  <2>3. QED
    BY <1>1, <2>1, <2>2 DEF Types, CallsEnd
<1>6. ASSUME NEW r \in Requests, CountRun(r) PROVE CallsEnd'
  <2>1. Stored(r)
    BY <1>1, <1>6 DEF CountRun, Stages
  <2>2. QED
    BY <1>1, <1>6, <2>1 DEF CountRun, Goto, store, Types, CallsEnd, Stored
<1>7. ASSUME NEW r \in Requests, ReportDone(r) \/ ReportError(r) \/ PublishEnd(r)
      PROVE  CallsEnd'
  <2>1. r \in Streams
    BY <1>1, <1>7 DEF ReportDone, ReportError, PublishEnd, CallsEnd
  <2>2. /\ UNCHANGED <<length, recorded, finished>>
        /\ \A s \in Requests \ {r} : worker'[s] = worker[s]
    BY <1>1, <1>7 DEF ReportDone, ReportError, PublishEnd, Goto, store, Types
  <2>3. QED
    BY <1>1, <2>1, <2>2 DEF CallsEnd, Stored
<1>8. ASSUME NEW r \in Streams, Drain(r) \/ Disconnect(r) \/ LoseOne(r) PROVE CallsEnd'
  BY <1>1, <1>8 DEF Drain, Disconnect, LoseOne, store, CallsEnd, Stored
<1>9. CASE UNCHANGED vars
  BY <1>1, <1>9 DEF vars, store, CallsEnd, Stored
<1>10. QED
  BY <1>2, <1>3, <1>4, <1>5, <1>6, <1>7, <1>8, <1>9 DEF Next, WorkerStep

LEMMA ServingAlways == Spec => [](Inv /\ ServingInv)
<1>1. Init => ServingInv
  BY ServingInitially
<1>2. Inv /\ ServingInv /\ [Next]_vars => ServingInv'
  BY StoreInvKept, QueueBoundKept, CallsEndKept DEF ServingInv
<1>3. QED
  BY <1>1, <1>2, InvAlways, PTL DEF Spec

(***************************************************************************)
(* Every state has its shape, and the queue of a stream never holds more   *)
(* than its capacity.                                                      *)
(***************************************************************************)
THEOREM TypeCorrect == Spec => []TypeOK
<1>1. ASSUME Inv, ServingInv PROVE TypeOK
  <2>1. runs \in Seq(Store!Artifact)
    BY <1>1, SameStore DEF ServingInv, History!StoreInv, History!Tells
  <2>2. QED
    BY <1>1, <2>1, SameStore DEF Inv, Types, Labels, Published, ServingInv, QueueBound, TypeOK
<1>2. QED
  BY <1>1, ServingAlways, PTL

(***************************************************************************)
(* Whoever was told that a run ended finds it in the store for as long as  *)
(* the store's history serves it: for any requests, ids and capacities,    *)
(* however the requests interleave.                                        *)
(***************************************************************************)
THEOREM ToldAreFetchable == Spec => []ToldMeansFetchable
<1>1. ASSUME Inv, ServingInv, NEW r \in Requests, Told(r) PROVE Stored(r)
  <2>1. CASE r \in Streams
    <3>1. PICK i \in 1..Len(received[r]) : received[r][i] = Done
      BY <1>1, <2>1 DEF Told
    <3>2. received[r] \in Seq(Published) /\ recorded[r] \in Nat /\ i \in Nat \ {0}
      BY <1>1, <2>1 DEF Inv, Types
    <3>3. Outcome(r) \in {Done, Error} /\ Script(recorded[r], Outcome(r), i) = Done
      BY <1>1, <2>1, <3>1 DEF Inv, Following, Outcome
    <3>4. Outcome(r) = Done
      BY <3>2, <3>3, ScriptTypes DEF Script
    <3>5. QED
      BY <3>4 DEF Outcome, Done, Error, Event
  <2>2. CASE r \notin Streams
    BY <1>1, <2>2 DEF Told, ServingInv, CallsEnd, Inv, Types, RuntimeAssumption
  <2>3. QED
    BY <2>1, <2>2
<1>2. ASSUME Inv, ServingInv PROVE ToldMeansFetchable
  <2>1. SUFFICES ASSUME NEW r \in Requests, Told(r)
                 PROVE  \E i \in 1..Len(finished) :
                           /\ finished[i].owner = r
                           /\ Store!Served(i) => \E k \in 1..Len(runs) : runs[k] = finished[i]
    BY DEF ToldMeansFetchable
  <2>2. PICK i \in 1..Len(finished) : finished[i].owner = r
    BY <1>1, <1>2, <2>1 DEF Stored
  <2>3. Store!Served(i) => \E k \in 1..Len(runs) : runs[k] = finished[i]
    <3>1. History!StoreInv /\ (Store!Served(i) => History!Served(i))
      BY <1>2, SameStore DEF ServingInv
    <3>2. QED
      BY <3>1, History!StoreInvServes
  <2>4. QED
    BY <2>2, <2>3
<1>3. QED
  BY <1>2, ServingAlways, PTL
=============================================================================
