------------------------------ MODULE Runtime ------------------------------
(***************************************************************************)
(* Requests served at the same time: run_and_count (api/metrics.py) for    *)
(* the routes that answer when the run is over, stream_run (api/stream.py) *)
(* for the one that is watched, both over ResearchService.run              *)
(* (api/service.py), one RunStore and one metrics registry.                *)
(*                                                                         *)
(* A run is known here by the trace events it records and by how it ends;  *)
(* ResearchLoop says which.  A streamed run executes on a worker thread    *)
(* and publishes into a bounded queue that the response drains.  What the  *)
(* server does with a client that goes away is not in the repository: the  *)
(* response is no longer iterated, at once or after the queue.get already  *)
(* under way in a pool thread has come back, its item lost.                *)
(***************************************************************************)
EXTENDS Integers, Sequences, FiniteSets

CONSTANTS Requests,
          Streams,        \* the requests that are watched
          Ids,
          IdOf,           \* correlation id of a request, possibly its client's choice
          Lengths,        \* how many events a run that ends records
          QueueCapacity,  \* QUEUE_CAPACITY of api/stream.py
          StoreCapacity   \* capacity of the run store

ASSUME RuntimeAssumption ==
    /\ IsFiniteSet(Requests) /\ Streams \subseteq Requests
    /\ IdOf \in [Requests -> Ids]
    /\ Lengths \subseteq Nat \ {0}
    /\ QueueCapacity \in Nat \ {0} /\ StoreCapacity \in Nat \ {0}

VARIABLES length,    \* events the run of each request records if nothing fails
          worker,    \* what the thread running it does next
          recorded,  \* trace events recorded so far
          queue,     \* events published and not drained yet
          reader,    \* the response of each stream
          received,  \* events the client was sent
          runs,      \* the run store
          finished,  \* history of the run store
          counted    \* runs in the metrics registry

watching == <<queue, reader, received>>
store == <<runs, finished>>
vars == <<length, worker, recorded, watching, store, counted>>

Store == INSTANCE RunStore WITH
    Owners <- Requests, Capacity <- StoreCapacity, MaxPuts <- Cardinality(Requests)

Event(name, offset) == [name |-> name, offset |-> offset]
TraceEvent(k) == Event("trace", k)
Done == Event("done", 0)
Error == Event("error", 0)
End == Event("end", 0)

Goto(r, label) == worker' = [worker EXCEPT ![r] = label]

-----------------------------------------------------------------------------

Init ==
    /\ length \in [Requests -> Lengths]
    /\ worker = [r \in Requests |-> "idle"]
    /\ recorded = [r \in Requests |-> 0]
    /\ queue = [r \in Streams |-> <<>>]
    /\ reader = [r \in Streams |-> "none"]
    /\ received = [r \in Streams |-> <<>>]
    /\ Store!StoreInit
    /\ counted = 0

\* The request arrives; a stream's generator starts its worker.
Start(r) ==
    /\ worker[r] = "idle"
    /\ Goto(r, "running")
    /\ reader' = [s \in Streams |-> IF s = r THEN "reading" ELSE reader[s]]
    /\ UNCHANGED <<length, recorded, queue, received, store, counted>>

\* A slip: a put that waits for one free place more.
EmitLeavingRoom(r, event) ==
    IF r \in Streams
      THEN /\ Len(queue[r]) < QueueCapacity - 1
           /\ queue' = [queue EXCEPT ![r] = Append(@, event)]
      ELSE UNCHANGED queue

\* A slip: a queue without a bound.
EmitUnbounded(r, event) ==
    IF r \in Streams THEN queue' = [queue EXCEPT ![r] = Append(@, event)] ELSE UNCHANGED queue

\* queue.put blocks while the queue is full; only a streamed run has one.
Emit(r, event) ==
    IF r \in Streams
      THEN /\ Len(queue[r]) < QueueCapacity
           /\ queue' = [queue EXCEPT ![r] = Append(@, event)]
      ELSE UNCHANGED queue

\* A slip: an event that finds the queue full is dropped.
RecordDroppingWhenFull(r) ==
    /\ worker[r] = "running"
    /\ recorded[r] < length[r]
    /\ recorded' = [recorded EXCEPT ![r] = @ + 1]
    /\ IF r \in Streams /\ Len(queue[r]) = QueueCapacity
         THEN UNCHANGED queue
         ELSE Emit(r, TraceEvent(recorded[r]))
    /\ UNCHANGED <<length, worker, reader, received, store, counted>>

RecordEvent(r) ==
    /\ worker[r] = "running"
    /\ recorded[r] < length[r]
    /\ recorded' = [recorded EXCEPT ![r] = @ + 1]
    /\ Emit(r, TraceEvent(recorded[r]))
    /\ UNCHANGED <<length, worker, reader, received, store, counted>>

RunReturns(r) ==
    /\ worker[r] = "running"
    /\ recorded[r] = length[r]
    /\ Goto(r, "store")
    /\ UNCHANGED <<length, recorded, watching, store, counted>>

\* The backend is not configured, fails, or the loop raises: the exception
\* handlers answer a call, perform answers a stream.
RunRaises(r) ==
    /\ worker[r] = "running"
    /\ recorded[r] < length[r]
    /\ Goto(r, IF r \in Streams THEN "failed" ELSE "ended")
    /\ UNCHANGED <<length, recorded, watching, store, counted>>

\* A slip: a full store keeps what it has.
StoreRunIfRoom(r) ==
    /\ worker[r] = "store"
    /\ IF Len(runs) < StoreCapacity
         THEN Store!Put([id |-> IdOf[r], owner |-> r])
         ELSE UNCHANGED store
    /\ Goto(r, "count")
    /\ UNCHANGED <<length, recorded, watching, counted>>

StoreRun(r) ==
    /\ worker[r] = "store"
    /\ Store!Put([id |-> IdOf[r], owner |-> r])
    /\ Goto(r, "count")
    /\ UNCHANGED <<length, recorded, watching, counted>>

\* A slip: the stream leaves the counting to run_and_count.
CountCalls(r) ==
    /\ worker[r] = "count"
    /\ counted' = IF r \in Streams THEN counted ELSE counted + 1
    /\ Goto(r, IF r \in Streams THEN "report" ELSE "ended")
    /\ UNCHANGED <<length, recorded, watching, store>>

\* record_run; a call then answers with the run, a stream reports it.
CountRun(r) ==
    /\ worker[r] = "count"
    /\ counted' = counted + 1
    /\ Goto(r, IF r \in Streams THEN "report" ELSE "ended")
    /\ UNCHANGED <<length, recorded, watching, store>>

ReportDone(r) ==
    /\ worker[r] = "report"
    /\ Emit(r, Done)
    /\ Goto(r, "end")
    /\ UNCHANGED <<length, recorded, reader, received, store, counted>>

\* A slip: the sentinel is published in the else branch, not in finally.
ReportErrorOnly(r) ==
    /\ worker[r] = "failed"
    /\ Emit(r, Error)
    /\ Goto(r, "ended")
    /\ UNCHANGED <<length, recorded, reader, received, store, counted>>

ReportError(r) ==
    /\ worker[r] = "failed"
    /\ Emit(r, Error)
    /\ Goto(r, "end")
    /\ UNCHANGED <<length, recorded, reader, received, store, counted>>

PublishEnd(r) ==
    /\ worker[r] = "end"
    /\ Emit(r, End)
    /\ Goto(r, "ended")
    /\ UNCHANGED <<length, recorded, reader, received, store, counted>>

WorkerStep(r) ==
    \/ RecordEvent(r)
    \/ RunReturns(r)
    \/ RunRaises(r)
    \/ StoreRun(r)
    \/ CountRun(r)
    \/ ReportDone(r)
    \/ ReportError(r)
    \/ PublishEnd(r)

-----------------------------------------------------------------------------
(* The response of a stream.                                               *)

\* The sentinel ends the response; the worker it joins has nothing left to do.
Drain(r) ==
    /\ reader[r] = "reading"
    /\ queue[r] # <<>>
    /\ queue' = [queue EXCEPT ![r] = Tail(@)]
    /\ IF Head(queue[r]) = End
         THEN reader' = [reader EXCEPT ![r] = "closed"] /\ UNCHANGED received
         ELSE received' = [received EXCEPT ![r] = Append(@, Head(queue[r]))] /\ UNCHANGED reader
    /\ UNCHANGED <<length, worker, recorded, store, counted>>

Disconnect(r) ==
    /\ reader[r] = "reading"
    /\ \E next \in {"gone", "leaving"} : reader' = [reader EXCEPT ![r] = next]
    /\ UNCHANGED <<length, worker, recorded, queue, received, store, counted>>

\* The get under way takes one item that nobody is sent.
LoseOne(r) ==
    /\ reader[r] = "leaving"
    /\ queue[r] # <<>>
    /\ queue' = [queue EXCEPT ![r] = Tail(@)]
    /\ reader' = [reader EXCEPT ![r] = "gone"]
    /\ UNCHANGED <<length, worker, recorded, received, store, counted>>

Next ==
    \/ \E r \in Requests : Start(r) \/ WorkerStep(r)
    \/ \E r \in Streams : Drain(r) \/ Disconnect(r) \/ LoseOne(r)

\* Threads are scheduled, and a client that stays keeps reading.  A client
\* need not stay, and a request need not come.
Spec ==
    /\ Init /\ [][Next]_vars
    /\ \A r \in Requests : WF_vars(WorkerStep(r))
    /\ \A r \in Streams : WF_vars(Drain(r)) /\ WF_vars(LoseOne(r))

-----------------------------------------------------------------------------
(* Properties.                                                             *)

(***************************************************************************)
(* Shapes, and the queue's bound.                                          *)
(***************************************************************************)
TypeOK ==
    LET Events == [name : {"trace", "done", "error", "end"}, offset : Nat]
    IN  /\ length \in [Requests -> Lengths]
        /\ worker \in [Requests -> {"idle", "running", "store", "count", "report",
                                    "failed", "end", "ended"}]
        /\ recorded \in [Requests -> Nat]
        /\ queue \in [Streams -> Seq(Events)]
        /\ \A r \in Streams : Len(queue[r]) <= QueueCapacity
        /\ reader \in [Streams -> {"none", "reading", "leaving", "gone", "closed"}]
        /\ received \in [Streams -> Seq(Events)]
        /\ runs \in Seq(Store!Artifact)
        /\ finished \in Seq(Store!Artifact)
        /\ counted \in Nat

Stored(r) == \E i \in 1..Len(finished) : finished[i].owner = r

(***************************************************************************)
(* What a client is sent is the run: its trace events in order without a   *)
(* hole, then one `done` if the run was stored or one `error` if it never  *)
(* will be; a response that ends by itself has said which.                 *)
(***************************************************************************)
StreamIsTheRun ==
    \A r \in Streams :
        LET sent == received[r]
            n == Len(sent)
            over == n > 0 /\ sent[n] \in {Done, Error}
            traces == IF over THEN n - 1 ELSE n
        IN  /\ \A k \in 1..traces : sent[k] = TraceEvent(k - 1)
            /\ over => traces = recorded[r]
            /\ over => (sent[n] = Done <=> Stored(r))
            /\ reader[r] = "closed" => over

\* The client of r has been told that its run is over and served.
Told(r) ==
    IF r \in Streams THEN \E i \in 1..Len(received[r]) : received[r][i] = Done
                     ELSE worker[r] = "ended" /\ recorded[r] = length[r]

(***************************************************************************)
(* Whoever is told that a run ended can fetch that run: it is in the store *)
(* until its id finishes again or as many other ids finish as the store    *)
(* holds, however the requests interleave.                                 *)
(***************************************************************************)
ToldMeansFetchable ==
    \A r \in Requests : Told(r) =>
        \E i \in 1..Len(finished) :
            /\ finished[i].owner = r
            /\ Store!Served(i) => \E k \in 1..Len(runs) : runs[k] = finished[i]

(***************************************************************************)
(* A run that is stored is counted once, whichever route performed it, and *)
(* a run that raised is neither.                                           *)
(***************************************************************************)
CountsMatchStore ==
    /\ counted + Cardinality({r \in Requests : worker[r] = "count"}) = Len(finished)
    /\ \A i \in 1..Len(finished) :
          recorded[finished[i].owner] = length[finished[i].owner]

(***************************************************************************)
(* A client that stays is answered to the end, also when the run raised.   *)
(***************************************************************************)
ReaderIsAnswered == \A r \in Streams : reader[r] = "reading" ~> reader[r] # "reading"

\* Nobody drains the queue any more, it is full, and the worker waits for room.
Stranded(r) ==
    /\ r \in Streams
    /\ reader[r] = "gone"
    /\ Len(queue[r]) = QueueCapacity
    /\ \/ worker[r] \in {"report", "failed", "end"}
       \/ worker[r] = "running" /\ recorded[r] < length[r]

(***************************************************************************)
(* A run that starts is performed to its end -- stored or reported failed  *)
(* -- with one exception: a disconnected client and more to publish (the   *)
(* trace, the outcome and the sentinel) than the queue holds.              *)
(***************************************************************************)
OnlyOverflowStrands ==
    \A r \in Requests :
        worker[r] = "running" ~>
            worker[r] = "ended" \/ (Stranded(r) /\ length[r] + 2 > QueueCapacity)

(***************************************************************************)
(* The stream says that a disconnected client cannot leave a run           *)
(* half-executed: it finishes and is stored.                               *)
(***************************************************************************)
DisconnectedRunFinishes == \A r \in Requests : ~Stranded(r)
=============================================================================
