------------------------------ MODULE RunStore ------------------------------
(***************************************************************************)
(* The store of finished runs, api/runs.py: the last Capacity runs under   *)
(* their correlation ids, oldest first.  A client may choose its own id    *)
(* (X-Request-ID), so an id can be stored again.  Each call holds the      *)
(* store's lock and is one step here; RunStoreThreads takes it apart.      *)
(***************************************************************************)
EXTENDS Integers, Sequences, FiniteSets

CONSTANTS Ids,      \* correlation ids
          Owners,   \* the runs stored: what two artifacts of one id differ in
          Capacity, \* runs kept before the oldest is evicted
          MaxPuts   \* bound: finished runs considered

VARIABLES runs,     \* the ordered dictionary, oldest entry first
          finished  \* history: every artifact ever put, in order

storeVars == <<runs, finished>>

Artifact == [id : Ids, owner : Owners]

\* Where an id stands: nowhere or, ids being keys, in one place.
At(store, id) == {i \in 1..Len(store) : store[i].id = id}

Without(store, id) ==
    LET i == CHOOSE i \in At(store, id) : TRUE
    IN  IF At(store, id) = {} THEN store
        ELSE [j \in 1..(Len(store) - 1) |-> IF j < i THEN store[j] ELSE store[j + 1]]

\* The artifact under an id, or nothing.
Get(store, id) ==
    IF At(store, id) = {} THEN <<>> ELSE <<store[CHOOSE i \in At(store, id) : TRUE]>>

\* popitem(last=False) while the store is over its capacity.
EvictOldest(store) ==
    LET over == Len(store) - Capacity
    IN  IF over > 0 THEN SubSeq(store, over + 1, Len(store)) ELSE store

\* An id stored again is replaced and becomes the newest.
Stored(store, artifact) ==
    EvictOldest(Append(Without(store, artifact.id), artifact))

StoreInit ==
    /\ runs = <<>>
    /\ finished = <<>>

Put(artifact) ==
    /\ runs' = Stored(runs, artifact)
    /\ finished' = Append(finished, artifact)

StoreNext ==
    /\ Len(finished) < MaxPuts
    /\ \E artifact \in Artifact : Put(artifact)

StoreSpec == StoreInit /\ [][StoreNext]_storeVars

-----------------------------------------------------------------------------
(* Properties.                                                             *)

\* The i-th finished run must still be served: none of its id finished after
\* it, and fewer than Capacity other ids did.
Served(i) ==
    LET later == {finished[j].id : j \in (i + 1)..Len(finished)}
    IN  finished[i].id \notin later /\ Cardinality(later) < Capacity

(***************************************************************************)
(* The store is what its history says: exactly the runs that the last      *)
(* Capacity distinct ids finished with, in the order they finished, an id  *)
(* stored twice showing its later run -- reading changes none of it.       *)
(***************************************************************************)
StoreIsLatest ==
    LET kept == {i \in 1..Len(finished) : Served(i)}
    IN  /\ Len(runs) = Cardinality(kept)
        /\ \A i \in kept : runs[Cardinality({k \in kept : k <= i})] = finished[i]
=============================================================================
