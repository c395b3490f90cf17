----------------------------- MODULE MCRuntime -----------------------------
(***************************************************************************)
(* A stream and two calls, one of them under the id of the stream; a store *)
(* of one run, so that every run that ends evicts or replaces another;     *)
(* runs that fit the queue with their outcome and sentinel, and runs that  *)
(* do not.                                                                 *)
(***************************************************************************)
EXTENDS Runtime

CONSTANTS stream, call1, call2, id1, id2

MCRequests == {stream, call1, call2}
MCStreams == {stream}
MCIds == {id1, id2}
MCIdOf == [r \in MCRequests |-> IF r = call2 THEN id2 ELSE id1]
MCLengths == {1, 4}

\* One stream of the longest run the budgets allow with the hosted backend:
\* five retrievals of fifty notes, two lookups, the plan and the end.
MCOneIdOf == [r \in MCStreams |-> id1]
MCLongest == {272}
=============================================================================
