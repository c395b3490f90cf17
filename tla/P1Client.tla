------------------------------ MODULE P1Client ------------------------------
(***************************************************************************)
(* One query of HttpRetrievalBackend, tools/http_p1.py: the backend of a   *)
(* run that opted into a production-rag service.  The service, the network *)
(* and httpx are the environment: at every wait the call may fail, answer  *)
(* with any status, and send any body in any pieces.  A wait is bounded by *)
(* the timeout, which httpx applies to each read.                          *)
(*                                                                         *)
(* A citation is its chunk, its rank and its text; the marker, the path    *)
(* and the headings travel with it unread.                                 *)
(***************************************************************************)
EXTENDS Integers, FiniteSets, SequencesExt

CONSTANTS Chunks, Ranks, Texts,
          MaxCitations,  \* bound: citations in one answer
          TopKs,         \* caps a caller may ask for
          Statuses,      \* HTTP statuses the service may answer with
          Pieces,        \* sizes a piece of the body may have
          MaxBytes       \* MAX_RESPONSE_BYTES

Citation == [chunk : Chunks, rank : Ranks, text : Texts]
Answers == [refused : BOOLEAN, citations : SeqOf(Citation, MaxCitations)]

ASSUME P1Assumption ==
    /\ Ranks \subseteq Nat \ {0}
    /\ MaxCitations \in Nat
    /\ TopKs \subseteq Int
    /\ Statuses \subseteq Nat
    /\ Pieces \subseteq Nat \ {0}
    /\ MaxBytes \in Nat \ {0}

VARIABLES topK,          \* the caller's cap
          fits,          \* whether the sub-question passes P1QueryRequest
          phase,
          total,         \* bytes of the body read so far
          answer,        \* the parsed response
          looked,        \* how many of its citations were looked at
          best,          \* for each chunk the position kept, 0 for none
          passages,      \* what the call returns
          evidenceState,
          error          \* error_type of the ToolError the call raises

call == <<topK, fits>>
ranking == <<looked, best>>
returned == <<answer, ranking, passages, evidenceState>>
vars == <<call, phase, total, returned, error>>

NoAnswer == [refused |-> FALSE, citations |-> <<>>]

-----------------------------------------------------------------------------
(* From citations to passages.                                             *)

\* A slip: in the order in which the answer mentions them.
BeforeMentioned(i, j) == i < j

\* Sorted by rank, and then by position.
Before(i, j) ==
    LET citations == answer.citations
    IN  \/ citations[i].rank < citations[j].rank
        \/ citations[i].rank = citations[j].rank /\ i < j

Kept == {best[c] : c \in Chunks} \ {0}
Place(i) == Cardinality({j \in Kept : j = i \/ Before(j, i)})

\* What was kept for the chunks, sorted and then capped.
ToPassages ==
    LET At(n) == CHOOSE i \in Kept : Place(i) = n
        size == IF topK < Cardinality(Kept) THEN topK ELSE Cardinality(Kept)
    IN  [n \in 1..size |-> answer.citations[At(n)]]

EvidenceState(response) ==
    CASE response.refused -> "upstream_refused"
      [] ~response.refused /\ response.citations = <<>> -> "answered_without_citations"
      [] OTHER -> "grounded"

\* A slip: the citations of a refusal are passed on.
OutcomePassing(response) ==
    /\ answer' = response
    /\ evidenceState' = EvidenceState(response)
    /\ phase' = IF topK <= 0 THEN "returned" ELSE "ranking"

\* A refusal yields no evidence even if citations came with it.
Outcome(response) ==
    /\ answer' = response
    /\ evidenceState' = EvidenceState(response)
    /\ phase' = IF response.refused \/ topK <= 0 THEN "returned" ELSE "ranking"

\* A slip: a status the table does not name keeps the default slug.
StatusErrorUnnamed(status) ==
    CASE status \in {400, 422} -> "validation_error"
      [] status \in {401, 403} -> "unauthorized"
      [] status = 429 -> "rate_limited"
      [] status \in {502, 503, 504} -> "backend_unavailable"
      [] OTHER -> "tool_error"

StatusError(status) ==
    CASE status \in {400, 422} -> "validation_error"
      [] status \in {401, 403} -> "unauthorized"
      [] status = 429 -> "rate_limited"
      [] status \in {502, 503, 504} -> "backend_unavailable"
      [] status >= 500 /\ status \notin {502, 503, 504} -> "provider_error"
      [] OTHER -> "contract_mismatch"

-----------------------------------------------------------------------------

Init ==
    /\ topK \in TopKs
    /\ fits \in BOOLEAN
    /\ phase = "call"
    /\ total = 0
    /\ answer = NoAnswer
    /\ looked = 0
    /\ best = [c \in Chunks |-> 0]
    /\ passages = <<>>
    /\ evidenceState = "none"
    /\ error = "none"

Raise(slug) ==
    /\ phase' = "raised"
    /\ error' = slug
    /\ UNCHANGED <<call, returned>>

\* A sub-question the service would reject is not sent.
RejectLocally ==
    /\ phase = "call"
    /\ ~fits
    /\ Raise("validation_error")
    /\ UNCHANGED total

Send ==
    /\ phase = "call"
    /\ fits
    /\ phase' = "headers"
    /\ UNCHANGED <<call, total, returned, error>>

\* TimeoutException or any other HTTPError, while connecting or reading.
TransportFails ==
    /\ phase \in {"headers", "body"}
    /\ Raise("backend_unavailable")
    /\ UNCHANGED total

AnswerStatus ==
    /\ phase = "headers"
    /\ \E status \in Statuses :
          IF status = 200
            THEN phase' = "body" /\ UNCHANGED <<call, returned, error>>
            ELSE Raise(StatusError(status))
    /\ UNCHANGED total

\* A slip: each piece is compared with the bound on its own.
ReadPieceAlone ==
    /\ phase = "body"
    /\ \E n \in Pieces :
          /\ total' = n
          /\ IF n > MaxBytes
               THEN Raise("contract_mismatch")
               ELSE UNCHANGED <<call, phase, returned, error>>

\* The next piece is abandoned with the rest when it crosses the size bound.
ReadPiece ==
    /\ phase = "body"
    /\ \E n \in Pieces :
          /\ total' = total + n
          /\ IF total + n > MaxBytes
               THEN Raise("contract_mismatch")
               ELSE UNCHANGED <<call, phase, returned, error>>

\* The body ends and is parsed against the pinned contract.
BodyEnds ==
    /\ phase = "body"
    /\ \E response \in Answers : Outcome(response)
    /\ UNCHANGED <<call, total, ranking, passages, error>>

BodyUnreadable ==
    /\ phase = "body"
    /\ Raise("contract_mismatch")
    /\ UNCHANGED total

\* A chunk keeps its first citation, until a later one is ranked strictly better.
LookAt ==
    /\ phase = "ranking"
    /\ looked < Len(answer.citations)
    /\ looked' = looked + 1
    /\ LET citation == answer.citations[looked + 1]
       IN  best' = [best EXCEPT ![citation.chunk] =
                       IF @ = 0 \/ citation.rank < answer.citations[@].rank THEN looked + 1 ELSE @]
    /\ UNCHANGED <<call, phase, total, answer, passages, evidenceState, error>>

Return ==
    /\ phase = "ranking"
    /\ looked = Len(answer.citations)
    /\ phase' = "returned"
    /\ passages' = ToPassages
    /\ UNCHANGED <<call, total, answer, ranking, evidenceState, error>>

Next ==
    \/ RejectLocally
    \/ Send
    \/ TransportFails
    \/ AnswerStatus
    \/ ReadPiece
    \/ BodyEnds
    \/ BodyUnreadable
    \/ LookAt
    \/ Return

\* The thread is scheduled, and httpx ends every wait.
Spec == Init /\ [][Next]_vars /\ WF_vars(Next)

-----------------------------------------------------------------------------
(* Properties.                                                             *)

(***************************************************************************)
(* Shapes; a call has an error type exactly when it raised.                *)
(***************************************************************************)
TypeOK ==
    /\ topK \in TopKs
    /\ fits \in BOOLEAN
    /\ phase \in {"call", "headers", "body", "ranking", "returned", "raised"}
    /\ total \in Nat
    /\ answer \in Answers
    /\ looked \in 0..Len(answer.citations)
    /\ best \in [Chunks -> 0..looked]
    /\ passages \in Seq(Citation)
    /\ evidenceState \in {"none", "grounded", "upstream_refused", "answered_without_citations"}
    /\ error \in {"none", "backend_unavailable", "provider_error", "unauthorized",
                  "rate_limited", "validation_error", "contract_mismatch"}
    /\ error # "none" <=> phase = "raised"

(***************************************************************************)
(* The passages of an answer are its best evidence: cited, one per chunk,  *)
(* in the order of their ranks, as many as the cap admits, and nothing     *)
(* that was left out is ranked better than what was kept.                  *)
(***************************************************************************)
PassagesAreBest ==
    phase = "returned" /\ ~answer.refused =>
        LET cited == {answer.citations[i] : i \in 1..Len(answer.citations)}
            n == Len(passages)
        IN  /\ \A i \in 1..n : passages[i] \in cited
            /\ \A i, j \in 1..n : i < j =>
                  passages[i].chunk # passages[j].chunk /\ passages[i].rank <= passages[j].rank
            /\ \A c \in cited :
                  \/ \E i \in 1..n : passages[i].chunk = c.chunk /\ passages[i].rank <= c.rank
                  \/ n = (IF topK > 0 THEN topK ELSE 0)
                     /\ \A i \in 1..n : passages[i].rank <= c.rank

(***************************************************************************)
(* Empty evidence says why it is empty, and a refusal is never evidence:   *)
(* with a positive cap there are passages exactly when the answer was      *)
(* grounded.                                                               *)
(***************************************************************************)
EmptyIsExplained ==
    phase = "returned" /\ topK > 0 => (passages # <<>> <=> evidenceState = "grounded")

(***************************************************************************)
(* Every call ends, in a result or a typed error, even if the service      *)
(* never stops sending.                                                    *)
(***************************************************************************)
CallEnds == <>(phase \in {"returned", "raised"})
=============================================================================
