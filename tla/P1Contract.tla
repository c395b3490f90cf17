----------------------------- MODULE P1Contract -----------------------------
(***************************************************************************)
(* verify_contract of tools/p1_contract.py compares the OpenAPI document   *)
(* of a production-rag deployment with what the hosted backend sends and   *)
(* reads; then the backend exchanges a query with that deployment.         *)
(*                                                                         *)
(* A document is known by how it deviates from what P1QueryRequest sends   *)
(* and P1QueryResponse reads: pairs of what happened and to which part.    *)
(* What a document can say besides that is not modelled.                   *)
(***************************************************************************)
EXTENDS Integers, FiniteSets

Sendable == {"mode", "rerank", "llm", "embedder"}

\* All that a query may hold; only mode and rerank can be omitted.
Sent == Sendable \cup {"question"}

\* The citation fields verify_contract looks at, and all that P1Citation reads.
Checked == {"marker", "chunk_id", "source_path", "text", "rank"}
Declared == Checked \cup {"title", "heading_path"}

\* narrowed: an enumeration or a length accepts less; restricted: another constraint
\* (minLength, pattern, const) does.  loosened: a value of the right type may be one
\* that P1Citation refuses, a place below 1 or an empty id.
Deviation ==
    {"required"} \X (Sendable \cup {"debug", "a new request field", "a parameter"})
        \cup {"gone"} \X ({"route", "request schema", "response schema", "refused",
                        "refusal_reason", "citations", "items"} \cup Sent \cup Declared)
        \cup {"retyped"} \X ({"refused", "refusal_reason", "citations"} \cup Sent \cup Declared)
        \cup {"narrowed", "restricted"} \X Sent
        \cup {"optional"} \X ({"question", "refused"} \cup Checked)
        \cup {"loosened"} \X {"marker", "chunk_id", "rank"}
        \cup {<<"permissive", "request schema">>, <<"added", "a response field">>}

CONSTANT Documents

ASSUME ContractAssumption == Documents \subseteq SUBSET Deviation

VARIABLES document,
          problems, \* what verify_contract reported
          exchange  \* none, verified, or how the query ended

contractVars == <<document, problems, exchange>>

ContractInit ==
    /\ document \in Documents
    /\ problems = {}
    /\ exchange = "none"

-----------------------------------------------------------------------------
(* verify_contract.                                                        *)

RequestProblems(doc) ==
    IF <<"gone", "request schema">> \in doc THEN {<<"gone", "request schema">>}
    ELSE doc \cap ({<<"optional", "question">>, <<"narrowed", "question">>,
                    <<"permissive", "request schema">>}
                   \cup {"gone", "narrowed"} \X Sendable)

\* A slip: a field of a citation may become optional.
CitationProblemsTyped(doc) == doc \cap ({"gone", "retyped"} \X Checked)

CitationProblems(doc) == doc \cap ({"gone", "retyped", "optional"} \X Checked)

\* Without citations, or without a schema of one, there is nothing to look into.
ResponseProblems(doc) ==
    LET lost == doc \cap {<<"gone", "citations">>, <<"retyped", "citations">>}
        blind == doc \cap {<<"gone", "items">>}
    IN  IF <<"gone", "response schema">> \in doc THEN {<<"gone", "response schema">>}
        ELSE (doc \cap {<<"gone", "refused">>, <<"retyped", "refused">>, <<"gone", "refusal_reason">>})
                 \cup IF lost # {} THEN lost
                      ELSE IF blind # {} THEN blind
                      ELSE CitationProblems(doc)

VerifyContract ==
    /\ exchange = "none"
    /\ exchange' = "verified"
    /\ problems' = IF <<"gone", "route">> \in document THEN {<<"gone", "route">>}
                   ELSE RequestProblems(document) \cup ResponseProblems(document)
    /\ UNCHANGED document

-----------------------------------------------------------------------------
(* A query, to a deployment that makes use of all its document says.       *)

\* "removed" is a value that a narrowed or restricted field no longer accepts; the
\* providers have one value only.
Payload == [question : {"kept", "removed"}, llm : {"removed"}, embedder : {"removed"},
            mode : {"omitted", "kept", "removed"}, rerank : {"omitted", "kept", "removed"}]

\* A service that forbids unknown fields refuses one it no longer has.  Without a
\* schema it promises nothing.
Rejects(doc, payload) ==
    \/ doc \cap {<<"gone", "route">>, <<"gone", "request schema">>, <<"required", "debug">>,
                 <<"required", "a new request field">>, <<"required", "a parameter">>} # {}
    \/ \E f \in Sent :
          \/ <<"gone", f>> \in doc /\ payload[f] # "omitted"
                /\ <<"permissive", "request schema">> \notin doc
          \/ <<"retyped", f>> \in doc /\ payload[f] # "omitted"
          \/ doc \cap ({"narrowed", "restricted"} \X {f}) # {} /\ payload[f] = "removed"
          \/ <<"required", f>> \in doc /\ payload[f] = "omitted"

\* P1QueryResponse is strict: a field with another type or a value out of bounds, or a
\* required field of a citation that is missing, makes the whole body unreadable.
Unreadable(doc) ==
    \/ doc \cap {<<"gone", "response schema">>, <<"gone", "items">>} # {}
    \/ doc \cap ({"retyped"} \X ({"refused", "refusal_reason", "citations"} \cup Declared)) # {}
    \/ doc \cap ({"gone", "optional"} \X Checked) # {}
    \/ doc \cap ({"loosened"} \X {"marker", "chunk_id", "rank"}) # {}

\* The defaults of fields that are missing: a refusal passes for an answer, an answer
\* for one without evidence.
Misread(doc) ==
    doc \cap {<<"gone", "refused">>, <<"optional", "refused">>, <<"gone", "citations">>} # {}

Exchange ==
    /\ exchange = "verified"
    /\ \E payload \in Payload :
          exchange' = IF Rejects(document, payload) THEN "rejected"
                      ELSE IF Unreadable(document) THEN "unreadable"
                      ELSE IF Misread(document) THEN "misread"
                      ELSE "read"
    /\ UNCHANGED <<document, problems>>

ContractNext == VerifyContract \/ Exchange

-----------------------------------------------------------------------------
(* Properties.                                                             *)

Broken == exchange \in {"rejected", "unreadable", "misread"}

\* Of the deviations above, those that spoil an exchange and that verify_contract does
\* not look at.
Overlooked ==
    {<<"gone", "question">>, <<"optional", "refused">>}
        \cup {"retyped", "restricted"} \X Sent
        \cup {"required"} \X {"mode", "rerank", "debug", "a new request field", "a parameter"}
        \cup {"retyped"} \X {"refusal_reason", "title", "heading_path"}
        \cup {"loosened"} \X {"marker", "chunk_id", "rank"}

(***************************************************************************)
(* A deployment whose document is not complained of works: no query is     *)
(* rejected, unreadable or misread, however several deviations hide one    *)
(* another behind the early returns of verify_contract -- unless the       *)
(* document deviates in a way it overlooks.  And the list of those is no   *)
(* excuse: what is complained of did change, and is never one of them.     *)
(* This says nothing of documents that deviate otherwise than modelled.    *)
(***************************************************************************)
DriftIsReported ==
    /\ Broken => problems # {} \/ document \cap Overlooked # {}
    /\ problems \subseteq document \ Overlooked

(***************************************************************************)
(* verify_contract's documentation: "Report every way spec would break     *)
(* this adapter."                                                          *)
(***************************************************************************)
EveryBreakIsReported == Broken => problems # {}
=============================================================================
