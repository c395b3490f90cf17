----------------------------- MODULE InputProofs -----------------------------
(***************************************************************************)
(* Four parts that take an input apart and share nothing: the query of the *)
(* hosted backend, the check of that service's contract, the plan of a     *)
(* question, and the fixture, its files and searches.  For any answer, any *)
(* deviations of a document, any question and any files.                   *)
(***************************************************************************)
EXTENDS P1Client, P1Contract, Planner, Corpus,
        FiniteSetTheorems, FunctionTheorems, SequenceTheorems, WellFoundedInduction, NaturalsInduction, TLAPS

-----------------------------------------------------------------------------
(* The contract.                                                           *)

Reported ==
    IF <<"gone", "route">> \in document THEN {<<"gone", "route">>}
    ELSE RequestProblems(document) \cup ResponseProblems(document)

\* What was reported is what the document gives reason for, and a query that
\* broke had a reason in the document.
ContractInv ==
    /\ exchange \in {"none", "verified", "rejected", "unreadable", "misread", "read"}
    /\ problems = IF exchange = "none" THEN {} ELSE Reported
    /\ exchange = "rejected" => \E payload \in Payload : Rejects(document, payload)
    /\ exchange = "unreadable" => Unreadable(document)
    /\ exchange = "misread" => Misread(document)

LEMMA ContractInvAlways == ContractInit /\ [][ContractNext]_contractVars => []ContractInv
<1>1. ContractInit => ContractInv
  BY DEF ContractInit, ContractInv
<1>2. ContractInv /\ [ContractNext]_contractVars => ContractInv'
  <2> SUFFICES ASSUME ContractInv, [ContractNext]_contractVars PROVE ContractInv'
    OBVIOUS
  <2>1. CASE VerifyContract
    BY <2>1 DEF VerifyContract, ContractInv, Reported
  <2>2. CASE Exchange
    <3>1. PICK payload \in Payload :
             exchange' = IF Rejects(document, payload) THEN "rejected"
                         ELSE IF Unreadable(document) THEN "unreadable"
                         ELSE IF Misread(document) THEN "misread"
                         ELSE "read"
      BY <2>2 DEF Exchange
    <3>2. exchange = "verified" /\ document' = document /\ problems' = problems
      BY <2>2 DEF Exchange
    <3>3. Reported' = Reported
      BY <3>2 DEF Reported
    <3>4. Rejects(document, payload) = Rejects(document', payload)
          /\ Unreadable(document) = Unreadable(document') /\ Misread(document) = Misread(document')
      BY <3>2
    <3> HIDE DEF Reported
    <3>5. QED
      BY <3>1, <3>2, <3>3, <3>4 DEF ContractInv
  <2>3. CASE UNCHANGED contractVars
    BY <2>3 DEF contractVars, ContractInv, Reported
  <2>4. QED
    BY <2>1, <2>2, <2>3 DEF ContractNext
<1>3. QED
  BY <1>1, <1>2, PTL

\* A kind of deviation and a part of the document that are overlooked together.
LookedAway(kind, part) ==
    \/ kind = "gone" /\ part = "question"
    \/ kind = "optional" /\ part = "refused"
    \/ kind \in {"retyped", "restricted"} /\ part \in {"mode", "rerank", "llm", "embedder", "question"}
    \/ kind = "required" /\ part \in {"mode", "rerank", "debug", "a new request field", "a parameter"}
    \/ kind = "retyped" /\ part \in {"refusal_reason", "title", "heading_path"}
    \/ kind = "loosened" /\ part \in {"marker", "chunk_id", "rank"}

\* Overlooked, told by the two parts of a pair.
LEMMA OverlookedPairs ==
    ASSUME NEW kind, NEW part
    PROVE  <<kind, part>> \in Overlooked <=> LookedAway(kind, part)
<1>1. <<kind, part>> \in {<<"gone", "question">>, <<"optional", "refused">>}
          <=> (kind = "gone" /\ part = "question") \/ (kind = "optional" /\ part = "refused")
  OBVIOUS
<1>2. <<kind, part>> \in {"retyped", "restricted"} \X Sent
          <=> kind \in {"retyped", "restricted"} /\ part \in {"mode", "rerank", "llm", "embedder", "question"}
  BY DEF Sent, Sendable
<1>3. <<kind, part>> \in {"required"} \X {"mode", "rerank", "debug", "a new request field", "a parameter"}
          <=> kind = "required" /\ part \in {"mode", "rerank", "debug", "a new request field", "a parameter"}
  OBVIOUS
<1>4. <<kind, part>> \in {"retyped"} \X {"refusal_reason", "title", "heading_path"}
          <=> kind = "retyped" /\ part \in {"refusal_reason", "title", "heading_path"}
  OBVIOUS
<1>5. <<kind, part>> \in {"loosened"} \X {"marker", "chunk_id", "rank"}
          <=> kind = "loosened" /\ part \in {"marker", "chunk_id", "rank"}
  OBVIOUS
<1>6. <<kind, part>> \in Overlooked
          <=> \/ <<kind, part>> \in {<<"gone", "question">>, <<"optional", "refused">>}
              \/ <<kind, part>> \in {"retyped", "restricted"} \X Sent
              \/ <<kind, part>> \in {"required"} \X {"mode", "rerank", "debug", "a new request field", "a parameter"}
              \/ <<kind, part>> \in {"retyped"} \X {"refusal_reason", "title", "heading_path"}
              \/ <<kind, part>> \in {"loosened"} \X {"marker", "chunk_id", "rank"}
  <2> DEFINE pair == <<kind, part>>
  <2> HIDE DEF pair
  <2>1. pair \in Overlooked
          <=> \/ pair \in {<<"gone", "question">>, <<"optional", "refused">>}
              \/ pair \in {"retyped", "restricted"} \X Sent
              \/ pair \in {"required"} \X {"mode", "rerank", "debug", "a new request field", "a parameter"}
              \/ pair \in {"retyped"} \X {"refusal_reason", "title", "heading_path"}
              \/ pair \in {"loosened"} \X {"marker", "chunk_id", "rank"}
    BY Zenon DEF Overlooked
  <2>2. QED
    BY <2>1, Zenon DEF pair
<1>7. QED
  BY <1>1, <1>2, <1>3, <1>4, <1>5, <1>6 DEF LookedAway

\* A document that does not deviate in an overlooked way.
LEMMA OverlookedIsAbsent ==
    ASSUME NEW kind, NEW part, LookedAway(kind, part), document \cap Overlooked = {}
    PROVE  <<kind, part>> \notin document
<1>1. <<kind, part>> \in Overlooked
  BY OverlookedPairs
<1>2. QED
  BY <1>1

\* Only what changed is reported, and nothing that is overlooked.
LEMMA ReportedChanged ==
    RequestProblems(document) \cup ResponseProblems(document) \subseteq document \ Overlooked
<1>1. ASSUME NEW problem, problem \notin {<<"gone", "request schema">>, <<"optional", "question">>,
                                          <<"narrowed", "question">>, <<"permissive", "request schema">>},
             problem \in RequestProblems(document)
      PROVE  problem \notin Overlooked
  <2>1. problem \in {"gone", "narrowed"} \X Sendable
    BY <1>1 DEF RequestProblems
  <2>2. PICK kind \in {"gone", "narrowed"}, f \in Sendable : problem = <<kind, f>>
    BY <2>1
  <2>3. ~LookedAway(kind, f)
    BY <2>2 DEF LookedAway, Sendable
  <2>4. QED
    BY <2>2, <2>3, OverlookedPairs
<1>2. ASSUME NEW problem \in CitationProblems(document)
      PROVE  problem \notin Overlooked
  <2>1. problem \in {"gone", "retyped", "optional"} \X Checked
    BY <1>2 DEF CitationProblems
  <2>2. PICK kind \in {"gone", "retyped", "optional"}, f \in Checked : problem = <<kind, f>>
    BY <2>1
  <2>3. ~LookedAway(kind, f)
    BY <2>2 DEF LookedAway, Checked
  <2>4. QED
    BY <2>2, <2>3, OverlookedPairs
<1>3. /\ ~LookedAway("gone", "request schema") /\ ~LookedAway("optional", "question")
      /\ ~LookedAway("narrowed", "question") /\ ~LookedAway("permissive", "request schema")
      /\ ~LookedAway("gone", "response schema") /\ ~LookedAway("gone", "refused")
      /\ ~LookedAway("retyped", "refused") /\ ~LookedAway("gone", "refusal_reason")
      /\ ~LookedAway("gone", "citations") /\ ~LookedAway("retyped", "citations")
      /\ ~LookedAway("gone", "items")
  BY DEF LookedAway
<1>4. /\ <<"gone", "request schema">> \notin Overlooked /\ <<"optional", "question">> \notin Overlooked
      /\ <<"narrowed", "question">> \notin Overlooked
      /\ <<"permissive", "request schema">> \notin Overlooked
      /\ <<"gone", "response schema">> \notin Overlooked /\ <<"gone", "refused">> \notin Overlooked
      /\ <<"retyped", "refused">> \notin Overlooked /\ <<"gone", "refusal_reason">> \notin Overlooked
      /\ <<"gone", "citations">> \notin Overlooked /\ <<"retyped", "citations">> \notin Overlooked
      /\ <<"gone", "items">> \notin Overlooked
  BY <1>3, OverlookedPairs
<1>5. RequestProblems(document) \subseteq document
  BY DEF RequestProblems
<1>6. \A problem \in RequestProblems(document) : problem \notin Overlooked
  BY <1>1, <1>4
<1>7. CitationProblems(document) \subseteq document
  BY DEF CitationProblems
<1>8. ResponseProblems(document) \subseteq document
  BY <1>7 DEF ResponseProblems
<1>9. \A problem \in ResponseProblems(document) : problem \notin Overlooked
  <2>1. ASSUME NEW problem \in ResponseProblems(document), problem \notin CitationProblems(document)
        PROVE  problem \in {<<"gone", "response schema">>, <<"gone", "refused">>, <<"retyped", "refused">>,
                            <<"gone", "refusal_reason">>, <<"gone", "citations">>,
                            <<"retyped", "citations">>, <<"gone", "items">>}
    BY <2>1 DEF ResponseProblems
  <2>2. QED
    BY <1>2, <1>4, <2>1
<1>10. QED
  BY <1>5, <1>6, <1>8, <1>9

\* What becomes of a field that is sent, if verify_contract looks at it.
LEMMA SentIsReported ==
    ASSUME NEW f \in Sent, NEW kind \in {"gone", "narrowed"}, <<kind, f>> \in document,
           document \cap Overlooked = {}, <<"gone", "request schema">> \notin document
    PROVE  RequestProblems(document) # {}
<1>1. LookedAway("gone", "question")
  BY DEF LookedAway
<1>2. <<kind, f>> # <<"gone", "question">>
  BY <1>1, OverlookedIsAbsent
<1>3. <<kind, f>> \in {<<"narrowed", "question">>} \cup {"gone", "narrowed"} \X Sendable
  BY <1>2 DEF Sent
<1>4. <<kind, f>> \in RequestProblems(document)
  BY <1>3 DEF RequestProblems
<1>5. QED
  BY <1>4

\* The ways in which a document refuses a query.
LEMMA RejectedIsReported ==
    ASSUME NEW payload \in Payload, Rejects(document, payload),
           document \cap Overlooked = {}
    PROVE  Reported # {}
<1>1. CASE <<"gone", "route">> \in document \/ <<"gone", "request schema">> \in document
  BY <1>1 DEF Reported, RequestProblems
<1>2. CASE <<"gone", "route">> \notin document /\ <<"gone", "request schema">> \notin document
  <2>1. /\ <<"required", "debug">> \notin document
        /\ <<"required", "a new request field">> \notin document
        /\ <<"required", "a parameter">> \notin document
    <3>1. /\ LookedAway("required", "debug") /\ LookedAway("required", "a new request field")
          /\ LookedAway("required", "a parameter")
      BY DEF LookedAway
    <3>2. QED
      BY <3>1, OverlookedIsAbsent
  <2>2. PICK f \in Sent :
           \/ <<"gone", f>> \in document
           \/ <<"retyped", f>> \in document
           \/ document \cap ({"narrowed", "restricted"} \X {f}) # {}
           \/ <<"required", f>> \in document /\ payload[f] = "omitted"
    BY <1>2, <2>1 DEF Rejects
  <2>3. <<"retyped", f>> \notin document /\ <<"restricted", f>> \notin document
    <3>1. LookedAway("retyped", f) /\ LookedAway("restricted", f)
      BY DEF LookedAway, Sent, Sendable
    <3>2. QED
      BY <3>1, OverlookedIsAbsent
  <2>4. ~(<<"required", f>> \in document /\ payload[f] = "omitted")
    <3>1. CASE f \in {"mode", "rerank"}
      <4>1. LookedAway("required", f)
        BY <3>1 DEF LookedAway
      <4>2. QED
        BY <4>1, OverlookedIsAbsent
    <3>2. CASE f \in {"question", "llm", "embedder"}
      BY <3>2 DEF Payload
    <3>3. QED
      BY <3>1, <3>2 DEF Sent, Sendable
  <2>5. CASE <<"gone", f>> \in document \/ <<"narrowed", f>> \in document
    BY <1>2, <2>5, SentIsReported DEF Reported
  <2>6. QED
    BY <2>2, <2>3, <2>4, <2>5
<1>3. QED
  BY <1>1, <1>2

\* The ways in which an answer cannot be read, or is read as another.
LEMMA UnreadableIsReported ==
    ASSUME Unreadable(document) \/ Misread(document), document \cap Overlooked = {}
    PROVE  Reported # {}
<1>1. /\ <<"retyped", "refusal_reason">> \notin document
      /\ <<"retyped", "title">> \notin document
      /\ <<"retyped", "heading_path">> \notin document
      /\ <<"optional", "refused">> \notin document
      /\ document \cap ({"loosened"} \X {"marker", "chunk_id", "rank"}) = {}
  <2>1. /\ <<"retyped", "refusal_reason">> \notin document
        /\ <<"retyped", "title">> \notin document
        /\ <<"retyped", "heading_path">> \notin document
        /\ <<"optional", "refused">> \notin document
    <3>1. /\ LookedAway("retyped", "refusal_reason") /\ LookedAway("retyped", "title")
          /\ LookedAway("retyped", "heading_path") /\ LookedAway("optional", "refused")
      BY DEF LookedAway
    <3>2. QED
      BY <3>1, OverlookedIsAbsent
  <2>2. ASSUME NEW f \in {"marker", "chunk_id", "rank"}
        PROVE  <<"loosened", f>> \notin document
    <3>1. LookedAway("loosened", f)
      BY DEF LookedAway
    <3>2. QED
      BY <3>1, OverlookedIsAbsent
  <2>3. ASSUME NEW d \in {"loosened"} \X {"marker", "chunk_id", "rank"}
        PROVE  d \notin document
    BY <2>2
  <2>4. QED
    BY <2>1, <2>3
<1>2. CASE <<"gone", "route">> \in document
  BY <1>2 DEF Reported
<1>3. CASE <<"gone", "route">> \notin document
  <2>1. SUFFICES ResponseProblems(document) # {}
    BY <1>3 DEF Reported
  <2>2. CASE <<"gone", "response schema">> \in document
    BY <2>2 DEF ResponseProblems
  <2>3. CASE <<"gone", "response schema">> \notin document
    <3>1. CASE document \cap {<<"gone", "refused">>, <<"retyped", "refused">>} # {}
      BY <2>3, <3>1 DEF ResponseProblems
    <3>2. CASE document \cap {<<"gone", "citations">>, <<"retyped", "citations">>, <<"gone", "items">>} # {}
      BY <2>3, <3>2 DEF ResponseProblems
    <3>3. CASE document \cap ({"gone", "retyped", "optional"} \X Checked) # {}
      <4>1. CitationProblems(document) # {}
        BY <3>3 DEF CitationProblems
      <4>2. QED
        BY <2>3, <4>1 DEF ResponseProblems
    <3>4. QED
      <4>1. CASE Misread(document)
        BY <1>1, <3>1, <3>2, <4>1 DEF Misread
      <4>2. CASE document \cap ({"gone", "optional"} \X Checked) # {}
        BY <3>3, <4>2
      <4>3. CASE \E f \in {"refused", "refusal_reason", "citations"} \cup Declared : <<"retyped", f>> \in document
        <5>1. PICK f \in {"refused", "refusal_reason", "citations"} \cup Declared : <<"retyped", f>> \in document
          BY <4>3
        <5>2. f \in {"refused", "citations"} \cup Checked
          BY <1>1, <5>1 DEF Declared
        <5>3. CASE f \in Checked
          BY <3>3, <5>1, <5>3
        <5>4. QED
          BY <3>1, <3>2, <5>1, <5>2, <5>3
      <4>4. CASE document \cap ({"retyped"} \X ({"refused", "refusal_reason", "citations"} \cup Declared)) # {}
        <5>1. PICK deviation \in {"retyped"} \X ({"refused", "refusal_reason", "citations"} \cup Declared) :
                 deviation \in document
          BY <4>4
        <5> DEFINE fields == {"refused", "refusal_reason", "citations"} \cup Declared
        <5> HIDE DEF fields
        <5>2. deviation \in {"retyped"} \X fields
          BY <5>1 DEF fields
        <5>3. PICK f \in fields : deviation = <<"retyped", f>>
          BY <5>2
        <5>4. QED
          BY <4>3, <5>1, <5>3 DEF fields
      <4>5. CASE Unreadable(document)
        <5>1. \/ document \cap {<<"gone", "response schema">>, <<"gone", "items">>} # {}
              \/ document \cap ({"retyped"} \X ({"refused", "refusal_reason", "citations"} \cup Declared)) # {}
              \/ document \cap ({"gone", "optional"} \X Checked) # {}
          BY <1>1, <4>5 DEF Unreadable
        <5>2. CASE document \cap {<<"gone", "response schema">>, <<"gone", "items">>} # {}
          BY <2>3, <3>2, <5>2
        <5>3. QED
          BY <4>2, <4>4, <5>1, <5>2
      <4>6. QED
        BY <4>1, <4>5
  <2>4. QED
    BY <2>2, <2>3
<1>4. QED
  BY <1>2, <1>3

(***************************************************************************)
(* A deployment whose document verify_contract does not complain of works, *)
(* however many of the modelled deviations hide one another, unless one of *)
(* them is overlooked; and what is complained of changed, and is not one   *)
(* of those.                                                               *)
(***************************************************************************)
THEOREM DriftIsAlwaysReported ==
    ContractInit /\ [][ContractNext]_contractVars => []DriftIsReported
<1>1. ASSUME ContractInv PROVE DriftIsReported
  <2>1. Broken /\ document \cap Overlooked = {} => problems # {}
    BY <1>1, RejectedIsReported, UnreadableIsReported DEF ContractInv, Broken
  <2>2. problems \subseteq document \ Overlooked
    <3>1. Reported \subseteq document \ Overlooked
      <4>1. CASE <<"gone", "route">> \in document
        <5>1. ~LookedAway("gone", "route")
          BY DEF LookedAway
        <5>2. QED
          BY <4>1, <5>1, OverlookedPairs DEF Reported
      <4>2. CASE <<"gone", "route">> \notin document
        BY <4>2, ReportedChanged DEF Reported
      <4>3. QED
        BY <4>1, <4>2
    <3> HIDE DEF Reported
    <3>2. QED
      BY <1>1, <3>1 DEF ContractInv
  <2>3. QED
    BY <2>1, <2>2 DEF DriftIsReported
<1>2. QED
  BY <1>1, ContractInvAlways, PTL

-----------------------------------------------------------------------------
(* The plan.                                                               *)

FirstOf(s) == {i \in 1..Len(s) :
                  /\ s[i].fold # Filler
                  /\ \A j \in 1..(i - 1) : s[j].fold # s[i].fold}

Upto(s, i) == {j \in FirstOf(s) : j <= i}

\* What is kept of the fragments s is the first occurrence of each, in order.
FirstKept(s, k) ==
    /\ Len(k) = Cardinality(FirstOf(s))
    /\ \A i \in FirstOf(s) : k[Cardinality(Upto(s, i))] = s[i]
    /\ \A i \in 1..Len(s) : s[i].fold # Filler => \E m \in 1..Len(k) : k[m].fold = s[i].fold
    /\ \A m \in 1..Len(k) : k[m].fold # Filler /\ \E i \in 1..Len(s) : s[i] = k[m]
    /\ \A l, m \in 1..Len(k) : l # m => k[l].fold # k[m].fold

LEMMA FirstOfFinite ==
    ASSUME NEW s \in Seq(Fragment)
    PROVE  /\ IsFiniteSet(FirstOf(s))
           /\ FirstOf(s) \subseteq 1..Len(s)
           /\ \A i : IsFiniteSet(Upto(s, i)) /\ Cardinality(Upto(s, i)) <= Cardinality(FirstOf(s))
           /\ \A i \in FirstOf(s) : Cardinality(Upto(s, i)) \in 1..Cardinality(FirstOf(s))
<1> DEFINE places == 1..Len(s)
<1>1. IsFiniteSet(places)
  <2>1. Len(s) \in Int /\ 1 \in Int
    OBVIOUS
  <2>2. QED
    BY ONLY <2>1, FS_Interval
<1>2. FirstOf(s) \subseteq places
  BY DEF FirstOf
<1> HIDE DEF places
<1>3. IsFiniteSet(FirstOf(s))
  BY <1>1, <1>2, FS_Subset
<1>4. ASSUME NEW i PROVE IsFiniteSet(Upto(s, i)) /\ Cardinality(Upto(s, i)) <= Cardinality(FirstOf(s))
  <2>1. Upto(s, i) \subseteq FirstOf(s)
    BY DEF Upto
  <2>2. QED
    BY <1>3, <2>1, FS_Subset
<1>5. ASSUME NEW i \in FirstOf(s) PROVE Cardinality(Upto(s, i)) \in 1..Cardinality(FirstOf(s))
  <2>1. i <= i
    BY <1>2, <1>5 DEF places
  <2>2. Upto(s, i) # {}
    BY <1>5, <2>1 DEF Upto
  <2>3. Cardinality(Upto(s, i)) \in Nat /\ Cardinality(Upto(s, i)) # 0
    BY <1>4, <2>2, FS_CardinalityType, FS_EmptySet
  <2>4. Cardinality(FirstOf(s)) \in Nat
    BY <1>3, FS_CardinalityType
  <2>5. QED
    BY <1>4, <2>3, <2>4
<1>6. QED
  BY <1>2, <1>3, <1>4, <1>5 DEF places

\* A filler or a repeat changes nothing.
LEMMA RepeatIsPassed ==
    ASSUME NEW s \in Seq(Fragment), NEW k, NEW f \in Fragment, FirstKept(s, k),
           f.fold = Filler \/ \E m \in 1..Len(k) : k[m].fold = f.fold
    PROVE  FirstKept(Append(s, f), k)
<1> DEFINE t == Append(s, f)
<1>1. /\ Len(t) = Len(s) + 1
      /\ t[Len(s) + 1] = f
      /\ \A i \in 1..Len(s) : t[i] = s[i]
      /\ Len(s) \in Nat
  OBVIOUS
<1> HIDE DEF t
<1>2. f.fold = Filler \/ \E i \in 1..Len(s) : s[i].fold = f.fold
  BY DEF FirstKept
<1>3. FirstOf(t) = FirstOf(s)
  <2>1. ASSUME NEW i \in 1..Len(s) PROVE i \in FirstOf(t) <=> i \in FirstOf(s)
    <3>1. /\ t[i] = s[i]
          /\ i \in 1..Len(t)
          /\ \A j \in 1..(i - 1) : t[j] = s[j]
      BY <1>1, <2>1
    <3>2. QED
      BY <3>1, <2>1 DEF FirstOf
  <2>2. Len(s) + 1 \notin FirstOf(t)
    <3>1. SUFFICES ASSUME Len(s) + 1 \in FirstOf(t) PROVE FALSE
      OBVIOUS
    <3>2. f.fold # Filler /\ \A j \in 1..((Len(s) + 1) - 1) : t[j].fold # f.fold
      BY <1>1, <3>1 DEF FirstOf
    <3>3. QED
      BY <1>1, <1>2, <3>2
  <2>3. FirstOf(t) \subseteq 1..(Len(s) + 1) /\ FirstOf(s) \subseteq 1..Len(s)
    BY <1>1 DEF FirstOf
  <2>4. \A i : i \in 1..(Len(s) + 1) => i \in 1..Len(s) \/ i = Len(s) + 1
    BY <1>1
  <2>5. QED
    BY <2>1, <2>2, <2>3, <2>4
<1>4. \A i \in FirstOf(s) : i \in 1..Len(s)
  BY DEF FirstOf
<1>5. \A i : Upto(t, i) = Upto(s, i)
  BY <1>3 DEF Upto
<1>6. \A i \in 1..Len(t) : t[i].fold # Filler => \E m \in 1..Len(k) : k[m].fold = t[i].fold
  <2> SUFFICES ASSUME NEW i \in 1..Len(t), t[i].fold # Filler
               PROVE  \E m \in 1..Len(k) : k[m].fold = t[i].fold
    OBVIOUS
  <2>1. i \in 1..Len(s) \/ i = Len(s) + 1
    BY <1>1
  <2>2. CASE i \in 1..Len(s)
    BY <1>1, <2>2 DEF FirstKept
  <2>3. CASE i = Len(s) + 1
    BY <1>1, <2>3
  <2>4. QED
    BY <2>1, <2>2, <2>3
<1>7. \A m \in 1..Len(k) : k[m].fold # Filler /\ \E i \in 1..Len(t) : t[i] = k[m]
  <2> SUFFICES ASSUME NEW m \in 1..Len(k)
               PROVE  k[m].fold # Filler /\ \E i \in 1..Len(t) : t[i] = k[m]
    OBVIOUS
  <2>1. PICK i \in 1..Len(s) : s[i] = k[m]
    BY DEF FirstKept
  <2>2. i \in 1..Len(t) /\ t[i] = k[m]
    BY <1>1, <2>1
  <2>3. QED
    BY <2>2 DEF FirstKept
<1>8. FirstKept(t, k)
  BY <1>1, <1>3, <1>4, <1>5, <1>6, <1>7 DEF FirstKept
<1>9. QED
  BY <1>8 DEF t

\* A fragment that is new is the next first occurrence.
LEMMA NewIsKept ==
    ASSUME NEW s \in Seq(Fragment), NEW k \in Seq(Fragment), NEW f \in Fragment, FirstKept(s, k),
           f.fold # Filler, \A m \in 1..Len(k) : k[m].fold # f.fold
    PROVE  FirstKept(Append(s, f), Append(k, f))
<1> DEFINE t == Append(s, f)
           n == Len(s) + 1
           u == Append(k, f)
           size == Cardinality(FirstOf(s))
<1>1. /\ Len(t) = n /\ t[n] = f
      /\ \A i \in 1..Len(s) : t[i] = s[i]
      /\ Len(s) \in Nat
      /\ t \in Seq(Fragment)
  OBVIOUS
<1>2. /\ Len(u) = Len(k) + 1 /\ u[Len(k) + 1] = f
      /\ \A m \in 1..Len(k) : u[m] = k[m]
      /\ Len(k) \in Nat
  OBVIOUS
<1> HIDE DEF t, u
<1>3. \A i \in 1..Len(s) : s[i].fold # f.fold
  BY DEF FirstKept
<1>4. FirstOf(t) = FirstOf(s) \cup {n}
  <2>1. ASSUME NEW i \in 1..Len(s) PROVE i \in FirstOf(t) <=> i \in FirstOf(s)
    <3>1. /\ t[i] = s[i]
          /\ i \in 1..Len(t)
          /\ \A j \in 1..(i - 1) : t[j] = s[j]
      BY <1>1, <2>1
    <3>2. QED
      BY <3>1, <2>1 DEF FirstOf
  <2>2. n \in FirstOf(t)
    <3>1. n \in 1..Len(t) /\ \A j \in 1..(n - 1) : t[j].fold # t[n].fold
      BY <1>1, <1>3
    <3>2. QED
      BY <1>1, <3>1 DEF FirstOf
  <2>3. FirstOf(t) \subseteq 1..n /\ FirstOf(s) \subseteq 1..Len(s)
    BY <1>1 DEF FirstOf
  <2>4. \A i : i \in 1..n => i \in 1..Len(s) \/ i = n
    BY <1>1
  <2>5. QED
    BY <2>1, <2>2, <2>3, <2>4
<1>5. IsFiniteSet(FirstOf(s)) /\ FirstOf(s) \subseteq 1..Len(s)
      /\ \A i \in FirstOf(s) : Cardinality(Upto(s, i)) \in 1..size
  BY FirstOfFinite
<1>6. n \notin FirstOf(s)
  BY <1>1, <1>5
<1>7. Cardinality(FirstOf(t)) = size + 1 /\ size = Len(k)
  <2>1. IsFiniteSet(FirstOf(s))
    BY <1>5
  <2>2. Cardinality(FirstOf(s) \cup {n}) = size + 1
    BY ONLY <1>6, <2>1, FS_AddElement
  <2>3. QED
    BY <1>4, <2>2 DEF FirstKept
<1>8. \A i \in FirstOf(t) : u[Cardinality(Upto(t, i))] = t[i]
  <2> SUFFICES ASSUME NEW i \in FirstOf(t) PROVE u[Cardinality(Upto(t, i))] = t[i]
    OBVIOUS
  <2>1. CASE i = n
    <3>1. \A j \in FirstOf(t) : j <= n
      BY <1>1, <1>4, <1>5
    <3>2. Upto(t, i) = FirstOf(t)
      BY <2>1, <3>1 DEF Upto
    <3>3. QED
      BY <1>1, <1>2, <1>7, <2>1, <3>2
  <2>2. CASE i \in FirstOf(s)
    <3>1. ~(n <= i) /\ i \in 1..Len(s)
      BY <1>1, <1>5, <2>2
    <3>2. Upto(t, i) = Upto(s, i)
      BY <1>4, <3>1 DEF Upto
    <3>3. Cardinality(Upto(s, i)) \in 1..Len(k)
      BY <1>5, <1>7, <2>2
    <3>4. k[Cardinality(Upto(s, i))] = s[i]
      BY <2>2 DEF FirstKept
    <3>5. QED
      BY <1>1, <1>2, <3>1, <3>2, <3>3, <3>4
  <2>3. QED
    BY <1>4, <2>1, <2>2
<1>9. \A i \in 1..Len(t) : t[i].fold # Filler => \E m \in 1..Len(u) : u[m].fold = t[i].fold
  <2> SUFFICES ASSUME NEW i \in 1..Len(t), t[i].fold # Filler
               PROVE  \E m \in 1..Len(u) : u[m].fold = t[i].fold
    OBVIOUS
  <2>1. i \in 1..Len(s) \/ i = n
    BY <1>1
  <2>2. CASE i \in 1..Len(s)
    <3>1. PICK m \in 1..Len(k) : k[m].fold = s[i].fold
      BY <1>1, <2>2 DEF FirstKept
    <3>2. m \in 1..Len(u) /\ u[m].fold = t[i].fold
      BY <1>1, <1>2, <2>2, <3>1
    <3>3. QED
      BY <3>2
  <2>3. CASE i = n
    <3>1. Len(k) + 1 \in 1..Len(u)
      BY <1>2
    <3>2. QED
      BY <1>1, <1>2, <2>3, <3>1
  <2>4. QED
    BY <2>1, <2>2, <2>3
<1>10. \A m \in 1..Len(u) : u[m].fold # Filler /\ \E i \in 1..Len(t) : t[i] = u[m]
  <2> SUFFICES ASSUME NEW m \in 1..Len(u)
               PROVE  u[m].fold # Filler /\ \E i \in 1..Len(t) : t[i] = u[m]
    OBVIOUS
  <2>1. m \in 1..Len(k) \/ m = Len(k) + 1
    BY <1>2
  <2>2. CASE m \in 1..Len(k)
    <3>1. k[m].fold # Filler
      BY <2>2 DEF FirstKept
    <3>2. PICK i \in 1..Len(s) : s[i] = k[m]
      BY <2>2 DEF FirstKept
    <3>3. i \in 1..Len(t) /\ t[i] = u[m]
      BY <1>1, <1>2, <2>2, <3>2
    <3>4. QED
      BY <1>2, <2>2, <3>1, <3>3
  <2>3. CASE m = Len(k) + 1
    <3>1. n \in 1..Len(t) /\ t[n] = u[m]
      BY <1>1, <1>2, <2>3
    <3>2. QED
      BY <1>1, <3>1
  <2>4. QED
    BY <2>1, <2>2, <2>3
<1>11. \A l, m \in 1..Len(u) : l # m => u[l].fold # u[m].fold
  <2>1. \A m \in 1..Len(u) : m \in 1..Len(k) \/ m = Len(k) + 1
    BY <1>2
  <2>2. \A l, m \in 1..Len(k) : l # m => k[l].fold # k[m].fold
    BY DEF FirstKept
  <2>3. QED
    BY <1>2, <2>1, <2>2
<1>12. Len(u) = Cardinality(FirstOf(t))
  BY <1>2, <1>7
<1>13. FirstKept(t, u)
  BY <1>8, <1>9, <1>10, <1>11, <1>12 DEF FirstKept
<1>14. QED
  BY <1>13 DEF t, u

PlanInv ==
    /\ planning \in {"none", "splitting", "planned"}
    /\ fragments \in Seq(Fragment)
    /\ planning = "none" => fragments = <<>> /\ kept = <<>>
    /\ planning = "splitting" =>
          kept \in Seq(Fragment) /\ Len(kept) < MaxSubQuestions /\ FirstKept(fragments, kept)
    /\ planning = "planned" =>
          \/ FirstOf(fragments) = {} /\ kept = <<Whole>>
          \/ Len(kept) = Cardinality(FirstOf(fragments)) /\ Len(kept) \in 1..MaxSubQuestions
             /\ FirstKept(fragments, kept)

LEMMA NothingKept == FirstKept(<<>>, <<>>) /\ FirstOf(<<>>) = {}
<1>1. FirstOf(<<>>) = {}
  BY DEF FirstOf
<1>2. QED
  BY <1>1, FS_EmptySet DEF FirstKept

LEMMA PlanInvAlways == PlannerInit /\ [][PlannerNext]_plannerVars => []PlanInv
<1>1. PlannerInit => PlanInv
  <2> SUFFICES ASSUME PlannerInit PROVE PlanInv
    OBVIOUS
  <2>1. planning = "none" /\ fragments = <<>> /\ kept = <<>>
    BY DEF PlannerInit
  <2>2. QED
    BY <2>1 DEF PlanInv
<1>2. PlanInv /\ [PlannerNext]_plannerVars => PlanInv'
  <2> SUFFICES ASSUME PlanInv, [PlannerNext]_plannerVars PROVE PlanInv'
    OBVIOUS
  <2> USE DEF MaxSubQuestions
  <2>1. CASE PlanShort
    BY <2>1, NothingKept DEF PlanShort, PlanInv
  <2>2. CASE PlanLong
    BY <2>2, NothingKept DEF PlanLong, PlanInv
  <2>3. CASE TakeFragment
    <3>1. planning = "splitting"
      BY <2>3 DEF TakeFragment
    <3>2. fragments \in Seq(Fragment) /\ kept \in Seq(Fragment) /\ Len(kept) < 3
          /\ FirstKept(fragments, kept)
      BY <3>1 DEF PlanInv
    <3>3. PICK fragment \in Fragment :
             /\ fragments' = Append(fragments, fragment)
             /\ kept' = IF fragment.fold = Filler \/ Seen(fragment) THEN kept
                        ELSE Append(kept, fragment)
             /\ planning' = IF Len(kept') = 3 THEN "planned" ELSE "splitting"
      BY <2>3 DEF TakeFragment
    <3>4. kept' \in Seq(Fragment) /\ Len(kept') <= 3 /\ Len(kept') \in Nat
      BY <3>2, <3>3
    <3>5. FirstKept(fragments', kept')
      <4>1. CASE fragment.fold = Filler \/ Seen(fragment)
        BY <3>2, <3>3, <4>1, RepeatIsPassed DEF Seen
      <4>2. CASE fragment.fold # Filler /\ ~Seen(fragment)
        BY <3>2, <3>3, <4>2, NewIsKept DEF Seen
      <4>3. QED
        BY <4>1, <4>2
    <3>6. fragments' \in Seq(Fragment) /\ Len(kept') = Cardinality(FirstOf(fragments'))
      BY <3>2, <3>3, <3>5 DEF FirstKept
    <3>7. planning' # "none" /\ planning' \in {"none", "splitting", "planned"}
      BY <3>3
    <3>8. CASE Len(kept') = 3
      <4>1. planning' = "planned" /\ Len(kept') \in 1..3
        BY <3>3, <3>8
      <4>2. QED
        BY <3>5, <3>6, <4>1 DEF PlanInv
    <3>9. CASE Len(kept') # 3
      <4>1. Len(kept') < 3
        <5>1. PICK size \in Nat : size = Len(kept')
          BY <3>4
        <5>2. size <= 3 /\ size # 3
          BY <3>4, <3>9, <5>1
        <5>3. size < 3
          BY ONLY <5>2, size \in Nat
        <5>4. QED
          BY <5>1, <5>3
      <4>2. planning' = "splitting"
        BY <3>3, <3>9
      <4>3. QED
        BY <3>4, <3>5, <3>6, <4>1, <4>2 DEF PlanInv
    <3>10. QED
      BY <3>8, <3>9
  <2>4. CASE EndQuestion
    <3>1. /\ planning = "splitting" /\ planning' = "planned" /\ fragments' = fragments
          /\ kept' = IF kept = <<>> THEN <<Whole>> ELSE kept
      BY <2>4 DEF EndQuestion
    <3>2. fragments \in Seq(Fragment) /\ kept \in Seq(Fragment) /\ Len(kept) < 3
          /\ FirstKept(fragments, kept)
      BY <3>1 DEF PlanInv
    <3>3. Len(kept) = Cardinality(FirstOf(fragments)) /\ IsFiniteSet(FirstOf(fragments))
      BY <3>2, FirstOfFinite DEF FirstKept
    <3>4. CASE kept = <<>>
      <4>1. FirstOf(fragments) = {}
        BY <3>3, <3>4, FS_EmptySet
      <4>2. QED
        BY <3>1, <3>2, <3>4, <4>1 DEF PlanInv
    <3>5. CASE kept # <<>>
      <4>1. Len(kept) \in 1..3
        <5>1. kept \in Seq(Fragment) /\ Len(kept) < 3
          BY <3>2
        <5>2. Len(kept) \in Nat /\ Len(kept) # 0
          BY ONLY <3>5, <5>1, EmptySeq
        <5>3. PICK size \in Nat : size = Len(kept)
          BY <5>2
        <5>4. size < 3 /\ size # 0
          BY <5>1, <5>2, <5>3
        <5>5. size \in 1..3
          BY ONLY <5>4, size \in Nat
        <5>6. QED
          BY <5>3, <5>5
      <4>2. kept' = kept
        BY <3>1, <3>5
      <4>3. QED
        BY <3>1, <3>2, <3>3, <4>1, <4>2 DEF PlanInv
    <3>6. QED
      BY <3>4, <3>5
  <2>5. CASE UNCHANGED plannerVars
    BY <2>5 DEF plannerVars, PlanInv
  <2>6. QED
    BY <2>1, <2>2, <2>3, <2>4, <2>5 DEF PlannerNext
<1>3. QED
  BY <1>1, <1>2, PTL

(***************************************************************************)
(* A plan has one to three sub-questions no two of which fold alike, the   *)
(* first occurrences of the question's fragments in their order, or it is  *)
(* the question itself: for any fragments, however many are met.           *)
(***************************************************************************)
THEOREM PlansAreUsable == PlannerInit /\ [][PlannerNext]_plannerVars => []PlanIsUsable
<1>1. ASSUME PlanInv PROVE PlanIsUsable
  <2> SUFFICES ASSUME planning = "planned"
               PROVE  /\ Len(kept) \in 1..MaxSubQuestions
                      /\ \A i, j \in 1..Len(kept) : i # j => kept[i].fold # kept[j].fold
                      /\ IF FirstOf(fragments) = {} THEN kept = <<Whole>>
                         ELSE /\ Len(kept) = Cardinality(FirstOf(fragments))
                              /\ \A i \in FirstOf(fragments) :
                                    kept[Cardinality(Upto(fragments, i))] = fragments[i]
    BY DEF PlanIsUsable, FirstOf, Upto
  <2>1. CASE FirstOf(fragments) = {} /\ kept = <<Whole>>
    BY <2>1 DEF MaxSubQuestions
  <2>2. CASE /\ Len(kept) = Cardinality(FirstOf(fragments)) /\ Len(kept) \in 1..MaxSubQuestions
             /\ FirstKept(fragments, kept)
    <3>1. Cardinality({}) = 0
      BY FS_EmptySet
    <3>2. FirstOf(fragments) # {}
      BY <2>2, <3>1
    <3>3. QED
      BY <2>2, <3>2 DEF FirstKept
  <2>3. QED
    BY <1>1, <2>1, <2>2 DEF PlanInv
<1>2. QED
  BY <1>1, PlanInvAlways, PTL

-----------------------------------------------------------------------------
(* The query.                                                              *)

\* What was kept so far of the citations looked at is the best of each chunk.
BestSoFar ==
    \A c \in Chunks :
        IF best[c] = 0 THEN \A i \in 1..looked : answer.citations[i].chunk # c
        ELSE /\ answer.citations[best[c]].chunk = c
             /\ \A i \in 1..looked : answer.citations[i].chunk = c =>
                   answer.citations[best[c]].rank <= answer.citations[i].rank

\* What a call has in hand in each of its phases.
InHand ==
    /\ phase \in {"call", "headers", "body", "raised"} =>
          answer = NoAnswer /\ looked = 0 /\ passages = <<>>
    /\ phase \in {"ranking", "returned"} => evidenceState = EvidenceState(answer)
    /\ phase = "ranking" => ~answer.refused /\ topK > 0 /\ passages = <<>>
    /\ phase = "returned" =>
          IF answer.refused \/ topK <= 0 THEN passages = <<>>
          ELSE looked = Len(answer.citations) /\ passages = ToPassages

ClientInv == TypeOK /\ BestSoFar /\ InHand

LEMMA AnswersCite ==
    ASSUME P1Assumption, NEW a \in Answers
    PROVE  /\ a.citations \in Seq(Citation) /\ a.refused \in BOOLEAN
           /\ Len(a.citations) \in Nat
           /\ \A i \in 1..Len(a.citations) :
                 /\ a.citations[i] \in Citation
                 /\ a.citations[i].chunk \in Chunks
                 /\ a.citations[i].rank \in Nat
<1>1. a.citations \in SeqOf(Citation, MaxCitations) /\ a.refused \in BOOLEAN
  BY DEF Answers
<1>2. PICK m \in 0..MaxCitations : a.citations \in [1..m -> Citation]
  BY <1>1 DEF SeqOf
<1>3. m \in Nat
  BY <1>2 DEF P1Assumption
<1>4. a.citations \in Seq(Citation)
  <2> HIDE DEF Citation
  <2>1. QED
    BY <1>2, <1>3
<1>5. \A i \in 1..Len(a.citations) : a.citations[i] \in Citation
  <2> HIDE DEF Citation
  <2>1. QED
    BY <1>4, ElementOfSeq
<1>6. \A citation \in Citation : citation.chunk \in Chunks /\ citation.rank \in Nat
  BY DEF Citation, P1Assumption
<1>7. Len(a.citations) \in Nat
  BY <1>4
<1>8. QED
  BY <1>1, <1>4, <1>5, <1>6, <1>7

LEMMA NoAnswerIsOne ==
    ASSUME P1Assumption
    PROVE  NoAnswer \in Answers /\ NoAnswer.citations = <<>> /\ NoAnswer.refused = FALSE
<1>1. <<>> \in [1..0 -> Citation]
  BY DEF Citation
<1>2. 0 \in 0..MaxCitations
  BY DEF P1Assumption
<1>3. <<>> \in SeqOf(Citation, MaxCitations)
  BY <1>1, <1>2 DEF SeqOf
<1>4. QED
  BY <1>3 DEF NoAnswer, Answers

\* The positions that were kept.
LEMMA KeptArePositions ==
    ASSUME P1Assumption, TypeOK
    PROVE  /\ looked \in Nat
           /\ Kept \subseteq 1..looked
           /\ \A c \in Chunks : best[c] \in 0..looked /\ (best[c] # 0 => best[c] \in Kept)
           /\ \A i \in Kept : \E c \in Chunks : i = best[c]
           /\ IsFiniteSet(Kept) /\ Cardinality(Kept) \in Nat
           /\ \A i \in 1..looked : /\ answer.citations[i] \in Citation
                                   /\ answer.citations[i].chunk \in Chunks
                                   /\ answer.citations[i].rank \in Nat
<1>1. answer \in Answers
  BY DEF TypeOK
<1>2. /\ looked \in Nat /\ looked <= Len(answer.citations)
      /\ \A i \in 1..looked : /\ answer.citations[i] \in Citation
                              /\ answer.citations[i].chunk \in Chunks
                              /\ answer.citations[i].rank \in Nat
  <2>1. Len(answer.citations) \in Nat
        /\ \A i \in 1..Len(answer.citations) : /\ answer.citations[i] \in Citation
                                               /\ answer.citations[i].chunk \in Chunks
                                               /\ answer.citations[i].rank \in Nat
    BY <1>1, AnswersCite
  <2>2. looked \in 0..Len(answer.citations)
    BY DEF TypeOK
  <2>3. QED
    BY <2>1, <2>2
<1>3. \A c \in Chunks : best[c] \in 0..looked
  BY DEF TypeOK
<1> DEFINE places == 1..looked
<1>4. Kept \subseteq places
  BY <1>2, <1>3 DEF Kept
<1>5. IsFiniteSet(places)
  <2>1. looked \in Int /\ 1 \in Int
    BY <1>2
  <2>2. QED
    BY ONLY <2>1, FS_Interval
<1> HIDE DEF places
<1>6. IsFiniteSet(Kept)
  BY <1>4, <1>5, FS_Subset
<1>7. Cardinality(Kept) \in Nat
  BY <1>6, FS_CardinalityType
<1>8. (\A c \in Chunks : best[c] # 0 => best[c] \in Kept) /\ \A i \in Kept : \E c \in Chunks : i = best[c]
  BY DEF Kept
<1>9. QED
  BY <1>2, <1>3, <1>4, <1>6, <1>7, <1>8 DEF places

\* Those before a kept position, and the position itself.
Ahead(i) == {j \in Kept : j = i \/ Before(j, i)}

LEMMA BeforeOrders ==
    ASSUME P1Assumption, TypeOK, NEW i \in Kept, NEW j \in Kept
    PROVE  /\ i # j => Before(i, j) \/ Before(j, i)
           /\ Before(i, j) => /\ i # j /\ ~Before(j, i)
                              /\ answer.citations[i].rank <= answer.citations[j].rank
           /\ \A l \in Kept : Before(l, i) /\ Before(i, j) => Before(l, j)
<1>1. \A l \in Kept : l \in Nat /\ answer.citations[l].rank \in Nat
  BY KeptArePositions
<1>2. QED
  BY <1>1 DEF Before

\* Every place from the first to the last is taken, each by one of the kept.
LEMMA PlacesAreTaken ==
    ASSUME P1Assumption, TypeOK
    PROVE  /\ \A i \in Kept : Place(i) \in 1..Cardinality(Kept)
           /\ \A i, j \in Kept : Before(i, j) => Place(i) < Place(j)
           /\ \A n \in 1..Cardinality(Kept) : \E i \in Kept : Place(i) = n
<1>1. IsFiniteSet(Kept) /\ Cardinality(Kept) \in Nat
  BY KeptArePositions
<1>2. ASSUME NEW i \in Kept
      PROVE  /\ IsFiniteSet(Ahead(i)) /\ i \in Ahead(i)
             /\ Place(i) = Cardinality(Ahead(i))
             /\ Place(i) \in 1..Cardinality(Kept)
  <2>1. Ahead(i) \subseteq Kept /\ i \in Ahead(i)
    BY <1>2 DEF Ahead
  <2>2. IsFiniteSet(Ahead(i)) /\ Cardinality(Ahead(i)) <= Cardinality(Kept)
    BY <1>1, <2>1, FS_Subset
  <2>3. Cardinality(Ahead(i)) \in Nat /\ Cardinality(Ahead(i)) # 0
    BY <2>1, <2>2, FS_CardinalityType, FS_EmptySet
  <2>4. Place(i) = Cardinality(Ahead(i))
    BY DEF Place, Ahead
  <2>5. QED
    BY <1>1, <2>1, <2>2, <2>3, <2>4
<1>3. ASSUME NEW i \in Kept, NEW j \in Kept, Before(i, j)
      PROVE  Place(i) < Place(j)
  <2>1. Ahead(i) \subseteq Ahead(j)
    <3> SUFFICES ASSUME NEW l \in Ahead(i) PROVE l \in Ahead(j)
      OBVIOUS
    <3>1. l \in Kept /\ (l = i \/ Before(l, i))
      BY DEF Ahead
    <3>2. l = i \/ Before(l, j)
      BY <1>3, <3>1, BeforeOrders
    <3>3. QED
      BY <1>3, <3>1, <3>2 DEF Ahead
  <2>2. j \notin Ahead(i) /\ j \in Ahead(j)
    <3>1. j # i /\ ~Before(j, i)
      BY <1>3, BeforeOrders
    <3>2. QED
      BY <1>2, <1>3, <3>1 DEF Ahead
  <2>3. IsFiniteSet(Ahead(j)) /\ Ahead(i) # Ahead(j)
    BY <1>2, <1>3, <2>2
  <2>4. Cardinality(Ahead(i)) <= Cardinality(Ahead(j)) /\ Cardinality(Ahead(i)) # Cardinality(Ahead(j))
    BY <2>1, <2>3, FS_Subset
  <2>5. Place(i) \in 1..Cardinality(Kept) /\ Place(j) \in 1..Cardinality(Kept)
        /\ Place(i) = Cardinality(Ahead(i)) /\ Place(j) = Cardinality(Ahead(j))
    BY <1>2, <1>3
  <2>6. QED
    BY <1>1, <2>4, <2>5
<1>4. \A n \in 1..Cardinality(Kept) : \E i \in Kept : Place(i) = n
  <2> DEFINE places == 1..Cardinality(Kept)
             place == [i \in Kept |-> Place(i)]
  <2>1. place \in [Kept -> places]
    BY <1>2
  <2>2. ASSUME NEW i \in Kept, NEW j \in Kept, Place(i) = Place(j) PROVE i = j
    <3>1. Place(i) \in Nat /\ Place(j) \in Nat
      BY <1>1, <1>2, <2>2
    <3>2. ~(Place(i) < Place(j)) /\ ~(Place(j) < Place(i))
      BY <2>2, <3>1
    <3>3. QED
      BY <1>3, <2>2, <3>2, BeforeOrders
  <2>3. \A i, j \in Kept : place[i] = place[j] => i = j
    BY <2>2
  <2>4. IsFiniteSet(places) /\ Cardinality(places) = Cardinality(Kept)
    <3>1. Cardinality(Kept) \in Int /\ 1 \in Int /\ Cardinality(Kept) \in Nat
      BY <1>1
    <3>2. IsFiniteSet(places)
          /\ Cardinality(places) = IF 1 > Cardinality(Kept) THEN 0 ELSE Cardinality(Kept) - 1 + 1
      BY ONLY <3>1, FS_Interval
    <3>3. QED
      BY <3>1, <3>2
  <2>5. \A i \in Kept : place[i] = Place(i)
    OBVIOUS
  <2> HIDE DEF places, place
  <2>6. place \in Injection(Kept, places)
    BY <2>1, <2>3, Fun_IsInj
  <2>7. place \in Surjection(Kept, places)
    BY <2>4, <2>6, FS_Injection
  <2>8. \A n \in places : \E i \in Kept : place[i] = n
    BY <2>7 DEF Surjection
  <2>9. QED
    BY <2>5, <2>8 DEF places
<1>5. QED
  BY <1>2, <1>3, <1>4

At(n) == CHOOSE i \in Kept : Place(i) = n
Size == IF topK < Cardinality(Kept) THEN topK ELSE Cardinality(Kept)

\* The passages are the citations that were kept, by place, up to the cap.
LEMMA PassagesByPlace ==
    ASSUME P1Assumption, TypeOK, topK > 0
    PROVE  /\ ToPassages \in Seq(Citation)
           /\ Len(ToPassages) = Size /\ Size \in Nat /\ Size <= Cardinality(Kept)
           /\ \A n \in 1..Size : /\ At(n) \in Kept /\ Place(At(n)) = n
                                 /\ ToPassages[n] = answer.citations[At(n)]
<1>1. Cardinality(Kept) \in Nat /\ topK \in Int
  BY KeptArePositions DEF TypeOK, P1Assumption
<1>2. Size \in Nat /\ Size <= Cardinality(Kept)
  BY <1>1 DEF Size
<1>3. ASSUME NEW n \in 1..Size PROVE At(n) \in Kept /\ Place(At(n)) = n
  <2>1. n \in 1..Cardinality(Kept)
    BY <1>1, <1>2
  <2>2. \E i \in Kept : Place(i) = n
    BY <2>1, PlacesAreTaken
  <2>3. QED
    BY <2>2 DEF At
<1>4. ToPassages = [n \in 1..Size |-> answer.citations[At(n)]]
  BY DEF ToPassages, At, Size
<1>5. \A n \in 1..Size : answer.citations[At(n)] \in Citation
  BY <1>3, KeptArePositions
<1> HIDE DEF Citation, ToPassages, Size, At
<1>6. ToPassages \in Seq(Citation) /\ Len(ToPassages) = Size
  BY <1>2, <1>4, <1>5
<1>7. \A n \in 1..Size : ToPassages[n] = answer.citations[At(n)]
  BY <1>4
<1>8. QED
  BY <1>2, <1>3, <1>6, <1>7

LEMMA StatusHasError ==
    ASSUME P1Assumption, NEW status \in Statuses
    PROVE  StatusError(status) \in {"backend_unavailable", "provider_error", "unauthorized",
                                    "rate_limited", "validation_error", "contract_mismatch"}
BY DEF StatusError, P1Assumption

LEMMA StatesOfEvidence ==
    ASSUME NEW a, a.refused \in BOOLEAN
    PROVE  /\ EvidenceState(a) \in {"grounded", "upstream_refused", "answered_without_citations"}
           /\ EvidenceState(a) = "grounded" <=> ~a.refused /\ a.citations # <<>>
BY DEF EvidenceState

LEMMA RaiseKeeps ==
    ASSUME P1Assumption, ClientInv, phase \notin {"ranking", "returned"}, NEW slug, Raise(slug), total' \in Nat,
           slug \in {"backend_unavailable", "provider_error", "unauthorized",
                     "rate_limited", "validation_error", "contract_mismatch"}
    PROVE  ClientInv'
<1>1. /\ phase' = "raised" /\ error' = slug /\ topK' = topK /\ fits' = fits /\ answer' = answer
      /\ looked' = looked /\ best' = best /\ passages' = passages /\ evidenceState' = evidenceState
  BY DEF Raise, call, returned, ranking
<1>2. TypeOK'
  BY <1>1 DEF ClientInv, TypeOK
<1>3. BestSoFar'
  BY <1>1 DEF ClientInv, BestSoFar
<1>4. phase \in {"call", "headers", "body", "raised"}
  BY DEF ClientInv, TypeOK
<1>5. InHand'
  BY <1>1, <1>4 DEF ClientInv, InHand
<1>6. QED
  BY <1>2, <1>3, <1>5 DEF ClientInv

LEMMA LookingKeeps ==
    ASSUME P1Assumption, ClientInv, LookAt
    PROVE  ClientInv'
<1>1. /\ phase = "ranking" /\ looked < Len(answer.citations) /\ looked' = looked + 1
      /\ phase' = phase /\ total' = total /\ answer' = answer /\ passages' = passages
      /\ evidenceState' = evidenceState /\ error' = error /\ topK' = topK /\ fits' = fits
  BY DEF LookAt, call
<1> DEFINE n == looked + 1
           chunk == answer.citations[n].chunk
           better == \/ best[chunk] = 0
                     \/ answer.citations[n].rank < answer.citations[best[chunk]].rank
<1>2. best' = [best EXCEPT ![chunk] = IF better THEN n ELSE best[chunk]]
  BY DEF LookAt
<1>3. /\ looked \in Nat /\ Len(answer.citations) \in Nat
      /\ \A i \in 1..Len(answer.citations) : /\ answer.citations[i].chunk \in Chunks
                                             /\ answer.citations[i].rank \in Nat
  <2>1. answer \in Answers /\ looked \in 0..Len(answer.citations)
    BY DEF ClientInv, TypeOK
  <2>2. QED
    BY <2>1, AnswersCite
<1>4. n \in 1..Len(answer.citations)
  BY <1>1, <1>3
<1>5. chunk \in Chunks /\ best \in [Chunks -> 0..looked]
  BY <1>3, <1>4 DEF ClientInv, TypeOK
<1> HIDE DEF better
<1>6. /\ best'[chunk] = IF better THEN n ELSE best[chunk]
      /\ \A c \in Chunks \ {chunk} : best'[c] = best[c]
  BY <1>2, <1>5
<1>7. best' \in [Chunks -> 0..n]
  <2>1. n \in 0..n /\ 0..looked \subseteq 0..n
    BY <1>3
  <2> HIDE DEF n
  <2>2. best \in [Chunks -> 0..n]
    BY <1>5, <2>1
  <2>3. (IF better THEN n ELSE best[chunk]) \in 0..n
    BY <1>5, <2>1, <2>2
  <2>4. QED
    BY <1>2, <2>2, <2>3
<1>8. TypeOK'
  <2>1. looked' \in 0..Len(answer'.citations)
    BY <1>1, <1>3
  <2>2. QED
    BY <1>1, <1>7, <2>1 DEF ClientInv, TypeOK
<1>9. BestSoFar'
  <2> SUFFICES ASSUME NEW c \in Chunks
               PROVE  IF best'[c] = 0 THEN \A i \in 1..n : answer.citations[i].chunk # c
                      ELSE /\ answer.citations[best'[c]].chunk = c
                           /\ \A i \in 1..n : answer.citations[i].chunk = c =>
                                 answer.citations[best'[c]].rank <= answer.citations[i].rank
    BY <1>1 DEF BestSoFar
  <2>1. /\ best[c] \in 0..looked
        /\ IF best[c] = 0 THEN \A i \in 1..looked : answer.citations[i].chunk # c
           ELSE /\ answer.citations[best[c]].chunk = c
                /\ \A i \in 1..looked : answer.citations[i].chunk = c =>
                      answer.citations[best[c]].rank <= answer.citations[i].rank
    BY <1>5 DEF ClientInv, BestSoFar
  <2>2. \A i \in 1..n : i \in 1..looked \/ i = n
    BY <1>3
  <2>3. /\ n # 0 /\ answer.citations[n].rank \in Nat
        /\ \A i \in 1..looked : answer.citations[i].rank \in Nat
        /\ best[c] # 0 => best[c] \in 1..looked
    BY <1>1, <1>3, <1>4, <2>1
  <2> HIDE DEF n
  <2>4. CASE c # chunk
    <3>1. best'[c] = best[c] /\ answer.citations[n].chunk # c
      BY <1>6, <2>4
    <3>2. QED
      BY <2>1, <2>2, <3>1
  <2>5. CASE c = chunk /\ better
    <3>1. best'[c] = n /\ answer.citations[n].chunk = c
      BY <1>6, <2>5
    <3>2. ASSUME NEW i \in 1..n, answer.citations[i].chunk = c
          PROVE  answer.citations[n].rank <= answer.citations[i].rank
      <4>1. CASE i = n
        BY <2>3, <4>1
      <4>2. CASE i \in 1..looked
        <5>1. best[c] # 0 /\ answer.citations[best[c]].rank <= answer.citations[i].rank
          BY <2>1, <3>2, <4>2
        <5>2. answer.citations[n].rank < answer.citations[best[c]].rank
          BY <2>5, <5>1 DEF better
        <5>3. answer.citations[best[c]].rank \in Nat /\ answer.citations[i].rank \in Nat
          BY <2>3, <4>2, <5>1
        <5>4. QED
          BY <2>3, <5>1, <5>2, <5>3
      <4>3. QED
        BY <2>2, <4>1, <4>2
    <3>3. QED
      BY <2>3, <3>1, <3>2
  <2>6. CASE c = chunk /\ ~better
    <3>1. best'[c] = best[c] /\ best[c] # 0
      BY <1>6, <2>6 DEF better
    <3>2. ~(answer.citations[n].rank < answer.citations[best[c]].rank)
      BY <2>6 DEF better
    <3>3. answer.citations[best[c]].rank <= answer.citations[n].rank
      BY <2>3, <3>1, <3>2
    <3>4. QED
      BY <2>1, <2>2, <3>1, <3>3
  <2>7. QED
    BY <2>4, <2>5, <2>6
<1>10. InHand'
  BY <1>1 DEF ClientInv, InHand
<1>11. QED
  BY <1>8, <1>9, <1>10 DEF ClientInv

LEMMA ReturningKeeps ==
    ASSUME P1Assumption, ClientInv, Return
    PROVE  ClientInv'
<1>1. /\ phase = "ranking" /\ looked = Len(answer.citations) /\ phase' = "returned"
      /\ passages' = ToPassages /\ topK' = topK /\ fits' = fits /\ total' = total
      /\ answer' = answer /\ looked' = looked /\ best' = best
      /\ evidenceState' = evidenceState /\ error' = error
  BY DEF Return, call, ranking
<1>2. ~answer.refused /\ topK > 0
  BY <1>1 DEF ClientInv, InHand
<1>3. ToPassages \in Seq(Citation)
  BY <1>2, PassagesByPlace DEF ClientInv
<1>4. TypeOK'
  BY <1>1, <1>3 DEF ClientInv, TypeOK
<1>5. BestSoFar'
  BY <1>1 DEF ClientInv, BestSoFar
<1>6. ToPassages' = ToPassages
  BY <1>1 DEF ToPassages, Kept, Place, Before
<1>7. topK' > 0 /\ ~(topK' <= 0)
  BY <1>1, <1>2 DEF ClientInv, TypeOK, P1Assumption
<1>8. EvidenceState(answer)' = EvidenceState(answer)
  BY <1>1
<1>9. InHand'
  BY <1>1, <1>2, <1>6, <1>7, <1>8 DEF ClientInv, InHand
<1>10. QED
  BY <1>4, <1>5, <1>9 DEF ClientInv

LEMMA OutcomeKeeps ==
    ASSUME P1Assumption, ClientInv, BodyEnds
    PROVE  ClientInv'
<1>1. PICK response \in Answers : Outcome(response)
  BY DEF BodyEnds
<1>2. /\ phase = "body" /\ topK' = topK /\ fits' = fits /\ total' = total /\ looked' = looked
      /\ best' = best /\ passages' = passages /\ error' = error
  BY DEF BodyEnds, call, ranking
<1>3. /\ answer' = response /\ evidenceState' = EvidenceState(response)
      /\ phase' = IF response.refused \/ topK <= 0 THEN "returned" ELSE "ranking"
  BY <1>1 DEF Outcome
<1>4. /\ response.refused \in BOOLEAN /\ Len(response.citations) \in Nat
      /\ EvidenceState(response) \in {"grounded", "upstream_refused", "answered_without_citations"}
  BY AnswersCite, StatesOfEvidence
<1>5. looked = 0 /\ passages = <<>>
  BY <1>2 DEF ClientInv, InHand
<1>6. TypeOK'
  <2>1. looked' \in 0..Len(answer'.citations)
    BY <1>2, <1>3, <1>4, <1>5
  <2>2. phase' \in {"ranking", "returned"}
    BY <1>3
  <2>3. evidenceState' \in {"none", "grounded", "upstream_refused", "answered_without_citations"}
    BY <1>3, <1>4
  <2>4. answer' \in Answers
    BY <1>3
  <2>5. QED
    BY <1>2, <2>1, <2>2, <2>3, <2>4 DEF ClientInv, TypeOK
<1>7. BestSoFar'
  <2> SUFFICES ASSUME NEW c \in Chunks
               PROVE  /\ best'[c] = 0
                      /\ \A i \in 1..looked' : answer'.citations[i].chunk # c
    BY DEF BestSoFar
  <2>1. best \in [Chunks -> 0..looked]
    BY DEF ClientInv, TypeOK
  <2>2. best'[c] = 0
    BY <1>2, <1>5, <2>1
  <2>3. QED
    BY <1>2, <1>5, <2>2
<1>8. InHand'
  <2>1. EvidenceState(answer)' = EvidenceState(response)
    BY <1>3
  <2>2. topK \in Int
    BY DEF ClientInv, TypeOK, P1Assumption
  <2>3. CASE response.refused \/ topK <= 0
    BY <1>2, <1>3, <1>5, <2>1, <2>3 DEF InHand
  <2>4. CASE ~response.refused /\ ~(topK <= 0)
    <3>1. topK > 0
      BY <2>2, <2>4
    <3>2. QED
      BY <1>2, <1>3, <1>5, <2>1, <2>4, <3>1 DEF InHand
  <2>5. QED
    BY <2>3, <2>4
<1>9. QED
  BY <1>6, <1>7, <1>8 DEF ClientInv

LEMMA MovingKeeps ==
    ASSUME P1Assumption, ClientInv, phase \in {"call", "headers", "body"},
           phase' \in {"headers", "body"}, total' \in Nat, UNCHANGED <<call, returned, error>>
    PROVE  ClientInv'
<1>1. /\ error' = error /\ topK' = topK /\ fits' = fits /\ answer' = answer
      /\ looked' = looked /\ best' = best /\ passages' = passages /\ evidenceState' = evidenceState
  BY DEF call, returned, ranking
<1>2. TypeOK'
  BY <1>1 DEF ClientInv, TypeOK
<1>3. BestSoFar'
  BY <1>1 DEF ClientInv, BestSoFar
<1>4. InHand'
  BY <1>1 DEF ClientInv, InHand
<1>5. QED
  BY <1>2, <1>3, <1>4 DEF ClientInv

LEMMA ClientInvAlways == Spec => []ClientInv
<1> USE P1Assumption
<1>1. Init => ClientInv
  <2> SUFFICES ASSUME Init PROVE ClientInv
    OBVIOUS
  <2>1. /\ topK \in TopKs /\ fits \in BOOLEAN /\ phase = "call" /\ total = 0 /\ answer = NoAnswer
        /\ looked = 0 /\ best = [c \in Chunks |-> 0] /\ passages = <<>>
        /\ evidenceState = "none" /\ error = "none"
    BY DEF Init
  <2>2. NoAnswer \in Answers /\ Len(NoAnswer.citations) = 0
    BY NoAnswerIsOne
  <2>3. looked \in 0..Len(answer.citations) /\ best \in [Chunks -> 0..looked]
    BY <2>1, <2>2
  <2>4. TypeOK
    BY <2>1, <2>2, <2>3 DEF TypeOK
  <2>5. BestSoFar /\ InHand
    BY <2>1 DEF BestSoFar, InHand
  <2>6. QED
    BY <2>4, <2>5 DEF ClientInv
<1>2. ClientInv /\ [Next]_vars => ClientInv'
  <2> SUFFICES ASSUME ClientInv, [Next]_vars PROVE ClientInv'
    OBVIOUS
  <2>1. total \in Nat
    BY DEF ClientInv, TypeOK
  <2>2. CASE RejectLocally
    BY <2>1, <2>2, RaiseKeeps DEF RejectLocally
  <2>3. CASE Send
    <3>1. phase \in {"call", "headers", "body"} /\ phase' \in {"headers", "body"} /\ total' \in Nat
          /\ UNCHANGED <<call, returned, error>>
      BY <2>1, <2>3 DEF Send
    <3>2. QED
      BY <3>1, MovingKeeps
  <2>4. CASE TransportFails
    BY <2>1, <2>4, RaiseKeeps DEF TransportFails
  <2>5. CASE AnswerStatus
    <3>1. PICK status \in Statuses :
             IF status = 200 THEN phase' = "body" /\ UNCHANGED <<call, returned, error>>
             ELSE Raise(StatusError(status))
      BY <2>5 DEF AnswerStatus
    <3>2. phase = "headers" /\ total' \in Nat
      BY <2>1, <2>5 DEF AnswerStatus
    <3>3. CASE status = 200
      <4>1. phase \in {"call", "headers", "body"} /\ phase' \in {"headers", "body"}
            /\ UNCHANGED <<call, returned, error>>
        BY <3>1, <3>2, <3>3
      <4>2. QED
        BY <3>2, <4>1, MovingKeeps
    <3>4. CASE status # 200
      <4>1. Raise(StatusError(status)) /\ phase \notin {"ranking", "returned"}
        BY <3>1, <3>2, <3>4
      <4>2. QED
        BY <3>2, <4>1, StatusHasError, RaiseKeeps
    <3>5. QED
      BY <3>3, <3>4
  <2>6. CASE ReadPiece
    <3>1. PICK n \in Pieces :
             /\ total' = total + n
             /\ IF total + n > MaxBytes THEN Raise("contract_mismatch")
                ELSE UNCHANGED <<call, phase, returned, error>>
      BY <2>6 DEF ReadPiece
    <3>2. phase = "body" /\ total' \in Nat
      BY <2>1, <2>6, <3>1 DEF ReadPiece, P1Assumption
    <3>3. CASE Raise("contract_mismatch")
      BY <3>2, <3>3, RaiseKeeps
    <3>4. CASE UNCHANGED <<call, phase, returned, error>>
      <4>1. phase \in {"call", "headers", "body"} /\ phase' \in {"headers", "body"}
            /\ UNCHANGED <<call, returned, error>>
        BY <3>2, <3>4
      <4>2. QED
        BY <3>2, <4>1, MovingKeeps
    <3>5. QED
      BY <3>1, <3>3, <3>4
  <2>7. CASE BodyEnds
    BY <2>7, OutcomeKeeps
  <2>8. CASE BodyUnreadable
    BY <2>1, <2>8, RaiseKeeps DEF BodyUnreadable
  <2>9. CASE LookAt
    BY <2>9, LookingKeeps
  <2>10. CASE Return
    BY <2>10, ReturningKeeps
  <2>11. CASE UNCHANGED vars
    <3>1. /\ phase' = phase /\ total' = total /\ error' = error /\ topK' = topK /\ fits' = fits
          /\ answer' = answer /\ looked' = looked /\ best' = best /\ passages' = passages
          /\ evidenceState' = evidenceState
      BY <2>11 DEF vars, call, returned, ranking
    <3>2. ToPassages' = ToPassages
      BY <3>1 DEF ToPassages, Kept, Place, Before
    <3>3. TypeOK' /\ BestSoFar'
      BY <3>1 DEF ClientInv, TypeOK, BestSoFar
    <3>4. EvidenceState(answer)' = EvidenceState(answer)
      BY <3>1
    <3>5. InHand'
      BY <3>1, <3>2, <3>4 DEF ClientInv, InHand
    <3>6. QED
      BY <3>3, <3>5 DEF ClientInv
  <2>12. QED
    BY <2>2, <2>3, <2>4, <2>5, <2>6, <2>7, <2>8, <2>9, <2>10, <2>11 DEF Next
<1>3. QED
  BY <1>1, <1>2, PTL DEF Spec

(***************************************************************************)
(* The query keeps its shapes, and has a typed error exactly when it       *)
(* raised: for any answer, status and size of a body.                      *)
(***************************************************************************)
THEOREM TypeCorrect == Spec => []TypeOK
BY ClientInvAlways, PTL DEF ClientInv

(***************************************************************************)
(* The passages of an answer are its best evidence, one per chunk by rank, *)
(* whatever citations it has in whatever order.                            *)
(***************************************************************************)
THEOREM PassagesAreAlwaysBest == Spec => []PassagesAreBest
<1>1. ASSUME ClientInv PROVE PassagesAreBest
  <2> DEFINE cited == {answer.citations[i] : i \in 1..Len(answer.citations)}
             n == Len(passages)
  <2> SUFFICES ASSUME phase = "returned", ~answer.refused
               PROVE  /\ \A i \in 1..n : passages[i] \in cited
                      /\ \A i, j \in 1..n : i < j =>
                            passages[i].chunk # passages[j].chunk /\ passages[i].rank <= passages[j].rank
                      /\ \A c \in cited :
                            \/ \E i \in 1..n : passages[i].chunk = c.chunk /\ passages[i].rank <= c.rank
                            \/ n = (IF topK > 0 THEN topK ELSE 0)
                               /\ \A i \in 1..n : passages[i].rank <= c.rank
    BY DEF PassagesAreBest
  <2>1. topK \in Int /\ TypeOK /\ BestSoFar /\ P1Assumption
    BY <1>1, P1Assumption DEF ClientInv, TypeOK, P1Assumption
  <2>2. IF topK <= 0 THEN passages = <<>>
        ELSE looked = Len(answer.citations) /\ passages = ToPassages
    BY <1>1 DEF ClientInv, InHand
  <2>3. CASE topK <= 0
    BY <2>1, <2>2, <2>3
  <2>4. CASE topK > 0
    <3>1. looked = Len(answer.citations) /\ passages = ToPassages
      BY <2>1, <2>2, <2>4
    <3>2. /\ n = Size /\ Size \in Nat /\ Size <= Cardinality(Kept)
          /\ \A i \in 1..n : At(i) \in Kept /\ Place(At(i)) = i /\ passages[i] = answer.citations[At(i)]
      BY <2>1, <2>4, <3>1, PassagesByPlace
    <3>3. /\ looked \in Nat /\ Kept \subseteq 1..looked /\ Cardinality(Kept) \in Nat
          /\ \A c \in Chunks : best[c] \in 0..looked /\ (best[c] # 0 => best[c] \in Kept)
          /\ \A i \in Kept : \E c \in Chunks : i = best[c]
          /\ \A i \in 1..looked : /\ answer.citations[i].chunk \in Chunks
                                  /\ answer.citations[i].rank \in Nat
      BY <2>1, KeptArePositions
    <3> HIDE DEF n, cited
    <3>4. \A i \in 1..n : passages[i] \in cited
      BY <3>1, <3>2, <3>3 DEF cited
    <3>5. ASSUME NEW i \in Kept, NEW j \in Kept, i # j
          PROVE  answer.citations[i].chunk # answer.citations[j].chunk
      <4>1. PICK c \in Chunks : i = best[c]
        BY <3>3, <3>5
      <4>2. PICK d \in Chunks : j = best[d]
        BY <3>3, <3>5
      <4>3. i # 0 /\ j # 0
        BY <3>3, <3>5
      <4>4. answer.citations[i].chunk = c /\ answer.citations[j].chunk = d
        BY <2>1, <4>1, <4>2, <4>3 DEF BestSoFar
      <4>5. QED
        BY <3>5, <4>1, <4>2, <4>4
    <3>6. ASSUME NEW i \in Kept, NEW j \in Kept, Place(i) < Place(j)
          PROVE  i # j /\ answer.citations[i].rank <= answer.citations[j].rank
      <4>1. Place(i) \in Nat /\ Place(j) \in Nat
        BY <2>1, <3>3, PlacesAreTaken
      <4>2. ~(Place(j) < Place(i)) /\ i # j
        BY <3>6, <4>1
      <4>3. ~Before(j, i)
        BY <2>1, <4>2, PlacesAreTaken
      <4>4. QED
        BY <2>1, <4>2, <4>3, BeforeOrders
    <3>7. ASSUME NEW i \in 1..n, NEW j \in 1..n, i < j
          PROVE  passages[i].chunk # passages[j].chunk /\ passages[i].rank <= passages[j].rank
      <4>1. /\ At(i) \in Kept /\ At(j) \in Kept /\ Place(At(i)) < Place(At(j))
            /\ passages[i] = answer.citations[At(i)] /\ passages[j] = answer.citations[At(j)]
        BY <3>2, <3>7
      <4>2. QED
        BY <3>5, <3>6, <4>1
    <3>8. ASSUME NEW c \in cited
          PROVE  \/ \E i \in 1..n : passages[i].chunk = c.chunk /\ passages[i].rank <= c.rank
                 \/ n = (IF topK > 0 THEN topK ELSE 0)
                    /\ \A i \in 1..n : passages[i].rank <= c.rank
      <4>1. PICK m \in 1..looked : c = answer.citations[m]
        BY <3>1 DEF cited
      <4>2. PICK b \in Kept : b = best[c.chunk]
        BY <2>1, <3>3, <4>1 DEF BestSoFar
      <4>3. b # 0 /\ b \in 1..looked /\ c.chunk \in Chunks
        BY <3>3, <4>1, <4>2
      <4>4. answer.citations[b].chunk = c.chunk /\ answer.citations[b].rank <= c.rank
        BY <2>1, <4>1, <4>2, <4>3 DEF BestSoFar
      <4>5. PICK p \in 1..Cardinality(Kept) : p = Place(b)
        BY <2>1, PlacesAreTaken
      <4>6. CASE p <= n
        <5>1. p \in 1..n
          BY <3>2, <3>3, <4>6
        <5>2. At(p) \in Kept /\ Place(At(p)) = Place(b) /\ passages[p] = answer.citations[At(p)]
          BY <3>2, <4>5, <5>1
        <5>3. Place(b) \in Nat
          BY <3>3, <4>5
        <5>4. ~(Place(At(p)) < Place(b)) /\ ~(Place(b) < Place(At(p)))
          BY <5>2, <5>3
        <5>5. At(p) = b
          BY <2>1, <5>2, <5>4, BeforeOrders, PlacesAreTaken
        <5>6. QED
          BY <4>4, <5>1, <5>2, <5>5
      <4>7. CASE ~(p <= n)
        <5>1. n = topK
          BY <2>1, <3>2, <3>3, <4>7 DEF Size
        <5>2. ASSUME NEW i \in 1..n PROVE passages[i].rank <= c.rank
          <6>1. At(i) \in Kept /\ Place(At(i)) < Place(b) /\ passages[i] = answer.citations[At(i)]
            BY <3>2, <3>3, <4>5, <4>7
          <6>2. answer.citations[At(i)].rank <= answer.citations[b].rank
            BY <3>6, <6>1
          <6>3. /\ answer.citations[At(i)].rank \in Nat /\ answer.citations[b].rank \in Nat
                /\ c.rank \in Nat
            BY <3>3, <4>1, <4>3, <6>1
          <6>4. QED
            BY <4>4, <6>1, <6>2, <6>3
        <5>3. QED
          BY <2>4, <5>1, <5>2
      <4>8. QED
        BY <4>6, <4>7
    <3>9. QED
      BY <3>4, <3>7, <3>8
  <2>5. QED
    BY <2>1, <2>3, <2>4
<1>2. QED
  BY <1>1, ClientInvAlways, PTL

(***************************************************************************)
(* With a positive cap a call returns passages exactly when it says that   *)
(* the answer was grounded.                                                *)
(***************************************************************************)
THEOREM EmptyIsAlwaysExplained == Spec => []EmptyIsExplained
<1>1. ASSUME ClientInv PROVE EmptyIsExplained
  <2> SUFFICES ASSUME phase = "returned", topK > 0
               PROVE  passages # <<>> <=> evidenceState = "grounded"
    BY DEF EmptyIsExplained
  <2>1. topK \in Int /\ TypeOK /\ BestSoFar /\ P1Assumption
    BY <1>1, P1Assumption DEF ClientInv, TypeOK, P1Assumption
  <2>2. answer.refused \in BOOLEAN /\ answer.citations \in Seq(Citation)
    BY <2>1, AnswersCite DEF TypeOK
  <2>3. evidenceState = "grounded" <=> ~answer.refused /\ answer.citations # <<>>
    BY <1>1, <2>2, StatesOfEvidence DEF ClientInv, InHand
  <2>4. CASE answer.refused
    <3>1. passages = <<>>
      BY <1>1, <2>4 DEF ClientInv, InHand
    <3>2. QED
      BY <2>3, <2>4, <3>1
  <2>5. CASE ~answer.refused
    <3>1. ~(topK <= 0)
      BY <2>1
    <3>2. looked = Len(answer.citations) /\ passages = ToPassages
      BY <1>1, <2>5, <3>1 DEF ClientInv, InHand
    <3>3. passages \in Seq(Citation) /\ Len(passages) = Size
      BY <2>1, <3>2, PassagesByPlace
    <3>4. /\ looked \in Nat /\ Kept \subseteq 1..looked /\ Cardinality(Kept) \in Nat /\ IsFiniteSet(Kept)
          /\ \A c \in Chunks : best[c] \in 0..looked /\ (best[c] # 0 => best[c] \in Kept)
          /\ \A i \in 1..looked : answer.citations[i].chunk \in Chunks
      BY <2>1, KeptArePositions
    <3>5. Kept = {} <=> Size = 0
      <4>1. Kept = {} <=> Cardinality(Kept) = 0
        BY <3>4, FS_EmptySet
      <4>2. QED
        BY <2>1, <3>4, <4>1 DEF Size
    <3>6. Kept = {} <=> looked = 0
      <4>1. looked = 0 => Kept = {}
        BY <3>4
      <4>2. ASSUME looked # 0 PROVE Kept # {}
        <5>1. 1 \in 1..looked
          BY <3>4, <4>2
        <5>2. PICK c \in Chunks : c = answer.citations[1].chunk
          BY <3>4, <5>1
        <5>3. best[c] # 0
          BY <2>1, <5>1, <5>2 DEF BestSoFar
        <5>4. QED
          BY <3>4, <5>3
      <4>3. QED
        BY <4>1, <4>2
    <3>7. looked = 0 <=> answer.citations = <<>>
      BY <2>2, <3>2, EmptySeq
    <3>8. Len(passages) = 0 <=> passages = <<>>
      BY <3>3, EmptySeq
    <3>9. QED
      BY <2>3, <2>5, <3>3, <3>5, <3>6, <3>7, <3>8
  <2>6. QED
    BY <2>2, <2>4, <2>5
<1>2. QED
  BY <1>1, ClientInvAlways, PTL

-----------------------------------------------------------------------------
(* The fixture's search.                                                   *)

\* Those of a set that an order puts before one of them, and that one.
UpTo(S, order, i) == {j \in S : j = i \/ <<j, i>> \in order}
PlaceIn(S, order, i) == Cardinality(UpTo(S, order, i))

\* In a finite set every place from the first to the last is taken once.
LEMMA OrderedByPlace ==
    ASSUME NEW S, NEW order, IsFiniteSet(S),
           \A i, j \in S : i # j => <<i, j>> \in order \/ <<j, i>> \in order,
           \A i, j \in S : <<i, j>> \in order => i # j /\ <<j, i>> \notin order,
           \A i, j, l \in S : <<l, i>> \in order /\ <<i, j>> \in order => <<l, j>> \in order
    PROVE  /\ Cardinality(S) \in Nat
           /\ \A i \in S : PlaceIn(S, order, i) \in 1..Cardinality(S)
           /\ \A i, j \in S : <<i, j>> \in order <=> PlaceIn(S, order, i) < PlaceIn(S, order, j)
           /\ \A i, j \in S : PlaceIn(S, order, i) = PlaceIn(S, order, j) => i = j
           /\ \A n \in 1..Cardinality(S) : \E i \in S : PlaceIn(S, order, i) = n
<1>1. Cardinality(S) \in Nat
  BY FS_CardinalityType
<1>2. ASSUME NEW i \in S
      PROVE  IsFiniteSet(UpTo(S, order, i)) /\ PlaceIn(S, order, i) \in 1..Cardinality(S)
  <2>1. UpTo(S, order, i) \subseteq S /\ i \in UpTo(S, order, i)
    BY <1>2 DEF UpTo
  <2>2. IsFiniteSet(UpTo(S, order, i)) /\ Cardinality(UpTo(S, order, i)) <= Cardinality(S)
    BY <2>1, FS_Subset
  <2>3. Cardinality(UpTo(S, order, i)) \in Nat /\ Cardinality(UpTo(S, order, i)) # 0
    BY <2>1, <2>2, FS_CardinalityType, FS_EmptySet
  <2>4. QED
    BY <1>1, <2>2, <2>3 DEF PlaceIn
<1>3. ASSUME NEW i \in S, NEW j \in S, <<i, j>> \in order
      PROVE  PlaceIn(S, order, i) < PlaceIn(S, order, j)
  <2>1. UpTo(S, order, i) \subseteq UpTo(S, order, j)
    <3> SUFFICES ASSUME NEW l \in UpTo(S, order, i) PROVE l \in UpTo(S, order, j)
      OBVIOUS
    <3>1. l \in S /\ (l = i \/ <<l, i>> \in order)
      BY DEF UpTo
    <3>2. <<l, j>> \in order
      BY <1>3, <3>1
    <3>3. QED
      BY <3>1, <3>2 DEF UpTo
  <2>2. j \notin UpTo(S, order, i) /\ j \in UpTo(S, order, j)
    BY <1>3 DEF UpTo
  <2>3. IsFiniteSet(UpTo(S, order, j)) /\ UpTo(S, order, i) # UpTo(S, order, j)
    BY <1>2, <1>3, <2>2
  <2>4. /\ Cardinality(UpTo(S, order, i)) <= Cardinality(UpTo(S, order, j))
        /\ Cardinality(UpTo(S, order, i)) # Cardinality(UpTo(S, order, j))
    BY <2>1, <2>3, FS_Subset
  <2>5. PlaceIn(S, order, i) \in 1..Cardinality(S) /\ PlaceIn(S, order, j) \in 1..Cardinality(S)
    BY <1>2, <1>3
  <2>6. QED
    BY <1>1, <2>4, <2>5 DEF PlaceIn
<1>4. ASSUME NEW i \in S, NEW j \in S, i # j, ~(<<i, j>> \in order)
      PROVE  PlaceIn(S, order, j) < PlaceIn(S, order, i)
  BY <1>3, <1>4
<1>5. ASSUME NEW i \in S, NEW j \in S PROVE PlaceIn(S, order, i) \in Nat /\ PlaceIn(S, order, j) \in Nat
  BY <1>1, <1>2, <1>5
<1>6. ASSUME NEW i \in S, NEW j \in S, PlaceIn(S, order, i) = PlaceIn(S, order, j) PROVE i = j
  <2>1. ~(PlaceIn(S, order, i) < PlaceIn(S, order, j)) /\ ~(PlaceIn(S, order, j) < PlaceIn(S, order, i))
    BY <1>5, <1>6
  <2>2. QED
    BY <1>3, <1>6, <2>1
<1>7. ASSUME NEW i \in S, NEW j \in S, PlaceIn(S, order, i) < PlaceIn(S, order, j)
      PROVE  <<i, j>> \in order
  <2>1. ~(PlaceIn(S, order, j) < PlaceIn(S, order, i)) /\ i # j
    BY <1>5, <1>7
  <2>2. QED
    BY <1>4, <1>7, <2>1
<1>8. \A n \in 1..Cardinality(S) : \E i \in S : PlaceIn(S, order, i) = n
  <2> DEFINE places == 1..Cardinality(S)
             place == [i \in S |-> PlaceIn(S, order, i)]
  <2>1. place \in [S -> places] /\ \A i, j \in S : place[i] = place[j] => i = j
    BY <1>2, <1>6
  <2>2. IsFiniteSet(places) /\ Cardinality(places) = Cardinality(S)
    <3>1. Cardinality(S) \in Int /\ 1 \in Int /\ Cardinality(S) \in Nat
      BY <1>1
    <3>2. IsFiniteSet(places)
          /\ Cardinality(places) = IF 1 > Cardinality(S) THEN 0 ELSE Cardinality(S) - 1 + 1
      BY ONLY <3>1, FS_Interval
    <3>3. QED
      BY <3>1, <3>2
  <2>3. \A i \in S : place[i] = PlaceIn(S, order, i)
    OBVIOUS
  <2> HIDE DEF places, place
  <2>4. place \in Injection(S, places)
    BY <2>1, Fun_IsInj
  <2>5. place \in Surjection(S, places)
    BY <2>2, <2>4, FS_Injection
  <2>6. \A n \in places : \E i \in S : place[i] = n
    BY <2>5 DEF Surjection
  <2>7. QED
    BY <2>3, <2>6 DEF places
<1>9. QED
  BY <1>1, <1>2, <1>3, <1>6, <1>7, <1>8

\* Passages, and the scores of a search, are what they should be for ordering.
SearchInv ==
    /\ \E S : sections \in Seq(S)
    /\ \E S : corpus \in Seq(S)
    /\ state = "searched" => /\ request.phrase \in Phrases /\ request.limit \in Limits
                             /\ result = Ranked(request)

LEMMA ScoresAreNatural ==
    ASSUME NEW d, NEW req, req.phrase \in Phrases
    PROVE  Score(d, req) \in Nat
<1> DEFINE phrase == req.phrase
           places == 1..Len(phrase)
           words == {phrase[i] : i \in 1..Len(phrase)}
           f == [i \in places |-> phrase[i]]
<1>1. Len(phrase) \in Nat
  BY CorpusAssumption, LenProperties
<1>2. IsFiniteSet(places)
  <2>1. Len(phrase) \in Int /\ 1 \in Int
    BY <1>1
  <2>2. QED
    BY ONLY <2>1, FS_Interval
<1>3. f \in Surjection(places, words)
  BY DEF Surjection
<1>4. Overlap(d, phrase) = Cardinality(words \cap Terms(d))
  BY DEF Overlap
<1> HIDE DEF places, words, f
<1>5. IsFiniteSet(words)
  BY <1>2, <1>3, FS_Surjection
<1>6. IsFiniteSet(words \cap Terms(d))
  <2>1. words \cap Terms(d) \subseteq words
    OBVIOUS
  <2>2. QED
    BY <1>5, <2>1, FS_Subset
<1>7. Overlap(d, phrase) \in Nat
  BY <1>4, <1>6, FS_CardinalityType
<1>8. QED
  BY <1>7 DEF Score

\* The best are a choice of the scored by their place.
LEMMA RankedByPlace ==
    ASSUME NEW S, corpus \in Seq(S), NEW req, req.phrase \in Phrases, req.limit \in Limits
    PROVE  LET scored == Scored(req)
               size == IF Cardinality(scored) < req.limit THEN Cardinality(scored) ELSE req.limit
               place(i) == Cardinality({j \in scored : j = i \/ Better(j, i, req)})
           IN  /\ Cardinality(scored) \in Nat
               /\ size \in Nat /\ Len(Ranked(req)) = size
               /\ \A n \in 1..size : Ranked(req)[n] \in scored /\ place(Ranked(req)[n]) = n
               /\ \A i \in scored : place(i) \in 1..Cardinality(scored)
               /\ \A i, j \in scored : Better(i, j, req) <=> place(i) < place(j)
               /\ \A i, j \in scored : place(i) = place(j) => i = j
<1> DEFINE scored == Scored(req)
           size == IF Cardinality(scored) < req.limit THEN Cardinality(scored) ELSE req.limit
           place(i) == Cardinality({j \in scored : j = i \/ Better(j, i, req)})
           at(n) == CHOOSE i \in scored : place(i) = n
           order == {p \in scored \X scored : Better(p[1], p[2], req)}
<1>1. Len(corpus) \in Nat
  BY LenProperties
<1>2. scored \subseteq 1..Len(corpus) /\ \A i \in scored : i \in Nat /\ Score(corpus[i], req) \in Nat
  BY <1>1, ScoresAreNatural DEF Scored
<1>3. IsFiniteSet(scored)
  <2> DEFINE places == 1..Len(corpus)
  <2>1. Len(corpus) \in Int /\ 1 \in Int
    BY <1>1
  <2>2. IsFiniteSet(places)
    BY ONLY <2>1, FS_Interval
  <2>3. scored \subseteq places
    BY <1>2
  <2> HIDE DEF places, scored
  <2>4. QED
    BY <2>2, <2>3, FS_Subset
<1>4. req.limit \in Nat
  BY CorpusAssumption
<1>5. \A i, j \in scored : <<i, j>> \in order <=> Better(i, j, req)
  OBVIOUS
<1> HIDE DEF scored, order
<1>6. \A i, j \in scored : i # j => Better(i, j, req) \/ Better(j, i, req)
  BY <1>2 DEF Better
<1>7. \A i, j \in scored : Better(i, j, req) => i # j /\ ~Better(j, i, req)
  BY <1>2 DEF Better
<1>8. \A i, j, l \in scored : Better(l, i, req) /\ Better(i, j, req) => Better(l, j, req)
  BY <1>2 DEF Better
<1>9. /\ Cardinality(scored) \in Nat
      /\ \A i \in scored : PlaceIn(scored, order, i) \in 1..Cardinality(scored)
      /\ \A i, j \in scored : <<i, j>> \in order <=> PlaceIn(scored, order, i) < PlaceIn(scored, order, j)
      /\ \A i, j \in scored : PlaceIn(scored, order, i) = PlaceIn(scored, order, j) => i = j
      /\ \A n \in 1..Cardinality(scored) : \E i \in scored : PlaceIn(scored, order, i) = n
  <2>1. \A i, j \in scored : i # j => <<i, j>> \in order \/ <<j, i>> \in order
    BY <1>5, <1>6
  <2>2. \A i, j \in scored : <<i, j>> \in order => i # j /\ <<j, i>> \notin order
    BY <1>5, <1>7
  <2>3. \A i, j, l \in scored : <<l, i>> \in order /\ <<i, j>> \in order => <<l, j>> \in order
    BY <1>5, <1>8
  <2>4. QED
    BY ONLY <1>3, <2>1, <2>2, <2>3, OrderedByPlace
<1>10. \A i \in scored : place(i) = PlaceIn(scored, order, i)
  <2> SUFFICES ASSUME NEW i \in scored PROVE place(i) = PlaceIn(scored, order, i)
    OBVIOUS
  <2>1. {j \in scored : j = i \/ Better(j, i, req)} = UpTo(scored, order, i)
    BY <1>5 DEF UpTo
  <2>2. QED
    BY <2>1 DEF PlaceIn
<1> HIDE DEF place
<1>11. size \in Nat /\ size <= Cardinality(scored)
  BY <1>4, <1>9
<1>12. ASSUME NEW n \in 1..size PROVE at(n) \in scored /\ place(at(n)) = n
  <2>1. n \in 1..Cardinality(scored)
    BY <1>9, <1>11
  <2>2. \E i \in scored : place(i) = n
    BY <1>9, <1>10, <2>1
  <2>3. QED
    BY <2>2
<1>13. Ranked(req) = [n \in 1..size |-> at(n)]
  BY DEF Ranked, BestOf, scored, place
<1> HIDE DEF size, at
<1>14. Len(Ranked(req)) = size /\ \A n \in 1..size : Ranked(req)[n] = at(n)
  BY <1>11, <1>13
<1>15. /\ \A n \in 1..size : Ranked(req)[n] \in scored /\ place(Ranked(req)[n]) = n
       /\ \A i \in scored : place(i) \in 1..Cardinality(scored)
       /\ \A i, j \in scored : Better(i, j, req) <=> place(i) < place(j)
       /\ \A i, j \in scored : place(i) = place(j) => i = j
  <2>1. \A n \in 1..size : Ranked(req)[n] \in scored /\ place(Ranked(req)[n]) = n
    BY <1>12, <1>14
  <2>2. \A i \in scored : place(i) \in 1..Cardinality(scored)
    BY <1>9, <1>10
  <2>3. ASSUME NEW i \in scored, NEW j \in scored PROVE Better(i, j, req) <=> place(i) < place(j)
    <3>1. Better(i, j, req) <=> PlaceIn(scored, order, i) < PlaceIn(scored, order, j)
      BY <1>5, <1>9
    <3>2. place(i) = PlaceIn(scored, order, i) /\ place(j) = PlaceIn(scored, order, j)
      BY <1>10
    <3>3. QED
      BY <3>1, <3>2
  <2>4. \A i, j \in scored : place(i) = place(j) => i = j
    BY <1>9, <1>10
  <2>5. QED
    BY <2>1, <2>2, <2>3, <2>4
<1>16. QED
  BY <1>9, <1>11, <1>14, <1>15 DEF scored, size, place

LEMMA SearchInvAlways == CorpusInit /\ [][CorpusNext]_corpusVars => []SearchInv
<1>1. CorpusInit => SearchInv
  <2> SUFFICES ASSUME CorpusInit PROVE SearchInv
    OBVIOUS
  <2>1. sections = <<>> /\ corpus = <<>> /\ state = "reading"
    BY DEF CorpusInit
  <2>2. <<>> \in Seq({})
    OBVIOUS
  <2>3. QED
    BY <2>1, <2>2 DEF SearchInv
<1>2. SearchInv /\ [CorpusNext]_corpusVars => SearchInv'
  <2> SUFFICES ASSUME SearchInv, [CorpusNext]_corpusVars PROVE SearchInv'
    OBVIOUS
  <2>1. PICK S : sections \in Seq(S)
    BY DEF SearchInv
  <2>2. PICK T : corpus \in Seq(T)
    BY DEF SearchInv
  <2>3. PICK C : Close \in Seq(C)
    <3>1. sections \in Seq(S \cup {Document}) /\ Document \in S \cup {Document}
      BY <2>1
    <3>2. Append(sections, Document) \in Seq(S \cup {Document})
      BY ONLY <3>1, AppendProperties
    <3>3. QED
      BY <3>1, <3>2 DEF Close
  <2>4. CASE \E line \in Line : ReadSection(line) \/ ReadTitle(line) \/ ReadDeeper(line) \/ ReadText(line)
    <3>1. PICK line \in Line : ReadSection(line) \/ ReadTitle(line) \/ ReadDeeper(line) \/ ReadText(line)
      BY <2>4
    <3>2. corpus' = corpus /\ state' \in {"reading", "failed"} /\ sections' \in {sections, Close}
      BY <3>1 DEF ReadSection, ReadTitle, ReadDeeper, ReadText, Read, Fail, parsing
    <3>3. QED
      BY <2>1, <2>2, <2>3, <3>2 DEF SearchInv
  <2>5. CASE EndFile
    <3>1. state' # "searched" /\ sections' \in {sections, <<>>} /\ corpus' \in {corpus, corpus \o Close}
      BY <2>5 DEF EndFile, Fail, parsing
    <3>2. corpus \in Seq(T \cup C) /\ Close \in Seq(T \cup C)
      BY <2>2, <2>3
    <3>3. corpus \o Close \in Seq(T \cup C)
      BY ONLY <3>2, ConcatProperties
    <3>4. <<>> \in Seq({})
      OBVIOUS
    <3>5. QED
      BY <2>1, <2>2, <3>1, <3>3, <3>4 DEF SearchInv
  <2>6. CASE Search
    <3>1. PICK tool \in {"overlap", "lexicon"}, phrase \in Phrases, limit \in Limits :
             LET req == [tool |-> tool, phrase |-> phrase, limit |-> limit]
             IN  request' = req /\ result' = Ranked(req)
      BY <2>6 DEF Search
    <3>2. corpus' = corpus /\ sections' = sections
      BY <2>6 DEF Search, parsing
    <3>3. \A req : Ranked(req)' = Ranked(req)
      BY <3>2 DEF Ranked, BestOf, Better, Scored
    <3>4. request'.phrase \in Phrases /\ request'.limit \in Limits /\ result' = Ranked(request')
      BY <3>1
    <3>5. QED
      BY <2>1, <2>2, <3>2, <3>3, <3>4 DEF SearchInv
  <2>7. CASE UNCHANGED corpusVars
    <3>1. UNCHANGED <<state, sections, corpus, request, result>>
      BY <2>7 DEF corpusVars, parsing
    <3>2. Ranked(request)' = Ranked(request)
      BY <3>1 DEF Ranked, BestOf, Better, Scored
    <3>3. QED
      BY <2>1, <2>2, <3>1, <3>2 DEF SearchInv
  <2>8. QED
    BY <2>4, <2>5, <2>6, <2>7 DEF CorpusNext
<1>3. QED
  BY <1>1, <1>2, PTL

(***************************************************************************)
(* A search of the fixture, or of the notes, returns the best there is,    *)
(* best first and the earlier first among equals, for every corpus the     *)
(* files of a directory make and every phrase and limit.                   *)
(***************************************************************************)
THEOREM SearchesAreAlwaysBest == CorpusInit /\ [][CorpusNext]_corpusVars => []SearchIsBest
<1>1. ASSUME SearchInv PROVE SearchIsBest
  <2> DEFINE score(i) == Score(corpus[i], request)
             scoring == Scored(request)
             found == {result[i] : i \in 1..Len(result)}
             before(a, b) == score(a) > score(b) \/ (score(a) = score(b) /\ a < b)
             size == IF Cardinality(scoring) < request.limit THEN Cardinality(scoring) ELSE request.limit
             place(i) == Cardinality({j \in scoring : j = i \/ Better(j, i, request)})
  <2> SUFFICES ASSUME state = "searched"
               PROVE  /\ found \subseteq scoring
                      /\ Len(result) = size
                      /\ \A i \in 1..Len(result), j \in 1..Len(result) :
                            i < j => before(result[i], result[j])
                      /\ \A a \in found, b \in scoring \ found : before(a, b)
    BY DEF SearchIsBest, Scored
  <2>1. PICK T : corpus \in Seq(T)
    BY <1>1 DEF SearchInv
  <2>2. request.phrase \in Phrases /\ request.limit \in Limits /\ result = Ranked(request)
    BY <1>1 DEF SearchInv
  <2>3. /\ Cardinality(scoring) \in Nat
        /\ size \in Nat /\ Len(result) = size
        /\ \A n \in 1..size : result[n] \in scoring /\ place(result[n]) = n
        /\ \A i \in scoring : place(i) \in 1..Cardinality(scoring)
        /\ \A i, j \in scoring : Better(i, j, request) <=> place(i) < place(j)
        /\ \A i, j \in scoring : place(i) = place(j) => i = j
    <3>1. corpus \in Seq(T) /\ request.phrase \in Phrases /\ request.limit \in Limits
      BY <2>1, <2>2
    <3>2. /\ Cardinality(scoring) \in Nat
          /\ size \in Nat /\ Len(Ranked(request)) = size
          /\ \A n \in 1..size : Ranked(request)[n] \in scoring /\ place(Ranked(request)[n]) = n
          /\ \A i \in scoring : place(i) \in 1..Cardinality(scoring)
          /\ \A i, j \in scoring : Better(i, j, request) <=> place(i) < place(j)
          /\ \A i, j \in scoring : place(i) = place(j) => i = j
      BY ONLY <3>1, RankedByPlace
    <3> HIDE DEF scoring, size, place
    <3>3. QED
      BY <2>2, <3>2
  <2>4. \A a, b : Better(a, b, request) <=> before(a, b)
    BY DEF Better
  <2> HIDE DEF scoring, before, size, place
  <2>5. /\ Cardinality(scoring) \in Nat
        /\ size \in Nat /\ Len(result) = size
        /\ \A n \in 1..size : result[n] \in scoring /\ place(result[n]) = n
        /\ \A i \in scoring : place(i) \in 1..Cardinality(scoring)
        /\ \A i, j \in scoring : before(i, j) <=> place(i) < place(j)
        /\ \A i, j \in scoring : place(i) = place(j) => i = j
    BY <2>3, <2>4
  <2>6. found \subseteq scoring
    BY <2>5
  <2>7. \A i \in 1..Len(result), j \in 1..Len(result) : i < j => before(result[i], result[j])
    BY <2>5
  <2>8. ASSUME NEW a \in found, NEW b \in scoring \ found PROVE before(a, b)
    <3>1. PICK n \in 1..size : a = result[n]
      BY <2>5
    <3>2. place(a) = n /\ a \in scoring /\ b \in scoring /\ place(b) \in 1..Cardinality(scoring)
      BY <2>5, <3>1
    <3>3. ~(place(b) <= size)
      <4>1. ASSUME place(b) <= size PROVE FALSE
        <5>1. place(b) \in 1..size
          BY <2>5, <3>2, <4>1
        <5>2. result[place(b)] \in scoring /\ place(result[place(b)]) = place(b)
          BY <2>5, <5>1
        <5>3. result[place(b)] = b
          BY <2>5, <3>2, <5>2
        <5>4. QED
          BY <2>5, <2>8, <5>1, <5>3
      <4>2. QED
        BY <4>1
    <3>4. place(a) < place(b)
      BY <2>5, <3>1, <3>2, <3>3
    <3>5. QED
      BY <2>5, <3>2, <3>4
  <2>9. QED
    BY <2>5, <2>6, <2>7, <2>8
<1>2. QED
  BY <1>1, SearchInvAlways, PTL

-----------------------------------------------------------------------------
(* Reading a file.  What a fold over a sequence computes is known from     *)
(* what it computed a place earlier: an induction over the places, by the  *)
(* least that violates the claim.                                          *)

LEMMA LeastOne ==
    ASSUME NEW T, T \subseteq Nat, T # {}
    PROVE  \E m \in T : \A j \in T : m <= j
<1> DEFINE R == OpToRel(<, Nat)
<1>1. PICK k \in T : TRUE
  OBVIOUS
<1>2. IsWellFoundedOn(R, Nat)
  BY NatLessThanWellFounded
<1>3. PICK m \in T : \A j \in T : ~(<<j, m>> \in R)
  <2> HIDE DEF R
  <2>1. QED
    BY <1>1, <1>2, WFMin
<1>4. \A j \in T : ~(j < m)
  BY <1>3 DEF OpToRel
<1>5. QED
  BY <1>4

\* Two functions that begin alike and go on alike agree.
Alike(g, h, n) == g[0] = h[0] /\ \A i \in 1..n : g[i - 1] = h[i - 1] => g[i] = h[i]

LEMMA AlikeAgree ==
    ASSUME NEW n \in Nat, NEW g, NEW h, Alike(g, h, n)
    PROVE  \A i \in 0..n : g[i] = h[i]
<1> DEFINE T == {i \in 0..n : g[i] # h[i]}
<1> SUFFICES ASSUME T # {} PROVE FALSE
  OBVIOUS
<1>1. T \subseteq Nat
  OBVIOUS
<1>2. PICK m \in T : \A j \in T : m <= j
  <2> HIDE DEF T
  <2>1. QED
    BY <1>1, LeastOne
<1>3. m \in 1..n /\ m - 1 \in 0..n /\ ~(m <= m - 1)
  BY DEF Alike
<1>4. g[m - 1] = h[m - 1]
  BY <1>2, <1>3
<1>5. QED
  BY <1>3, <1>4 DEF Alike

\* What is defined place by place is defined.
FoldsOf(S, first, step, n) ==
    {g \in [0..n -> S] : g[0] = first /\ \A i \in 1..n : g[i] = step[<<g[i - 1], i>>]}

LEMMA PlaceByPlace ==
    ASSUME NEW S, NEW first \in S, NEW n \in Nat, NEW step \in [S \X (1..n) -> S]
    PROVE  FoldsOf(S, first, step, n) # {}
<1> DEFINE T == {m \in 0..n : FoldsOf(S, first, step, m) = {}}
<1> SUFFICES ASSUME T # {} PROVE FALSE
  OBVIOUS
<1>1. T \subseteq Nat
  OBVIOUS
<1>2. PICK m \in T : \A j \in T : m <= j
  <2> HIDE DEF T
  <2>1. QED
    BY <1>1, LeastOne
<1>3. FoldsOf(S, first, step, 0) # {}
  <2> DEFINE g == [i \in 0..0 |-> first]
  <2>1. g \in [0..0 -> S] /\ g[0] = first /\ 1..0 = {}
    OBVIOUS
  <2> HIDE DEF g
  <2>2. g \in FoldsOf(S, first, step, 0)
    BY <2>1 DEF FoldsOf
  <2>3. QED
    BY <2>2
<1>4. m \in 1..n /\ m - 1 \in 0..n
  BY <1>3
<1>5. PICK g : g \in FoldsOf(S, first, step, m - 1)
  <2>1. m - 1 \notin T
    BY <1>2, <1>4
  <2>2. QED
    BY <1>4, <2>1
<1>6. /\ g \in [0..(m - 1) -> S] /\ g[0] = first
      /\ \A i \in 1..(m - 1) : g[i] = step[<<g[i - 1], i>>]
  BY <1>5 DEF FoldsOf
<1> DEFINE next == step[<<g[m - 1], m>>]
           h == [i \in 0..m |-> IF i = m THEN next ELSE g[i]]
<1>7. next \in S
  <2>1. g[m - 1] \in S
    BY <1>4, <1>6
  <2>2. <<g[m - 1], m>> \in S \X (1..n)
    BY <1>4, <2>1
  <2>3. QED
    BY <2>2
<1> HIDE DEF next
<1>8. h \in [0..m -> S] /\ h[0] = first
  BY <1>4, <1>6, <1>7
<1>9. h[m] = next /\ \A i \in 0..(m - 1) : h[i] = g[i]
  BY <1>4
<1> HIDE DEF h
<1>10. ASSUME NEW i \in 1..m PROVE h[i] = step[<<h[i - 1], i>>]
  <2>1. CASE i = m
    <3>1. h[m - 1] = g[m - 1]
      BY <1>4, <1>9
    <3>2. QED
      BY <1>9, <2>1, <3>1 DEF next
  <2>2. CASE i # m
    <3>1. i \in 1..(m - 1) /\ i - 1 \in 0..(m - 1) /\ i \in 0..(m - 1)
      BY <1>4, <2>2
    <3>2. h[i] = g[i] /\ h[i - 1] = g[i - 1]
      BY <1>9, <3>1
    <3>3. QED
      BY <1>6, <3>1, <3>2
  <2>3. QED
    BY <2>1, <2>2
<1>11. h \in FoldsOf(S, first, step, m)
  BY <1>8, <1>10 DEF FoldsOf
<1>12. QED
  BY <1>11

-----------------------------------------------------------------------------
(* Paragraphs.                                                             *)

Gathered(S) == [blocks : Seq(Seq(S)), current : Seq(S)]

LEMMA GatherLineGathers ==
    ASSUME NEW S, NEW p \in Gathered(S), NEW word \in S
    PROVE  GatherLine(p, word) \in Gathered(S)
<1>1. p.blocks \in Seq(Seq(S)) /\ p.current \in Seq(S)
  BY DEF Gathered
<1>2. Append(p.current, word) \in Seq(S)
  BY ONLY <1>1, word \in S, AppendProperties
<1>3. Append(p.blocks, p.current) \in Seq(Seq(S))
  BY ONLY <1>1, AppendProperties
<1>4. <<>> \in Seq(S)
  OBVIOUS
<1>5. QED
  BY <1>1, <1>2, <1>3, <1>4 DEF GatherLine, Gathered

\* The state of the gathering after each line.
GatherFn(text) ==
    CHOOSE g : g = [i \in 0..Len(text) |->
                       IF i = 0 THEN NoneGathered ELSE GatherLine(g[i - 1], text[i])]

LEMMA GatherByLines ==
    ASSUME NEW S, NEW text \in Seq(S)
    PROVE  /\ Gather(text) = GatherFn(text)[Len(text)]
           /\ GatherFn(text)[0] = NoneGathered
           /\ \A i \in 1..Len(text) : GatherFn(text)[i] = GatherLine(GatherFn(text)[i - 1], text[i])
           /\ Gather(text) \in Gathered(S)
<1> DEFINE n == Len(text)
           places == 1..n
           step == [x \in Gathered(S) \X places |-> GatherLine(x[1], text[x[2]])]
<1>1. n \in Nat /\ \A i \in places : text[i] \in S
  BY LenProperties, ElementOfSeq
<1>2. Gather(text) = GatherFn(text)[n]
  BY DEF Gather, GatherFn
<1>3. NoneGathered \in Gathered(S)
  <2>1. <<>> \in Seq(S) /\ <<>> \in Seq(Seq(S))
    OBVIOUS
  <2>2. QED
    BY <2>1 DEF NoneGathered, Gathered
<1>4. step \in [Gathered(S) \X places -> Gathered(S)]
  <2> SUFFICES ASSUME NEW x \in Gathered(S) \X places
               PROVE  GatherLine(x[1], text[x[2]]) \in Gathered(S)
    OBVIOUS
  <2>1. x[1] \in Gathered(S) /\ text[x[2]] \in S
    BY <1>1
  <2>2. QED
    BY ONLY <2>1, GatherLineGathers
<1>5. PICK g \in [0..n -> Gathered(S)] :
         g[0] = NoneGathered /\ \A i \in 1..n : g[i] = step[<<g[i - 1], i>>]
  <2> HIDE DEF n, step
  <2>1. FoldsOf(Gathered(S), NoneGathered, step, n) # {}
    BY <1>1, <1>3, <1>4, PlaceByPlace DEF places
  <2>2. QED
    BY <2>1 DEF FoldsOf
<1>6. ASSUME NEW i \in 1..n PROVE g[i] = GatherLine(g[i - 1], text[i])
  <2>1. g[i - 1] \in Gathered(S) /\ i \in places
    <3> HIDE DEF step
    <3>1. i - 1 \in 0..n
      BY <1>1
    <3>2. QED
      BY <1>5, <3>1
  <2>2. step[<<g[i - 1], i>>] = GatherLine(g[i - 1], text[i])
    BY ONLY <2>1 DEF step
  <2> HIDE DEF step
  <2>3. QED
    BY <1>5, <2>2
<1>7. g = [i \in 0..n |-> IF i = 0 THEN NoneGathered ELSE GatherLine(g[i - 1], text[i])]
  <2>1. g = [i \in 0..n |-> g[i]]
    OBVIOUS
  <2>2. ASSUME NEW i \in 0..n
        PROVE  g[i] = IF i = 0 THEN NoneGathered ELSE GatherLine(g[i - 1], text[i])
    <3> HIDE DEF step, n
    <3>1. CASE i = 0
      BY <1>5, <3>1
    <3>2. CASE i # 0
      <4>1. i \in 1..n
        BY <1>1, <3>2
      <4>2. QED
        BY <1>6, <3>2, <4>1
    <3>3. QED
      BY <3>1, <3>2
  <2>3. QED
    BY <2>1, <2>2
<1> HIDE DEF n
<1>8. GatherFn(text) = [i \in 0..n |-> IF i = 0 THEN NoneGathered
                                       ELSE GatherLine(GatherFn(text)[i - 1], text[i])]
  BY <1>7 DEF GatherFn, n
<1> DEFINE h == GatherFn(text)
<1>9. h[0] = NoneGathered /\ \A i \in 1..n : h[i] = GatherLine(h[i - 1], text[i])
  <2> HIDE DEF h
  <2>1. h = [i \in 0..n |-> IF i = 0 THEN NoneGathered ELSE GatherLine(h[i - 1], text[i])]
    BY <1>8 DEF h
  <2>2. 0 \in 0..n /\ \A i \in 1..n : i \in 0..n /\ i # 0
    BY <1>1
  <2>3. QED
    BY <2>1, <2>2
<1> HIDE DEF h
<1>10. \A i \in 0..n : g[i] = h[i]
  <2> HIDE DEF step
  <2>1. ASSUME NEW i \in 1..n, g[i - 1] = h[i - 1] PROVE g[i] = h[i]
    BY <1>6, <1>9, <2>1
  <2>2. Alike(g, h, n)
    BY <1>5, <1>9, <2>1 DEF Alike
  <2>3. n \in Nat
    BY <1>1
  <2>4. QED
    BY ONLY <2>2, <2>3, AlikeAgree
<1>11. h[n] \in Gathered(S)
  <2>1. n \in 0..n
    BY <1>1
  <2>2. QED
    BY <1>5, <1>10, <2>1
<1>12. QED
  BY <1>2, <1>9, <1>11 DEF h, n

\* A line more is gathered into what was gathered.
LEMMA GatherMore ==
    ASSUME NEW S, NEW text \in Seq(S), NEW word \in S
    PROVE  /\ Gather(<<>>) = NoneGathered
           /\ Gather(Append(text, word)) = GatherLine(Gather(text), word)
<1> DEFINE more == Append(text, word)
           n == Len(text)
           g == GatherFn(text)
           h == GatherFn(more)
<1>1. /\ more \in Seq(S) /\ Len(more) = n + 1 /\ n \in Nat
      /\ \A i \in 1..n : more[i] = text[i]
      /\ more[n + 1] = word
  BY AppendProperties, LenProperties
<1> HIDE DEF more, n
<1>2. /\ Gather(text) = g[n] /\ g[0] = NoneGathered
      /\ \A i \in 1..n : g[i] = GatherLine(g[i - 1], text[i])
  BY GatherByLines DEF n
<1>3. /\ Gather(more) = h[n + 1] /\ h[0] = NoneGathered
      /\ \A i \in 1..(n + 1) : h[i] = GatherLine(h[i - 1], more[i])
  BY <1>1, GatherByLines
<1> HIDE DEF g, h
<1>4. h[n] = g[n]
  <2>1. ASSUME NEW i \in 1..n, g[i - 1] = h[i - 1] PROVE g[i] = h[i]
    <3>1. i \in 1..(n + 1)
      BY <1>1
    <3>2. h[i] = GatherLine(h[i - 1], more[i])
      BY <1>3, <3>1
    <3>3. QED
      BY <1>1, <1>2, <2>1, <3>2
  <2>2. Alike(g, h, n)
    BY <1>2, <1>3, <2>1 DEF Alike
  <2>3. \A i \in 0..n : g[i] = h[i]
    <3>1. n \in Nat
      BY <1>1
    <3>2. QED
      BY ONLY <2>2, <3>1, AlikeAgree
  <2>4. QED
    BY <1>1, <2>3
<1>5. h[n + 1] = GatherLine(h[n], word)
  <2>1. n + 1 \in 1..(n + 1) /\ (n + 1) - 1 = n
    BY <1>1
  <2>2. h[n + 1] = GatherLine(h[(n + 1) - 1], more[n + 1])
    BY <1>3, <2>1
  <2>3. QED
    BY <1>1, <2>1, <2>2
<1>6. Gather(<<>>) = NoneGathered
  <2>1. <<>> \in Seq(S) /\ Len(<<>>) = 0
    OBVIOUS
  <2>2. Gather(<<>>) = GatherFn(<<>>)[Len(<<>>)] /\ GatherFn(<<>>)[0] = NoneGathered
    BY <2>1, GatherByLines
  <2>3. QED
    BY <2>1, <2>2
<1>7. QED
  BY <1>2, <1>3, <1>4, <1>5, <1>6 DEF more

FlatFn(blocks) ==
    CHOOSE g : g = [i \in 0..Len(blocks) |-> IF i = 0 THEN <<>> ELSE g[i - 1] \o blocks[i]]

LEMMA FlatByBlocks ==
    ASSUME NEW S, NEW blocks \in Seq(Seq(S))
    PROVE  /\ Flat(blocks) = FlatFn(blocks)[Len(blocks)]
           /\ FlatFn(blocks)[0] = <<>>
           /\ \A i \in 1..Len(blocks) : FlatFn(blocks)[i] = FlatFn(blocks)[i - 1] \o blocks[i]
           /\ Flat(blocks) \in Seq(S)
<1> DEFINE n == Len(blocks)
           places == 1..n
           step == [x \in Seq(S) \X places |-> x[1] \o blocks[x[2]]]
<1>1. n \in Nat /\ \A i \in places : blocks[i] \in Seq(S)
  BY LenProperties, ElementOfSeq
<1>2. Flat(blocks) = FlatFn(blocks)[n]
  BY DEF Flat, FlatFn
<1>3. <<>> \in Seq(S)
  OBVIOUS
<1>4. step \in [Seq(S) \X places -> Seq(S)]
  <2> SUFFICES ASSUME NEW x \in Seq(S) \X places
               PROVE  x[1] \o blocks[x[2]] \in Seq(S)
    OBVIOUS
  <2>1. x[1] \in Seq(S) /\ blocks[x[2]] \in Seq(S)
    BY <1>1
  <2>2. QED
    BY ONLY <2>1, ConcatProperties
<1>5. PICK g \in [0..n -> Seq(S)] :
         g[0] = <<>> /\ \A i \in 1..n : g[i] = step[<<g[i - 1], i>>]
  <2> HIDE DEF n, step
  <2>1. FoldsOf(Seq(S), <<>>, step, n) # {}
    BY <1>1, <1>3, <1>4, PlaceByPlace DEF places
  <2>2. QED
    BY <2>1 DEF FoldsOf
<1>6. ASSUME NEW i \in 1..n PROVE g[i] = g[i - 1] \o blocks[i]
  <2>1. g[i - 1] \in Seq(S) /\ i \in places
    <3> HIDE DEF step
    <3>1. i - 1 \in 0..n
      BY <1>1
    <3>2. QED
      BY <1>5, <3>1
  <2>2. step[<<g[i - 1], i>>] = g[i - 1] \o blocks[i]
    BY ONLY <2>1 DEF step
  <2> HIDE DEF step
  <2>3. QED
    BY <1>5, <2>2
<1>7. g = [i \in 0..n |-> IF i = 0 THEN <<>> ELSE g[i - 1] \o blocks[i]]
  <2>1. g = [i \in 0..n |-> g[i]]
    OBVIOUS
  <2>2. ASSUME NEW i \in 0..n
        PROVE  g[i] = IF i = 0 THEN <<>> ELSE g[i - 1] \o blocks[i]
    <3> HIDE DEF step, n
    <3>1. CASE i = 0
      BY <1>5, <3>1
    <3>2. CASE i # 0
      <4>1. i \in 1..n
        BY <1>1, <3>2
      <4>2. QED
        BY <1>6, <3>2, <4>1
    <3>3. QED
      BY <3>1, <3>2
  <2>3. QED
    BY <2>1, <2>2
<1> HIDE DEF n
<1>8. FlatFn(blocks) = [i \in 0..n |-> IF i = 0 THEN <<>> ELSE FlatFn(blocks)[i - 1] \o blocks[i]]
  BY <1>7 DEF FlatFn, n
<1> DEFINE h == FlatFn(blocks)
<1>9. h[0] = <<>> /\ \A i \in 1..n : h[i] = h[i - 1] \o blocks[i]
  <2> HIDE DEF h
  <2>1. h = [i \in 0..n |-> IF i = 0 THEN <<>> ELSE h[i - 1] \o blocks[i]]
    BY <1>8 DEF h
  <2>2. 0 \in 0..n /\ \A i \in 1..n : i \in 0..n /\ i # 0
    BY <1>1
  <2>3. QED
    BY <2>1, <2>2
<1> HIDE DEF h
<1>10. \A i \in 0..n : g[i] = h[i]
  <2> HIDE DEF step
  <2>1. ASSUME NEW i \in 1..n, g[i - 1] = h[i - 1] PROVE g[i] = h[i]
    BY <1>6, <1>9, <2>1
  <2>2. Alike(g, h, n)
    BY <1>5, <1>9, <2>1 DEF Alike
  <2>3. n \in Nat
    BY <1>1
  <2>4. QED
    BY ONLY <2>2, <2>3, AlikeAgree
<1>11. h[n] \in Seq(S)
  <2>1. n \in 0..n
    BY <1>1
  <2>2. QED
    BY <1>5, <1>10, <2>1
<1>12. QED
  BY <1>2, <1>9, <1>11 DEF h, n

LEMMA FlatMore ==
    ASSUME NEW S, NEW blocks \in Seq(Seq(S)), NEW block \in Seq(S)
    PROVE  /\ Flat(<<>>) = <<>>
           /\ Flat(Append(blocks, block)) = Flat(blocks) \o block
<1> DEFINE more == Append(blocks, block)
           n == Len(blocks)
           g == FlatFn(blocks)
           h == FlatFn(more)
<1>1. /\ more \in Seq(Seq(S)) /\ Len(more) = n + 1 /\ n \in Nat
      /\ \A i \in 1..n : more[i] = blocks[i]
      /\ more[n + 1] = block
  BY AppendProperties, LenProperties
<1> HIDE DEF more, n
<1>2. /\ Flat(blocks) = g[n] /\ g[0] = <<>>
      /\ \A i \in 1..n : g[i] = g[i - 1] \o blocks[i]
  BY FlatByBlocks DEF n
<1>3. /\ Flat(more) = h[n + 1] /\ h[0] = <<>>
      /\ \A i \in 1..(n + 1) : h[i] = h[i - 1] \o more[i]
  BY <1>1, FlatByBlocks
<1> HIDE DEF g, h
<1>4. h[n] = g[n]
  <2>1. ASSUME NEW i \in 1..n, g[i - 1] = h[i - 1] PROVE g[i] = h[i]
    <3>1. i \in 1..(n + 1)
      BY <1>1
    <3>2. h[i] = h[i - 1] \o more[i]
      BY <1>3, <3>1
    <3>3. QED
      BY <1>1, <1>2, <2>1, <3>2
  <2>2. Alike(g, h, n)
    BY <1>2, <1>3, <2>1 DEF Alike
  <2>3. \A i \in 0..n : g[i] = h[i]
    <3>1. n \in Nat
      BY <1>1
    <3>2. QED
      BY ONLY <2>2, <3>1, AlikeAgree
  <2>4. QED
    BY <1>1, <2>3
<1>5. h[n + 1] = h[n] \o block
  <2>1. n + 1 \in 1..(n + 1) /\ (n + 1) - 1 = n
    BY <1>1
  <2>2. h[n + 1] = h[(n + 1) - 1] \o more[n + 1]
    BY <1>3, <2>1
  <2>3. QED
    BY <1>1, <2>1, <2>2
<1>6. Flat(<<>>) = <<>>
  <2>1. <<>> \in Seq(Seq(S)) /\ Len(<<>>) = 0
    OBVIOUS
  <2>2. Flat(<<>>) = FlatFn(<<>>)[Len(<<>>)] /\ FlatFn(<<>>)[0] = <<>>
    BY <2>1, FlatByBlocks
  <2>3. QED
    BY <2>1, <2>2
<1>7. QED
  BY <1>2, <1>3, <1>4, <1>5, <1>6 DEF more

-----------------------------------------------------------------------------
(* Places in a set of numbers.                                             *)

NthOf(places, n) == CHOOSE i \in places : Cardinality({j \in places : j <= i}) = n

LEMMA NumbersByPlace ==
    ASSUME NEW places, places \subseteq Nat, IsFiniteSet(places)
    PROVE  /\ Cardinality(places) \in Nat
           /\ \A i \in places : Cardinality({j \in places : j <= i}) \in 1..Cardinality(places)
           /\ \A i, j \in places :
                 i < j => Cardinality({l \in places : l <= i}) < Cardinality({l \in places : l <= j})
           /\ \A n \in 1..Cardinality(places) :
                 NthOf(places, n) \in places /\ Cardinality({j \in places : j <= NthOf(places, n)}) = n
           /\ \A i \in places : NthOf(places, Cardinality({j \in places : j <= i})) = i
<1> DEFINE order == {p \in places \X places : p[1] < p[2]}
           place(i) == Cardinality({j \in places : j <= i})
<1>1. \A i, j \in places : <<i, j>> \in order <=> i < j
  OBVIOUS
<1>2. \A i \in places : place(i) = PlaceIn(places, order, i)
  <2> SUFFICES ASSUME NEW i \in places PROVE place(i) = PlaceIn(places, order, i)
    OBVIOUS
  <2>1. ASSUME NEW j \in places PROVE j <= i <=> j = i \/ <<j, i>> \in order
    <3>1. i \in Nat /\ j \in Nat
      OBVIOUS
    <3>2. j <= i <=> j = i \/ j < i
      BY <3>1
    <3> HIDE DEF order
    <3>3. QED
      BY <1>1, <3>2
  <2> HIDE DEF order
  <2>2. {j \in places : j <= i} = UpTo(places, order, i)
    BY <2>1 DEF UpTo
  <2>3. QED
    BY <2>2 DEF PlaceIn
<1> HIDE DEF order, place
<1>3. /\ Cardinality(places) \in Nat
      /\ \A i \in places : PlaceIn(places, order, i) \in 1..Cardinality(places)
      /\ \A i, j \in places : <<i, j>> \in order <=> PlaceIn(places, order, i) < PlaceIn(places, order, j)
      /\ \A i, j \in places : PlaceIn(places, order, i) = PlaceIn(places, order, j) => i = j
      /\ \A n \in 1..Cardinality(places) : \E i \in places : PlaceIn(places, order, i) = n
  <2>1. \A i, j \in places : i # j => <<i, j>> \in order \/ <<j, i>> \in order
    BY <1>1
  <2>2. \A i, j \in places : <<i, j>> \in order => i # j /\ <<j, i>> \notin order
    BY <1>1
  <2>3. \A i, j, l \in places : <<l, i>> \in order /\ <<i, j>> \in order => <<l, j>> \in order
    BY <1>1
  <2>4. IsFiniteSet(places)
    OBVIOUS
  <2>5. QED
    BY ONLY <2>1, <2>2, <2>3, <2>4, OrderedByPlace
<1>4. /\ \A i \in places : place(i) \in 1..Cardinality(places)
      /\ \A i, j \in places : i < j => place(i) < place(j)
      /\ \A i, j \in places : place(i) = place(j) => i = j
  <2>1. \A i \in places : place(i) \in 1..Cardinality(places)
    BY <1>2, <1>3
  <2>2. ASSUME NEW i \in places, NEW j \in places, i < j PROVE place(i) < place(j)
    <3>1. <<i, j>> \in order
      BY <1>1, <2>2
    <3>2. PlaceIn(places, order, i) < PlaceIn(places, order, j)
      BY <1>3, <3>1
    <3>3. QED
      BY <1>2, <3>2
  <2>3. ASSUME NEW i \in places, NEW j \in places, place(i) = place(j) PROVE i = j
    BY <1>2, <1>3, <2>3
  <2>4. QED
    BY <2>1, <2>2, <2>3
<1>5. \A n \in 1..Cardinality(places) : \E i \in places : place(i) = n
  BY <1>2, <1>3
<1>6. \A n : NthOf(places, n) = CHOOSE i \in places : place(i) = n
  BY DEF NthOf, place
<1>7. \A n \in 1..Cardinality(places) : NthOf(places, n) \in places /\ place(NthOf(places, n)) = n
  BY <1>5, <1>6
<1>8. \A i \in places : NthOf(places, place(i)) = i
  BY <1>4, <1>7
<1>9. QED
  BY <1>3, <1>4, <1>7, <1>8 DEF place

LEMMA PlacesOfLines ==
    ASSUME NEW n \in Nat, NEW places, places \subseteq 1..n
    PROVE  /\ places \subseteq Nat /\ IsFiniteSet(places) /\ Cardinality(places) \in Nat
           /\ IsFiniteSet(places \cup {n + 1})
           /\ Cardinality(places \cup {n + 1}) = Cardinality(places) + 1
<1> DEFINE all == 1..n
<1>1. IsFiniteSet(all)
  <2>1. n \in Int /\ 1 \in Int
    OBVIOUS
  <2>2. QED
    BY ONLY <2>1, FS_Interval
<1>2. places \subseteq all
  OBVIOUS
<1>3. places \subseteq Nat /\ n + 1 \notin places
  OBVIOUS
<1> HIDE DEF all
<1>4. IsFiniteSet(places)
  BY ONLY <1>1, <1>2, FS_Subset
<1>5. Cardinality(places) \in Nat
  BY ONLY <1>4, FS_CardinalityType
<1>6. /\ IsFiniteSet(places \cup {n + 1})
      /\ Cardinality(places \cup {n + 1}) =
            IF n + 1 \in places THEN Cardinality(places) ELSE Cardinality(places) + 1
  BY ONLY <1>4, FS_AddElement
<1>7. QED
  BY <1>3, <1>4, <1>5, <1>6

-----------------------------------------------------------------------------
(* One line more.                                                          *)

IsLast(text, s) == s \in Sections(text) /\ \A x \in Sections(text) : x <= s

\* The paragraph read last has ended.
Ended(text, s) == \A y \in Inside(text, s) : \E b \in Of(text, {"blank"}) : y < b

LEMMA KindsOfLines ==
    ASSUME NEW line \in Line
    PROVE  /\ line.kind \in {"title", "section", "deeper", "text", "blank"}
           /\ line.kind = "blank" => line.word = NoWord
           /\ line.kind # "blank" => line.word \in Words /\ line.word # NoWord
BY CorpusAssumption

OneMore(text, line, more, n) ==
    text \in Seq(Line) /\ line \in Line /\ more = Append(text, line) /\ n = Len(text)

LEMMA LineMore ==
    ASSUME NEW text, NEW line, NEW more, NEW n, OneMore(text, line, more, n)
    PROVE  /\ n \in Nat /\ more \in Seq(Line) /\ Len(more) = n + 1
           /\ \A i \in 1..n : more[i] = text[i]
           /\ more[n + 1] = line
           /\ \A kinds : Of(text, kinds) \subseteq 1..n
           /\ \A kinds : Of(more, kinds) = Of(text, kinds) \cup (IF line.kind \in kinds THEN {n + 1} ELSE {})
<1>1. /\ n \in Nat /\ more \in Seq(Line) /\ Len(more) = n + 1
      /\ \A i \in 1..n : more[i] = text[i]
      /\ more[n + 1] = line
  BY AppendProperties, LenProperties DEF OneMore
<1>2. \A kinds : Of(text, kinds) \subseteq 1..n
  BY DEF Of, OneMore
<1> Len(text) = n
  BY DEF OneMore
<1>3. ASSUME NEW kinds
      PROVE  Of(more, kinds) = Of(text, kinds) \cup (IF line.kind \in kinds THEN {n + 1} ELSE {})
  <2>1. 1..(n + 1) = (1..n) \cup {n + 1}
    BY <1>1
  <2>2. \A i \in 1..n : i \in Of(more, kinds) <=> i \in Of(text, kinds)
    BY <1>1, <2>1 DEF Of
  <2>3. n + 1 \in Of(more, kinds) <=> line.kind \in kinds
    BY <1>1, <2>1 DEF Of
  <2>4. Of(more, kinds) \subseteq (1..n) \cup {n + 1}
    BY <1>1, <2>1 DEF Of
  <2>5. QED
    BY <1>2, <2>2, <2>3, <2>4
<1>4. QED
  BY <1>1, <1>2, <1>3

LEMMA SectionMore ==
    ASSUME NEW text, NEW line, NEW more, NEW n, OneMore(text, line, more, n),
           NEW s \in Sections(text)
    PROVE  /\ s \in 1..n /\ s \in Sections(more) /\ more[s] = text[s]
           /\ Section(text, s) \subseteq (s + 1)..n
           /\ Section(more, s) = Section(text, s)
                 \cup (IF IsLast(text, s) /\ line.kind # "section" THEN {n + 1} ELSE {})
           /\ IsLast(more, s) <=> IsLast(text, s) /\ line.kind # "section"
<1>1. /\ n \in Nat /\ Len(more) = n + 1
      /\ \A i \in 1..n : more[i] = text[i]
      /\ more[n + 1] = line
      /\ Sections(text) \subseteq 1..n
      /\ Sections(more) = Sections(text) \cup (IF line.kind = "section" THEN {n + 1} ELSE {})
  <2>1. /\ \A kinds : Of(text, kinds) \subseteq 1..n
        /\ \A kinds : Of(more, kinds) = Of(text, kinds) \cup (IF line.kind \in kinds THEN {n + 1} ELSE {})
    BY LineMore
  <2> DEFINE ofSections == {"section"}
  <2>2. /\ Of(text, ofSections) \subseteq 1..n
        /\ Of(more, ofSections) = Of(text, ofSections) \cup (IF line.kind \in ofSections THEN {n + 1} ELSE {})
    <3> HIDE DEF ofSections
    <3>1. QED
      BY <2>1
  <2>3. /\ n \in Nat /\ Len(more) = n + 1
        /\ \A i \in 1..n : more[i] = text[i]
        /\ more[n + 1] = line
    BY LineMore
  <2>4. QED
    BY <2>2, <2>3 DEF Sections
<1>2. s \in 1..n /\ s \in Sections(more) /\ more[s] = text[s]
  BY <1>1
<1>3. Section(text, s) \subseteq (s + 1)..n /\ Len(text) = n
  BY DEF Section, OneMore
<1>4. \A j \in (s + 1)..n : j \in Section(more, s) <=> j \in Section(text, s)
  <2> SUFFICES ASSUME NEW j \in (s + 1)..n
               PROVE  j \in Section(more, s) <=> j \in Section(text, s)
    OBVIOUS
  <2>1. j \in (s + 1)..(n + 1) /\ \A k \in (s + 1)..j : k \in 1..n
    BY <1>1, <1>2
  <2>2. \A k \in (s + 1)..j : more[k].kind = text[k].kind
    BY <1>1, <2>1
  <2>3. QED
    BY <1>1, <1>3, <2>1, <2>2 DEF Section
<1>5. n + 1 \in Section(more, s) <=> IsLast(text, s) /\ line.kind # "section"
  <2>1. n + 1 \in (s + 1)..(n + 1) /\ (s + 1)..(n + 1) = ((s + 1)..n) \cup {n + 1}
    BY <1>1, <1>2
  <2>2. n + 1 \in Section(more, s) <=>
           (\A k \in (s + 1)..n : more[k].kind # "section") /\ more[n + 1].kind # "section"
    BY <1>1, <2>1 DEF Section
  <2>3. \A k \in (s + 1)..n : k \in 1..n /\ more[k].kind = text[k].kind
    BY <1>1, <1>2
  <2>4. IsLast(text, s) <=> \A k \in (s + 1)..n : text[k].kind # "section"
    <3>1. \A k \in 1..n : k \in Sections(text) <=> text[k].kind = "section"
      BY <1>3 DEF Sections, Of
    <3>2. \A k \in 1..n : k \in (s + 1)..n <=> ~(k <= s)
      BY <1>1, <1>2
    <3>3. QED
      BY <1>1, <2>3, <3>1, <3>2 DEF IsLast
  <2>5. QED
    BY <1>1, <2>2, <2>3, <2>4
<1>6. Section(more, s) \subseteq ((s + 1)..n) \cup {n + 1}
  <2>1. (s + 1)..(n + 1) = ((s + 1)..n) \cup {n + 1}
    BY <1>1, <1>2
  <2>2. QED
    BY <1>1, <2>1 DEF Section
<1>7. Section(more, s) = Section(text, s)
         \cup (IF IsLast(text, s) /\ line.kind # "section" THEN {n + 1} ELSE {})
  BY <1>3, <1>4, <1>5, <1>6
<1>8. IsLast(more, s) <=> IsLast(text, s) /\ line.kind # "section"
  <2>1. ~(n + 1 <= s)
    BY <1>1, <1>2
  <2>2. QED
    BY <1>1, <1>2, <2>1 DEF IsLast
<1>9. QED
  BY <1>2, <1>3, <1>7, <1>8

Wordy == {"text", "deeper"}

LEMMA InsideMore ==
    ASSUME NEW text, NEW line, NEW more, NEW n, OneMore(text, line, more, n),
           NEW s \in Sections(text)
    PROVE  /\ Inside(text, s) \subseteq 1..n
           /\ Inside(more, s) = Inside(text, s)
                 \cup (IF IsLast(text, s) /\ line.kind \in Wordy THEN {n + 1} ELSE {})
           /\ Opening(more, s) = Opening(text, s)
                 \cup (IF IsLast(text, s) /\ line.kind \in Wordy /\ Ended(text, s) THEN {n + 1} ELSE {})
           /\ IsLast(text, s) =>
                (Ended(more, s) <=> line.kind = "blank" \/ (line.kind \notin Wordy /\ Ended(text, s)))
<1>1. /\ n \in Nat
      /\ \A kinds : Of(text, kinds) \subseteq 1..n
      /\ \A kinds : Of(more, kinds) = Of(text, kinds) \cup (IF line.kind \in kinds THEN {n + 1} ELSE {})
  BY LineMore
<1>2. /\ s \in 1..n /\ Section(text, s) \subseteq (s + 1)..n
      /\ Section(more, s) = Section(text, s)
            \cup (IF IsLast(text, s) /\ line.kind # "section" THEN {n + 1} ELSE {})
  BY SectionMore
<1>3. Inside(text, s) \subseteq 1..n
  BY <1>1 DEF Inside
<1>4. Inside(more, s) = Inside(text, s)
         \cup (IF IsLast(text, s) /\ line.kind \in Wordy THEN {n + 1} ELSE {})
  <2>1. n + 1 \notin Section(text, s) /\ n + 1 \notin Of(text, Wordy)
    BY <1>1, <1>2
  <2>2. /\ Inside(more, s) = Section(more, s) \cap Of(more, Wordy)
        /\ Inside(text, s) = Section(text, s) \cap Of(text, Wordy)
    BY DEF Inside, Wordy
  <2>3. line.kind \in Wordy => line.kind # "section"
    BY DEF Wordy
  <2>4. Of(more, Wordy) = Of(text, Wordy) \cup (IF line.kind \in Wordy THEN {n + 1} ELSE {})
    BY ONLY <1>1
  <2>5. QED
    BY <1>2, <2>1, <2>2, <2>3, <2>4
<1> DEFINE blanks == Of(text, {"blank"})
           blanksNow == Of(more, {"blank"})
<1>5. blanks \subseteq 1..n /\ blanksNow = blanks \cup (IF line.kind = "blank" THEN {n + 1} ELSE {})
  BY <1>1
<1> HIDE DEF blanks, blanksNow
<1>6. /\ \A x : x \in Opening(text, s) <=>
            x \in Inside(text, s) /\ \A y \in Inside(text, s) : y < x => \E b \in blanks : y < b /\ b < x
      /\ \A x : x \in Opening(more, s) <=>
            x \in Inside(more, s) /\ \A y \in Inside(more, s) : y < x => \E b \in blanksNow : y < b /\ b < x
  BY DEF Opening, blanks, blanksNow
<1>7. ASSUME NEW x \in 1..n PROVE x \in Opening(more, s) <=> x \in Opening(text, s)
  <2>1. x # n + 1 /\ x \in Inside(more, s) <=> x \in Inside(text, s)
    BY <1>1, <1>4
  <2>2. \A y : y \in Inside(more, s) /\ y < x <=> y \in Inside(text, s) /\ y < x
    BY <1>1, <1>4
  <2>3. \A b : b \in blanksNow /\ b < x <=> b \in blanks /\ b < x
    BY <1>1, <1>5
  <2>4. x \in Inside(more, s) <=> x \in Inside(text, s)
    BY <1>1, <1>4
  <2>5. QED
    BY <1>6, <2>2, <2>3, <2>4
<1>8. n + 1 \in Opening(more, s) <=> IsLast(text, s) /\ line.kind \in Wordy /\ Ended(text, s)
  <2>1. n + 1 \in Inside(more, s) <=> IsLast(text, s) /\ line.kind \in Wordy
    BY <1>1, <1>3, <1>4
  <2>2. \A y : y \in Inside(more, s) /\ y < n + 1 <=> y \in Inside(text, s)
    BY <1>1, <1>3, <1>4
  <2>3. \A b : b \in blanksNow /\ b < n + 1 <=> b \in blanks
    <3>1. ~(n + 1 < n + 1) /\ \A b \in 1..n : b < n + 1
      BY <1>1
    <3>2. QED
      BY <1>5, <3>1
  <2>4. Ended(text, s) <=> \A y \in Inside(text, s) : \E b \in blanks : y < b
    BY DEF Ended, blanks
  <2>5. QED
    BY <1>6, <2>1, <2>2, <2>3, <2>4
<1>9. Opening(more, s) \subseteq (1..n) \cup {n + 1} /\ Opening(text, s) \subseteq 1..n
  BY <1>3, <1>4, <1>6
<1>10. Opening(more, s) = Opening(text, s)
          \cup (IF IsLast(text, s) /\ line.kind \in Wordy /\ Ended(text, s) THEN {n + 1} ELSE {})
  BY <1>7, <1>8, <1>9
<1>11. ASSUME IsLast(text, s)
       PROVE  Ended(more, s) <=> line.kind = "blank" \/ (line.kind \notin Wordy /\ Ended(text, s))
  <2>1. /\ Ended(text, s) <=> \A y \in Inside(text, s) : \E b \in blanks : y < b
        /\ Ended(more, s) <=> \A y \in Inside(more, s) : \E b \in blanksNow : y < b
    BY DEF Ended, blanks, blanksNow
  <2>2. CASE line.kind = "blank"
    <3>1. Inside(more, s) = Inside(text, s) /\ n + 1 \in blanksNow
      BY <1>4, <1>5, <2>2 DEF Wordy
    <3>2. \A y \in Inside(text, s) : y < n + 1
      BY <1>1, <1>3
    <3>3. QED
      BY <2>1, <2>2, <3>1, <3>2
  <2>3. CASE line.kind \in Wordy
    <3>1. n + 1 \in Inside(more, s) /\ blanksNow = blanks /\ line.kind # "blank"
      BY <1>4, <1>5, <1>11, <2>3 DEF Wordy
    <3>2. \A b \in blanks : ~(n + 1 < b)
      BY <1>1, <1>5
    <3>3. QED
      BY <2>1, <2>3, <3>1, <3>2
  <2>4. CASE line.kind # "blank" /\ line.kind \notin Wordy
    <3>1. Inside(more, s) = Inside(text, s) /\ blanksNow = blanks
      BY <1>4, <1>5, <2>4
    <3>2. QED
      BY <2>1, <2>4, <3>1
  <2>5. QED
    BY <2>2, <2>3, <2>4
<1>12. QED
  BY <1>3, <1>4, <1>10, <1>11

LEMMA NumbersOfSections ==
    ASSUME NEW text, NEW line, NEW more, NEW n, OneMore(text, line, more, n)
    PROVE  /\ Cardinality(Sections(text)) \in Nat
           /\ \A s \in Sections(text) : /\ Number(text, s) \in 1..Cardinality(Sections(text))
                                        /\ Number(more, s) = Number(text, s)
           /\ \A s, x \in Sections(text) : s < x => Number(text, s) < Number(text, x)
           /\ \A s \in Sections(text) : IsLast(text, s) => Number(text, s) = Cardinality(Sections(text))
           /\ \A k \in 1..Cardinality(Sections(text)) : \E s \in Sections(text) : Number(text, s) = k
           /\ line.kind # "section" => Sections(more) = Sections(text)
           /\ line.kind = "section" =>
                 /\ Sections(more) = Sections(text) \cup {n + 1} /\ n + 1 \notin Sections(text)
                 /\ Cardinality(Sections(more)) = Cardinality(Sections(text)) + 1
                 /\ IsLast(more, n + 1)
                 /\ Number(more, n + 1) = Cardinality(Sections(text)) + 1
<1> DEFINE all == Sections(text)
           ofSections == {"section"}
<1>1. n \in Nat /\ Of(text, ofSections) \subseteq 1..n
      /\ Of(more, ofSections) = Of(text, ofSections) \cup (IF line.kind \in ofSections THEN {n + 1} ELSE {})
  <2> HIDE DEF ofSections
  <2>1. QED
    BY LineMore
<1>2. all \subseteq 1..n /\ n + 1 \notin all
  BY <1>1 DEF Sections
<1>3. Sections(more) = all \cup (IF line.kind = "section" THEN {n + 1} ELSE {})
  BY <1>1 DEF Sections
<1>4. \A s : Number(text, s) = Cardinality({x \in all : x <= s})
  BY DEF Number
<1>5. \A s : Number(more, s) = Cardinality({x \in Sections(more) : x <= s})
  BY DEF Number
<1> HIDE DEF all
<1>6. /\ all \subseteq Nat /\ IsFiniteSet(all) /\ Cardinality(all) \in Nat
      /\ Cardinality(all \cup {n + 1}) = Cardinality(all) + 1
  BY <1>1, <1>2, PlacesOfLines
<1>7. /\ \A i \in all : Cardinality({j \in all : j <= i}) \in 1..Cardinality(all)
      /\ \A i, j \in all :
            i < j => Cardinality({l \in all : l <= i}) < Cardinality({l \in all : l <= j})
      /\ \A k \in 1..Cardinality(all) :
            NthOf(all, k) \in all /\ Cardinality({j \in all : j <= NthOf(all, k)}) = k
  BY <1>6, NumbersByPlace
<1>8. ASSUME NEW s \in all PROVE Number(more, s) = Number(text, s)
  <2>1. ~(n + 1 <= s)
    BY <1>1, <1>2
  <2>2. {x \in Sections(more) : x <= s} = {x \in all : x <= s}
    BY <1>3, <2>1
  <2>3. QED
    BY <1>4, <1>5, <2>2
<1>9. ASSUME NEW s \in all, IsLast(text, s) PROVE Number(text, s) = Cardinality(all)
  <2>1. {x \in all : x <= s} = all
    BY <1>9 DEF IsLast, all
  <2>2. QED
    BY <1>4, <2>1
<1>10. ASSUME line.kind = "section"
       PROVE  /\ Sections(more) = all \cup {n + 1}
              /\ IsLast(more, n + 1)
              /\ Number(more, n + 1) = Cardinality(all) + 1
  <2>1. Sections(more) = all \cup {n + 1}
    BY <1>3, <1>10
  <2>2. \A x \in Sections(more) : x <= n + 1
    <3>1. n + 1 <= n + 1 /\ \A x \in 1..n : x <= n + 1
      BY <1>1
    <3>2. QED
      BY <1>2, <2>1, <3>1
  <2>3. {x \in Sections(more) : x <= n + 1} = all \cup {n + 1}
    BY <2>1, <2>2
  <2>4. QED
    BY <1>5, <1>6, <2>1, <2>2, <2>3 DEF IsLast
<1>11. \A k \in 1..Cardinality(all) : \E s \in all : Number(text, s) = k
  BY <1>4, <1>7
<1>12. \A s \in all : Number(text, s) \in 1..Cardinality(all)
  BY <1>4, <1>7
<1>13. \A s, x \in all : s < x => Number(text, s) < Number(text, x)
  BY <1>4, <1>7
<1>14. QED
  BY <1>2, <1>3, <1>6, <1>8, <1>9, <1>10, <1>11, <1>12, <1>13 DEF all

AllWords == Words \cup {NoWord}

Among(places, n) == places \subseteq 1..n
OneWordMore(text, line, more, n, places) ==
    WordsAt(more, places \cup {n + 1}) = Append(WordsAt(text, places), line.word)

\* The words of a place more are one word more.
LEMMA WordsMore ==
    ASSUME NEW text, NEW line, NEW more, NEW n, NEW places,
           OneMore(text, line, more, n), Among(places, n)
    PROVE  /\ WordsAt(text, places) \in Seq(AllWords)
           /\ Len(WordsAt(text, places)) = Cardinality(places)
           /\ WordsAt(more, places) = WordsAt(text, places)
           /\ OneWordMore(text, line, more, n, places)
<1> DEFINE all == places \cup {n + 1}
           size == Cardinality(places)
           words == WordsAt(text, places)
           now == WordsAt(more, all)
<1>1. /\ n \in Nat /\ Len(more) = n + 1 /\ more \in Seq(Line)
      /\ \A i \in 1..n : more[i] = text[i]
      /\ more[n + 1] = line
  BY LineMore
<1>2. text \in Seq(Line) /\ Len(text) = n
  BY DEF OneMore
<1>3. /\ \A i \in 1..n : text[i].word \in AllWords
      /\ line.word \in AllWords
  <2>1. \A l \in Line : l.word \in AllWords
    BY KindsOfLines DEF AllWords
  <2>2. \A i \in 1..n : text[i] \in Line
    BY <1>2, ElementOfSeq
  <2>3. line \in Line
    BY DEF OneMore
  <2>4. QED
    BY <2>1, <2>2, <2>3
<1> places \subseteq 1..n
  BY DEF Among
<1>4. /\ places \subseteq Nat /\ IsFiniteSet(places) /\ size \in Nat
      /\ IsFiniteSet(all) /\ Cardinality(all) = size + 1
  BY <1>1, PlacesOfLines
<1>5. all \subseteq Nat /\ all = places \cup {n + 1}
  BY <1>1, <1>4
<1> HIDE DEF all
<1>6. /\ \A k \in 1..size :
            NthOf(places, k) \in places /\ Cardinality({j \in places : j <= NthOf(places, k)}) = k
  BY <1>4, NumbersByPlace
<1>7. \A i \in all : NthOf(all, Cardinality({j \in all : j <= i})) = i
  BY <1>4, <1>5, NumbersByPlace
<1>8. ASSUME NEW k \in 1..size PROVE NthOf(all, k) = NthOf(places, k)
  <2> DEFINE i == NthOf(places, k)
  <2>1. i \in places /\ Cardinality({j \in places : j <= i}) = k
    BY <1>6
  <2> HIDE DEF i
  <2>2. ~(n + 1 <= i)
    BY <1>1, <2>1
  <2>3. {j \in all : j <= i} = {j \in places : j <= i}
    BY <1>5, <2>2
  <2>4. i \in all
    BY <1>5, <2>1
  <2>5. NthOf(all, k) = i
    BY <1>7, <2>1, <2>3, <2>4
  <2>6. QED
    BY <2>5 DEF i
<1>9. NthOf(all, size + 1) = n + 1
  <2>1. \A j \in all : j <= n + 1
    <3>1. n + 1 <= n + 1 /\ \A j \in 1..n : j <= n + 1
      BY <1>1
    <3>2. QED
      BY <1>5, <3>1
  <2>2. {j \in all : j <= n + 1} = all /\ n + 1 \in all
    BY <1>5, <2>1
  <2>3. QED
    BY <1>4, <1>7, <2>2
<1>10. /\ words = [k \in 1..size |-> text[NthOf(places, k)].word]
       /\ WordsAt(more, places) = [k \in 1..size |-> more[NthOf(places, k)].word]
       /\ now = [k \in 1..(size + 1) |-> more[NthOf(all, k)].word]
  BY <1>4 DEF WordsAt, NthOf
<1>11. ASSUME NEW k \in 1..size
       PROVE  /\ text[NthOf(places, k)].word \in AllWords
              /\ more[NthOf(places, k)].word = text[NthOf(places, k)].word
  BY <1>1, <1>3, <1>6
<1> HIDE DEF words, now
<1>12. words \in [1..size -> AllWords]
  BY <1>10, <1>11
<1>13. words \in Seq(AllWords) /\ Len(words) = size
  <2> HIDE DEF size
  <2>1. QED
    BY <1>4, <1>12
<1>14. WordsAt(more, places) = words
  BY <1>10, <1>11
<1> DEFINE longer == Append(words, line.word)
<1>15. /\ longer \in Seq(AllWords) /\ Len(longer) = size + 1
       /\ \A k \in 1..size : longer[k] = words[k]
       /\ longer[size + 1] = line.word
  <2> HIDE DEF size
  <2>1. QED
    BY <1>3, <1>13, AppendProperties
<1> HIDE DEF longer, size
<1>16. ASSUME NEW k \in 1..(size + 1) PROVE now[k] = longer[k]
  <2>1. CASE k = size + 1
    BY <1>1, <1>4, <1>9, <1>10, <1>15, <2>1
  <2>2. CASE k # size + 1
    <3>1. k \in 1..size
      BY <1>4, <2>2
    <3>2. now[k] = more[NthOf(places, k)].word
      BY <1>4, <1>8, <1>10, <3>1
    <3>3. QED
      BY <1>10, <1>11, <1>15, <3>1, <3>2
  <2>3. QED
    BY <2>1, <2>2
<1>17. now = longer
  <2>1. longer \in [1..(size + 1) -> AllWords]
    BY <1>15, LenProperties
  <2>2. now = [k \in 1..(size + 1) |-> now[k]]
    BY <1>10
  <2>3. longer = [k \in 1..(size + 1) |-> longer[k]]
    BY <2>1
  <2>4. QED
    BY <1>16, <2>2, <2>3
<1>18. OneWordMore(text, line, more, n, places)
  BY <1>17 DEF words, now, longer, size, all, OneWordMore
<1>19. QED
  BY <1>13, <1>14, <1>18 DEF words, size

LEMMA NoWordsAt == ASSUME NEW text PROVE WordsAt(text, {}) = <<>>
<1>1. Cardinality({}) = 0
  BY FS_EmptySet
<1>2. 1..0 = {}
  OBVIOUS
<1>3. QED
  BY <1>1, <1>2 DEF WordsAt

TitlesOf(text, s) == {t \in Of(text, {"title"}) : t < s \/ t \in Section(text, s)}

\* What a passage tells of a section that was closed stays told.
LEMMA TellsMore ==
    ASSUME NEW text, NEW line, NEW more, NEW n, OneMore(text, line, more, n),
           NEW s \in Sections(text), IsLast(text, s) => line.kind = "section",
           NEW d
    PROVE  /\ Tells(d, text, s) => Tells(d, more, s)
           /\ Inside(more, s) = Inside(text, s)
<1>1. /\ s \in 1..n /\ more[s] = text[s]
      /\ Section(text, s) \subseteq (s + 1)..n
      /\ Section(more, s) = Section(text, s)
  BY SectionMore
<1>2. /\ Inside(text, s) \subseteq 1..n
      /\ Inside(more, s) = Inside(text, s)
      /\ Opening(more, s) = Opening(text, s)
  <2>1. line.kind = "section" => line.kind \notin Wordy
    BY DEF Wordy
  <2>2. ~(IsLast(text, s) /\ line.kind \in Wordy)
    BY <2>1
  <2>3. /\ Inside(text, s) \subseteq 1..n
        /\ Inside(more, s) = Inside(text, s)
              \cup (IF IsLast(text, s) /\ line.kind \in Wordy THEN {n + 1} ELSE {})
        /\ Opening(more, s) = Opening(text, s)
              \cup (IF IsLast(text, s) /\ line.kind \in Wordy /\ Ended(text, s) THEN {n + 1} ELSE {})
    BY InsideMore
  <2>4. QED
    BY <2>2, <2>3
<1> DEFINE ofTitles == {"title"}
           places == Inside(text, s)
<1>3. n \in Nat /\ Of(text, ofTitles) \subseteq 1..n
      /\ Of(more, ofTitles) = Of(text, ofTitles) \cup (IF line.kind \in ofTitles THEN {n + 1} ELSE {})
  <2> HIDE DEF ofTitles
  <2>1. QED
    BY LineMore
<1>4. TitlesOf(more, s) = TitlesOf(text, s)
  <2>1. ~(n + 1 < s) /\ n + 1 \notin Section(text, s)
    BY <1>1, <1>3
  <2>2. QED
    BY <1>1, <1>3, <2>1 DEF TitlesOf
<1>5. \A t \in TitlesOf(text, s) : more[t] = text[t]
  <2>1. \A i \in 1..n : more[i] = text[i]
    BY LineMore
  <2>2. QED
    BY <1>3, <2>1 DEF TitlesOf
<1>6. TitleOf(text, s, d.title) => TitleOf(more, s, d.title)
  <2>1. /\ TitleOf(text, s, d.title) <=> IF TitlesOf(text, s) = {} THEN d.title = NoWord
                                         ELSE \A t \in TitlesOf(text, s) : d.title = text[t].word
        /\ TitleOf(more, s, d.title) <=> IF TitlesOf(more, s) = {} THEN d.title = NoWord
                                         ELSE \A t \in TitlesOf(more, s) : d.title = more[t].word
    BY DEF TitleOf, TitlesOf
  <2>2. QED
    BY <1>4, <1>5, <2>1
<1>7. WordsAt(more, places) = WordsAt(text, places)
  <2> HIDE DEF places
  <2>1. Among(places, n)
    BY <1>2 DEF places, Among
  <2>2. OneMore(text, line, more, n)
    OBVIOUS
  <2>3. QED
    BY ONLY <2>1, <2>2, WordsMore
<1>8. QED
  BY <1>1, <1>2, <1>6, <1>7 DEF Tells

-----------------------------------------------------------------------------
(* The text of the section being read.                                     *)

BodyRead(text, s, words) ==
    LET g == Gather(words)
    IN  /\ Flat(g.blocks) \o g.current = WordsAt(text, Inside(text, s))
        /\ Len(g.blocks) + (IF g.current = <<>> THEN 0 ELSE 1) = Cardinality(Opening(text, s))
        /\ g.current = <<>> <=> Ended(text, s)

LEMMA OneMoreThan ==
    ASSUME NEW text, NEW line \in Line, text \in Seq(Line)
    PROVE  OneMore(text, line, Append(text, line), Len(text))
BY DEF OneMore

\* Its places, and how many they are.
LEMMA InsidePlaces ==
    ASSUME NEW text, text \in Seq(Line), NEW s \in Sections(text)
    PROVE  /\ IsFiniteSet(Inside(text, s)) /\ IsFiniteSet(Opening(text, s))
           /\ Opening(text, s) \subseteq Inside(text, s)
           /\ WordsAt(text, Inside(text, s)) \in Seq(AllWords)
           /\ Len(WordsAt(text, Inside(text, s))) = Cardinality(Inside(text, s))
<1> DEFINE n == Len(text)
           line == text[s]
           more == Append(text, line)
           places == Inside(text, s)
<1>1. n \in Nat /\ s \in 1..n
  BY LenProperties DEF Sections, Of
<1>2. line \in Line
  BY <1>1, ElementOfSeq
<1>3. OneMore(text, line, more, n)
  BY <1>2, OneMoreThan
<1> HIDE DEF n, line, more
<1>4. places \subseteq 1..n
  BY <1>3, InsideMore
<1>5. Opening(text, s) \subseteq places
  BY DEF Opening
<1> HIDE DEF places
<1>6. IsFiniteSet(places)
  BY <1>1, <1>4, PlacesOfLines
<1>7. IsFiniteSet(Opening(text, s))
  BY ONLY <1>5, <1>6, FS_Subset
<1>8. Among(places, n)
  BY <1>4 DEF Among
<1>9. WordsAt(text, places) \in Seq(AllWords) /\ Len(WordsAt(text, places)) = Cardinality(places)
  BY ONLY <1>3, <1>8, WordsMore
<1>10. QED
  BY <1>5, <1>6, <1>7, <1>9 DEF places

\* Closed, it has the words of its section, in as many paragraphs.
LEMMA ParagraphsTell ==
    ASSUME NEW text, text \in Seq(Line), NEW s \in Sections(text),
           NEW words \in Seq(AllWords), BodyRead(text, s, words)
    PROVE  /\ Paragraphs(words) \in Seq(Seq(AllWords))
           /\ Flat(Paragraphs(words)) = WordsAt(text, Inside(text, s))
           /\ Len(Paragraphs(words)) = Cardinality(Opening(text, s))
           /\ Paragraphs(words) = <<>> <=> Inside(text, s) = {}
<1> DEFINE g == Gather(words)
           b == g.blocks
           c == g.current
           closed == Paragraphs(words)
           told == WordsAt(text, Inside(text, s))
<1>1. b \in Seq(Seq(AllWords)) /\ c \in Seq(AllWords)
  <2>1. g \in Gathered(AllWords)
    BY GatherByLines
  <2> HIDE DEF g
  <2>2. QED
    BY <2>1 DEF Gathered
<1>2. /\ Flat(b) \o c = told
      /\ Len(b) + (IF c = <<>> THEN 0 ELSE 1) = Cardinality(Opening(text, s))
  BY DEF BodyRead
<1>3. closed = IF c = <<>> THEN b ELSE Append(b, c)
  BY DEF Paragraphs
<1>4. /\ IsFiniteSet(Inside(text, s)) /\ IsFiniteSet(Opening(text, s))
      /\ Opening(text, s) \subseteq Inside(text, s)
      /\ told \in Seq(AllWords) /\ Len(told) = Cardinality(Inside(text, s))
  BY InsidePlaces
<1> HIDE DEF b, c, closed, told
<1>5. Flat(b) \in Seq(AllWords)
  BY ONLY <1>1, FlatByBlocks
<1>6. closed \in Seq(Seq(AllWords)) /\ Flat(closed) = told /\ Len(closed) = Cardinality(Opening(text, s))
  <2>1. CASE c = <<>>
    <3>1. Flat(b) \o <<>> = Flat(b)
      BY ONLY <1>5, ConcatEmptySeq
    <3>2. Len(b) \in Nat
      BY ONLY <1>1, LenProperties
    <3>3. QED
      BY <1>1, <1>2, <1>3, <2>1, <3>1, <3>2
  <2>2. CASE c # <<>>
    <3>1. Append(b, c) \in Seq(Seq(AllWords)) /\ Len(Append(b, c)) = Len(b) + 1
      BY ONLY <1>1, AppendProperties
    <3>2. Flat(Append(b, c)) = Flat(b) \o c
      BY ONLY <1>1, FlatMore
    <3>3. QED
      BY <1>2, <1>3, <2>2, <3>1, <3>2
  <2>3. QED
    BY <2>1, <2>2
<1>7. ASSUME closed = <<>> PROVE Inside(text, s) = {}
  <2>1. Flat(<<>>) = <<>>
    BY ONLY <1>1, FlatMore
  <2>2. Cardinality(Inside(text, s)) = 0
    BY <1>4, <1>6, <1>7, <2>1, EmptySeq
  <2>3. QED
    BY ONLY <1>4, <2>2, FS_EmptySet
<1>8. ASSUME Inside(text, s) = {} PROVE closed = <<>>
  <2>1. Opening(text, s) = {}
    BY <1>4, <1>8
  <2>2. Cardinality(Opening(text, s)) = 0
    BY ONLY <2>1, FS_EmptySet
  <2>3. Len(closed) = 0
    BY <1>6, <2>2
  <2>4. QED
    BY ONLY <1>6, <2>3, EmptySeq
<1>9. QED
  BY <1>6, <1>7, <1>8 DEF closed, told

LEMMA BodyBegins ==
    ASSUME NEW text, NEW line, NEW more, NEW n, OneMore(text, line, more, n),
           line.kind = "section"
    PROVE  BodyRead(more, n + 1, <<>>)
<1>1. n \in Nat /\ Len(more) = n + 1
  BY LineMore
<1>2. Section(more, n + 1) = {}
  BY <1>1 DEF Section
<1>3. Inside(more, n + 1) = {} /\ Opening(more, n + 1) = {}
  BY <1>2 DEF Inside, Opening
<1>4. Ended(more, n + 1)
  BY <1>3 DEF Ended
<1>5. <<>> \in Seq(AllWords) /\ <<>> \in Seq(Seq(AllWords))
  OBVIOUS
<1>6. Gather(<<>>) = NoneGathered
  <2>1. NoWord \in AllWords
    BY DEF AllWords
  <2>2. QED
    BY ONLY <1>5, <2>1, GatherMore
<1>7. Flat(<<>>) \o <<>> = <<>>
  <2>1. Flat(<<>>) = <<>>
    BY ONLY <1>5, FlatMore
  <2>2. QED
    BY ONLY <1>5, <2>1, ConcatEmptySeq
<1>8. WordsAt(more, {}) = <<>> /\ Cardinality({}) = 0 /\ Len(<<>>) = 0
  BY NoWordsAt, FS_EmptySet
<1> DEFINE b == Gather(<<>>).blocks
           c == Gather(<<>>).current
<1>9. b = <<>> /\ c = <<>>
  BY <1>6 DEF NoneGathered
<1> HIDE DEF b, c
<1>10. /\ Flat(b) \o c = WordsAt(more, Inside(more, n + 1))
       /\ Len(b) + (IF c = <<>> THEN 0 ELSE 1) = Cardinality(Opening(more, n + 1))
       /\ c = <<>> <=> Ended(more, n + 1)
  <2>1. Flat(b) \o c = WordsAt(more, Inside(more, n + 1))
    BY <1>3, <1>7, <1>8, <1>9
  <2>2. Len(b) + (IF c = <<>> THEN 0 ELSE 1) = Cardinality(Opening(more, n + 1))
    BY <1>3, <1>8, <1>9
  <2>3. QED
    BY <1>4, <1>9, <2>1, <2>2
<1>11. QED
  BY <1>10 DEF BodyRead, b, c

\* A line more of its text is read.
LEMMA BodyMore ==
    ASSUME NEW text, NEW line, NEW more, NEW n, OneMore(text, line, more, n),
           NEW s \in Sections(text), IsLast(text, s),
           NEW words \in Seq(AllWords), BodyRead(text, s, words)
    PROVE  /\ line.kind = "title" => BodyRead(more, s, words)
           /\ line.kind \in {"text", "deeper", "blank"} => BodyRead(more, s, Append(words, line.word))
<1> DEFINE g == Gather(words)
           b == g.blocks
           c == g.current
           h == Gather(Append(words, line.word))
           inside == Inside(text, s)
           opening == Opening(text, s)
<1>1. b \in Seq(Seq(AllWords)) /\ c \in Seq(AllWords)
  <2>1. g \in Gathered(AllWords)
    BY GatherByLines
  <2> HIDE DEF g
  <2>2. QED
    BY <2>1 DEF Gathered
<1>2. /\ Flat(b) \o c = WordsAt(text, inside)
      /\ Len(b) + (IF c = <<>> THEN 0 ELSE 1) = Cardinality(opening)
      /\ c = <<>> <=> Ended(text, s)
  BY DEF BodyRead
<1>3. /\ inside \subseteq 1..n
      /\ Inside(more, s) = inside \cup (IF line.kind \in Wordy THEN {n + 1} ELSE {})
      /\ Opening(more, s) = opening \cup (IF line.kind \in Wordy /\ Ended(text, s) THEN {n + 1} ELSE {})
      /\ Ended(more, s) <=> line.kind = "blank" \/ (line.kind \notin Wordy /\ Ended(text, s))
  BY InsideMore
<1>4. opening \subseteq 1..n
  BY <1>3 DEF Opening
<1>5. n \in Nat
  BY LineMore
<1>6. /\ line.kind = "blank" => line.word = NoWord
      /\ line.kind # "blank" => line.word # NoWord
      /\ line.word \in AllWords
  <2>1. line \in Line
    BY DEF OneMore
  <2>2. QED
    BY <2>1, KindsOfLines DEF AllWords
<1>7. h = GatherLine(g, line.word)
  BY <1>6, GatherMore
<1>8. /\ WordsAt(more, inside) = WordsAt(text, inside)
      /\ OneWordMore(text, line, more, n, inside)
  <2>1. Among(inside, n)
    BY <1>3 DEF Among
  <2> HIDE DEF inside
  <2>2. OneMore(text, line, more, n)
    OBVIOUS
  <2>3. QED
    BY ONLY <2>1, <2>2, WordsMore
<1> HIDE DEF b, c, h, inside, opening
<1>9. ASSUME line.kind \notin Wordy
      PROVE  /\ Inside(more, s) = inside /\ Opening(more, s) = opening
             /\ WordsAt(more, Inside(more, s)) = WordsAt(text, inside)
  <2>1. Inside(more, s) = inside /\ Opening(more, s) = opening
    BY <1>3, <1>9
  <2>2. QED
    BY <1>8, <2>1
<1>10. CASE line.kind = "title"
  <2>1. line.kind \notin Wordy /\ line.kind # "blank"
    BY <1>10 DEF Wordy
  <2>2. QED
    BY <1>2, <1>3, <1>9, <1>10, <2>1 DEF BodyRead, b, c
<1>11. CASE line.kind = "blank"
  <2>1. line.kind \notin Wordy
    BY <1>11 DEF Wordy
  <2>2. CASE c = <<>>
    <3>1. h = g
      BY <1>6, <1>7, <1>11, <2>2 DEF GatherLine, c
    <3>2. QED
      BY <1>2, <1>3, <1>9, <1>11, <2>1, <2>2, <3>1 DEF BodyRead, b, c, h
  <2>3. CASE c # <<>>
    <3>1. h.blocks = Append(b, c) /\ h.current = <<>>
      BY <1>6, <1>7, <1>11, <2>3 DEF GatherLine, b, c
    <3>2. Append(b, c) \in Seq(Seq(AllWords)) /\ Len(Append(b, c)) = Len(b) + 1 /\ Len(b) \in Nat
      BY ONLY <1>1, AppendProperties, LenProperties
    <3>3. Flat(Append(b, c)) = Flat(b) \o c
      BY ONLY <1>1, FlatMore
    <3>4. Flat(Append(b, c)) \in Seq(AllWords)
      BY ONLY <3>2, FlatByBlocks
    <3>5. Flat(Append(b, c)) \o <<>> = Flat(b) \o c
      BY ONLY <3>3, <3>4, ConcatEmptySeq
    <3>6. /\ Flat(h.blocks) \o h.current = WordsAt(more, Inside(more, s))
          /\ Len(h.blocks) + (IF h.current = <<>> THEN 0 ELSE 1) = Cardinality(Opening(more, s))
          /\ h.current = <<>> <=> Ended(more, s)
      BY <1>2, <1>3, <1>9, <1>11, <2>1, <2>3, <3>1, <3>2, <3>5
    <3>7. QED
      BY <3>6, <1>11 DEF BodyRead, h
  <2>4. QED
    BY <2>2, <2>3
<1>12. CASE line.kind \in Wordy
  <2>1. line.kind # "blank" /\ line.kind # "title"
    BY <1>12 DEF Wordy
  <2>2. h.blocks = b /\ h.current = Append(c, line.word)
    BY <1>6, <1>7, <2>1 DEF GatherLine, b, c
  <2>3. Append(c, line.word) # <<>>
    <3>1. Len(Append(c, line.word)) = Len(c) + 1 /\ Len(c) \in Nat
      BY ONLY <1>1, <1>6, AppendProperties, LenProperties
    <3>2. QED
      BY <3>1, EmptySeq
  <2>4. Flat(b) \o Append(c, line.word) = Append(Flat(b) \o c, line.word)
    <3> DEFINE flat == Flat(b)
               word == line.word
    <3>1. flat \in Seq(AllWords) /\ word \in AllWords
      BY <1>1, <1>6, FlatByBlocks
    <3> HIDE DEF flat, word
    <3>2. <<word>> \in Seq(AllWords)
      BY <3>1
    <3>3. Append(c, word) = c \o <<word>>
      BY ONLY <1>1, <3>1, AppendIsConcat
    <3>4. flat \o c \in Seq(AllWords)
      BY ONLY <1>1, <3>1, ConcatProperties
    <3>5. Append(flat \o c, word) = (flat \o c) \o <<word>>
      BY ONLY <3>1, <3>4, AppendIsConcat
    <3>6. (flat \o c) \o <<word>> = flat \o (c \o <<word>>)
      BY ONLY <1>1, <3>1, <3>2, ConcatAssociative
    <3>7. QED
      BY <3>3, <3>5, <3>6 DEF flat, word
  <2>5. Inside(more, s) = inside \cup {n + 1}
    BY <1>3, <1>12
  <2>6. WordsAt(more, Inside(more, s)) = Append(WordsAt(text, inside), line.word)
    BY <1>8, <2>5 DEF OneWordMore
  <2>7. Len(b) + 1 = Cardinality(Opening(more, s))
    <3>1. Len(b) \in Nat
      BY ONLY <1>1, LenProperties
    <3>2. CASE Ended(text, s)
      <4>1. Opening(more, s) = opening \cup {n + 1}
        BY <1>3, <1>12, <3>2
      <4>2. Cardinality(opening \cup {n + 1}) = Cardinality(opening) + 1
        BY <1>4, <1>5, PlacesOfLines
      <4>3. QED
        BY <1>2, <3>1, <3>2, <4>1, <4>2
    <3>3. CASE ~Ended(text, s)
      <4>1. Opening(more, s) = opening
        BY <1>3, <3>3
      <4>2. QED
        BY <1>2, <3>1, <3>3, <4>1
    <3>4. QED
      BY <3>2, <3>3
  <2>8. ~Ended(more, s)
    BY <1>3, <1>12, <2>1
  <2>9. /\ Flat(h.blocks) \o h.current = WordsAt(more, Inside(more, s))
        /\ Len(h.blocks) + (IF h.current = <<>> THEN 0 ELSE 1) = Cardinality(Opening(more, s))
        /\ h.current = <<>> <=> Ended(more, s)
    BY <1>2, <2>2, <2>3, <2>4, <2>6, <2>7, <2>8
  <2>10. QED
    BY <2>1, <2>9 DEF BodyRead, h
<1>13. QED
  BY <1>10, <1>11, <1>12 DEF Wordy

-----------------------------------------------------------------------------
(* The file being read.                                                    *)

Passages ==
    [chunk : Nat \X Nat, title : AllWords, heading : AllWords, text : Seq(Seq(AllWords))]

TitleRead(text, called) ==
    IF called = NoWord THEN Of(text, {"title"}) = {}
    ELSE \E t \in Of(text, {"title"}) : Of(text, {"title"}) = {t} /\ text[t].word = called

TextIsUnder(text) == \A i \in Of(text, {"text"}) : \E s \in Sections(text) : s < i

\* Its open section, if there is one.
OpenRead(text, under, words, told) ==
    IF under = NoWord THEN Sections(text) = {} /\ told = <<>>
    ELSE \E s \in Sections(text) :
            /\ IsLast(text, s) /\ text[s].word = under
            /\ Len(told) + 1 = Cardinality(Sections(text))
            /\ BodyRead(text, s, words)

\* A section that is told is not empty, and its passage tells it.
Told(text, told, s) == Inside(text, s) # {} /\ Tells(told[Number(text, s)], text, s)

ClosedRead(text, told) == \A s \in Sections(text) : ~IsLast(text, s) => Told(text, told, s)

ChunksOf(f, told) == \A k \in 1..Len(told) : told[k].chunk = <<f, k>>

FileRead(f, text, called, under, words, told) ==
    /\ text \in Seq(Line) /\ called \in AllWords /\ under \in AllWords
    /\ words \in Seq(AllWords) /\ told \in Seq(Passages)
    /\ TitleRead(text, called)
    /\ TextIsUnder(text)
    /\ OpenRead(text, under, words, told)
    /\ ClosedRead(text, told)
    /\ ChunksOf(f, told)

LEMMA NothingRead == ASSUME NEW f PROVE FileRead(f, <<>>, NoWord, NoWord, <<>>, <<>>)
<1>1. /\ <<>> \in Seq(Line) /\ <<>> \in Seq(AllWords) /\ <<>> \in Seq(Passages)
      /\ NoWord \in AllWords /\ 1..Len(<<>>) = {}
  BY DEF AllWords
<1>2. \A kinds : Of(<<>>, kinds) = {}
  BY <1>1 DEF Of
<1>3. Sections(<<>>) = {}
  BY <1>2 DEF Sections
<1>4. Of(<<>>, {"title"}) = {} /\ Of(<<>>, {"text"}) = {}
  BY <1>1 DEF Of
<1>5. TitleRead(<<>>, NoWord) /\ TextIsUnder(<<>>)
  BY <1>4 DEF TitleRead, TextIsUnder
<1>6. OpenRead(<<>>, NoWord, <<>>, <<>>) /\ ClosedRead(<<>>, <<>>)
  BY <1>3 DEF OpenRead, ClosedRead
<1>7. ChunksOf(f, <<>>)
  BY <1>1 DEF ChunksOf
<1>8. QED
  BY <1>1, <1>5, <1>6, <1>7 DEF FileRead

\* close().
Closing(f, called, under, words, told) ==
    IF under = NoWord THEN told
    ELSE Append(told, [chunk |-> <<f, Len(told) + 1>>, title |-> called, heading |-> under,
                       text |-> Paragraphs(words)])

HasNoText(under, words) == under # NoWord /\ Paragraphs(words) = <<>>

\* A file's passages, every section closed.
AllTold(f, text, told) ==
    /\ told \in Seq(Passages)
    /\ Len(told) = Cardinality(Sections(text))
    /\ \A s \in Sections(text) : Told(text, told, s)
    /\ ChunksOf(f, told)

LEMMA SectionsNumbered ==
    ASSUME NEW text, text \in Seq(Line), NEW s \in Sections(text)
    PROVE  /\ IsFiniteSet(Sections(text)) /\ Cardinality(Sections(text)) \in Nat
           /\ Number(text, s) \in 1..Cardinality(Sections(text))
           /\ IsLast(text, s) => Number(text, s) = Cardinality(Sections(text))
           /\ \A x \in Sections(text) : s < x => Number(text, s) < Number(text, x)
           /\ \A k \in 1..Cardinality(Sections(text)) : \E x \in Sections(text) : Number(text, x) = k
<1> DEFINE n == Len(text)
           line == text[s]
           more == Append(text, line)
<1>1. n \in Nat /\ s \in 1..n /\ Sections(text) \subseteq 1..n
  BY LenProperties DEF Sections, Of
<1>2. line \in Line
  BY <1>1, ElementOfSeq
<1>3. OneMore(text, line, more, n)
  BY <1>2, OneMoreThan
<1> HIDE DEF n, line, more
<1>4. IsFiniteSet(Sections(text))
  BY <1>1, PlacesOfLines
<1>5. QED
  BY <1>3, <1>4, NumbersOfSections

\* The words of a passage closed are those of its section.
LEMMA DocumentTells ==
    ASSUME NEW f, NEW text, NEW called, NEW under, NEW words, NEW told,
           FileRead(f, text, called, under, words, told),
           NEW s \in Sections(text), IsLast(text, s), text[s].word = under, BodyRead(text, s, words),
           NEW d, d = [chunk |-> <<f, Len(told) + 1>>, title |-> called, heading |-> under,
                       text |-> Paragraphs(words)]
    PROVE  Tells(d, text, s)
<1>1. d.heading = under /\ d.title = called /\ d.text = Paragraphs(words)
  OBVIOUS
<1>2. text \in Seq(Line) /\ words \in Seq(AllWords) /\ TitleRead(text, called)
  BY DEF FileRead
<1>3. /\ Flat(Paragraphs(words)) = WordsAt(text, Inside(text, s))
      /\ Len(Paragraphs(words)) = Cardinality(Opening(text, s))
  BY <1>2, ParagraphsTell
<1> DEFINE titles == Of(text, {"title"})
           n == Len(text)
<1>4. n \in Nat /\ s \in 1..n /\ text[s].kind = "section"
  BY <1>2, LenProperties DEF Sections, Of
<1>5. titles \subseteq TitlesOf(text, s)
  <2> SUFFICES ASSUME NEW t \in titles PROVE t < s \/ t \in Section(text, s)
    BY DEF TitlesOf
  <2>1. t \in 1..n /\ text[t].kind = "title"
    BY DEF Of
  <2>2. CASE ~(t < s)
    <3>1. t \in (s + 1)..n
      BY <1>4, <2>1, <2>2
    <3>2. ASSUME NEW k \in (s + 1)..t PROVE text[k].kind # "section"
      <4>1. k \in 1..n /\ ~(k <= s)
        BY <1>4, <2>1, <3>1
      <4>2. QED
        BY <4>1 DEF IsLast, Sections, Of
    <3>3. QED
      BY <3>1, <3>2 DEF Section
  <2>3. QED
    BY <2>2
<1>6. TitlesOf(text, s) = titles
  BY <1>5 DEF TitlesOf
<1>7. IF titles = {} THEN called = NoWord ELSE \A t \in titles : called = text[t].word
  <2> HIDE DEF titles
  <2>1. IF called = NoWord THEN titles = {} ELSE \E t \in titles : titles = {t} /\ text[t].word = called
    BY <1>2 DEF TitleRead, titles
  <2>2. QED
    BY <2>1
<1>8. TitleOf(text, s, d.title)
  BY <1>1, <1>6, <1>7 DEF TitleOf, TitlesOf
<1>9. QED
  BY <1>1, <1>3, <1>8 DEF Tells

LEMMA ClosingTells ==
    ASSUME NEW f \in Nat, NEW text, NEW called, NEW under, NEW words, NEW told,
           FileRead(f, text, called, under, words, told)
    PROVE  /\ HasNoText(under, words) => \E s \in Sections(text) : Inside(text, s) = {}
           /\ ~HasNoText(under, words) => AllTold(f, text, Closing(f, called, under, words, told))
<1> DEFINE closed == Closing(f, called, under, words, told)
           d == [chunk |-> <<f, Len(told) + 1>>, title |-> called, heading |-> under,
                 text |-> Paragraphs(words)]
<1>1. /\ text \in Seq(Line) /\ called \in AllWords /\ under \in AllWords
      /\ words \in Seq(AllWords) /\ told \in Seq(Passages)
      /\ OpenRead(text, under, words, told)
      /\ ClosedRead(text, told)
      /\ ChunksOf(f, told)
  BY DEF FileRead
<1>2. CASE under = NoWord
  <2>1. Sections(text) = {} /\ told = <<>> /\ closed = told
    BY <1>1, <1>2 DEF OpenRead, Closing
  <2>2. Len(told) = Cardinality(Sections(text))
    BY <2>1, FS_EmptySet
  <2>3. ~HasNoText(under, words) /\ AllTold(f, text, closed)
    BY <1>1, <1>2, <2>1, <2>2 DEF HasNoText, AllTold
  <2>4. QED
    BY <2>3
<1>3. CASE under # NoWord
  <2>1. PICK s \in Sections(text) :
           /\ IsLast(text, s) /\ text[s].word = under
           /\ Len(told) + 1 = Cardinality(Sections(text))
           /\ BodyRead(text, s, words)
    BY <1>1, <1>3 DEF OpenRead
  <2>2. /\ Paragraphs(words) \in Seq(Seq(AllWords))
        /\ Paragraphs(words) = <<>> <=> Inside(text, s) = {}
    BY <1>1, <2>1, ParagraphsTell
  <2>3. Tells(d, text, s)
    <3> HIDE DEF d
    <3>1. d = [chunk |-> <<f, Len(told) + 1>>, title |-> called, heading |-> under,
               text |-> Paragraphs(words)]
      BY DEF d
    <3>2. QED
      BY ONLY FileRead(f, text, called, under, words, told), s \in Sections(text),
              <2>1, <3>1, DocumentTells
  <2>4. closed = Append(told, d)
    BY <1>3 DEF Closing
  <2>5. Len(told) \in Nat
    BY <1>1, LenProperties
  <2>6. d \in Passages /\ d.chunk = <<f, Len(told) + 1>>
    BY <1>1, <2>2, <2>5 DEF Passages
  <2> HIDE DEF d, closed
  <2>7. /\ closed \in Seq(Passages) /\ Len(closed) = Len(told) + 1
        /\ \A k \in 1..Len(told) : closed[k] = told[k]
        /\ closed[Len(told) + 1] = d
    BY ONLY <1>1, <2>4, <2>6, AppendProperties
  <2>8. HasNoText(under, words) => Inside(text, s) = {}
    BY <2>2 DEF HasNoText
  <2>9. ASSUME ~HasNoText(under, words), NEW x \in Sections(text)
        PROVE  Told(text, closed, x)
    <3>1. /\ Number(text, x) \in 1..(Len(told) + 1)
          /\ IsLast(text, x) => Number(text, x) = Len(told) + 1
          /\ \A y \in Sections(text) : x < y => Number(text, x) < Number(text, y)
      BY <1>1, <2>1, <2>9, SectionsNumbered
    <3>2. CASE x = s
      <4>1. closed[Number(text, x)] = d
        BY <2>1, <2>7, <3>1, <3>2
      <4>2. Inside(text, s) # {}
        BY <1>3, <2>2, <2>9 DEF HasNoText
      <4>3. QED
        BY <2>3, <3>2, <4>1, <4>2 DEF Told
    <3>3. CASE x # s
      <4>1. x \in Nat /\ s \in Nat
        BY <1>1, LenProperties DEF Sections, Of
      <4>2. x < s
        BY <2>1, <3>3, <4>1 DEF IsLast
      <4>3. ~(s <= x)
        BY <4>1, <4>2
      <4>4. ~IsLast(text, x)
        BY <4>3 DEF IsLast
      <4>5. Number(text, s) = Len(told) + 1
        BY <1>1, <2>1, SectionsNumbered
      <4>6. Number(text, x) \in 1..Len(told)
        BY <2>5, <3>1, <4>2, <4>5
      <4>7. Told(text, told, x)
        BY <1>1, <4>4 DEF ClosedRead
      <4>8. QED
        BY <2>7, <4>6, <4>7 DEF Told
    <3>4. QED
      BY <3>2, <3>3
  <2>10. ChunksOf(f, closed)
    <3> SUFFICES ASSUME NEW k \in 1..Len(closed) PROVE closed[k].chunk = <<f, k>>
      BY DEF ChunksOf
    <3>1. CASE k = Len(told) + 1
      BY <2>6, <2>7, <3>1
    <3>2. CASE k # Len(told) + 1
      <4>1. k \in 1..Len(told)
        BY <2>5, <2>7, <3>2
      <4>2. QED
        BY <1>1, <2>7, <4>1 DEF ChunksOf
    <3>3. QED
      BY <3>1, <3>2
  <2>11. ~HasNoText(under, words) => AllTold(f, text, closed)
    BY <2>1, <2>7, <2>9, <2>10 DEF AllTold
  <2>12. QED
    BY <2>8, <2>11 DEF closed
<1>4. QED
  BY <1>2, <1>3

LEMMA ToldMore ==
    ASSUME NEW text, NEW line, NEW more, NEW n, OneMore(text, line, more, n),
           NEW s \in Sections(text), IsLast(text, s) => line.kind = "section",
           NEW told, Told(text, told, s)
    PROVE  Told(more, told, s)
<1>1. Number(more, s) = Number(text, s)
  BY NumbersOfSections
<1> DEFINE d == told[Number(text, s)]
<1>2. Inside(text, s) # {} /\ Tells(d, text, s)
  BY DEF Told
<1> HIDE DEF d
<1>3. Inside(more, s) = Inside(text, s) /\ Tells(d, more, s)
  BY <1>2, TellsMore
<1>4. QED
  BY <1>1, <1>2, <1>3 DEF Told, d

\* What a file is refused for at a line of it.
Refused(line, called, under, words) ==
    \/ line.kind = "title" /\ called # NoWord
    \/ line.kind = "text" /\ under = NoWord
    \/ line.kind = "section" /\ HasNoText(under, words)

LEMMA RefusedIsIllFormed ==
    ASSUME NEW text, NEW line, NEW more, NEW n, OneMore(text, line, more, n),
           NEW f \in Nat, NEW called, NEW under, NEW words, NEW told,
           FileRead(f, text, called, under, words, told),
           Refused(line, called, under, words)
    PROVE  ~WellFormed(more)
<1> DEFINE ofTitles == {"title"}
           ofTexts == {"text"}
<1>1. /\ n \in Nat
      /\ Of(text, ofTitles) \subseteq 1..n
      /\ Of(more, ofTitles) = Of(text, ofTitles) \cup (IF line.kind \in ofTitles THEN {n + 1} ELSE {})
      /\ Of(more, ofTexts) = Of(text, ofTexts) \cup (IF line.kind \in ofTexts THEN {n + 1} ELSE {})
  <2> HIDE DEF ofTitles, ofTexts
  <2>1. QED
    BY LineMore
<1>2. CASE line.kind = "title" /\ called # NoWord
  <2>1. Of(text, ofTitles) # {} /\ Of(more, ofTitles) = Of(text, ofTitles) \cup {n + 1}
    <3>1. TitleRead(text, called)
      BY DEF FileRead
    <3>2. Of(text, ofTitles) # {}
      BY <1>2, <3>1 DEF TitleRead
    <3>3. QED
      BY <1>1, <1>2, <3>2
  <2> HIDE DEF ofTitles
  <2>2. /\ IsFiniteSet(Of(text, ofTitles)) /\ Cardinality(Of(text, ofTitles)) \in Nat
        /\ Cardinality(Of(more, ofTitles)) = Cardinality(Of(text, ofTitles)) + 1
    <3> DEFINE titles == Of(text, ofTitles)
    <3>1. n \in Nat /\ titles \subseteq 1..n
      BY <1>1
    <3> HIDE DEF titles
    <3>2. /\ IsFiniteSet(titles) /\ Cardinality(titles) \in Nat
          /\ Cardinality(titles \cup {n + 1}) = Cardinality(titles) + 1
      BY ONLY <3>1, PlacesOfLines
    <3>3. QED
      BY <2>1, <3>2 DEF titles
  <2>3. Cardinality(Of(text, ofTitles)) # 0
    BY ONLY <2>1, <2>2, FS_EmptySet
  <2>4. Cardinality(Of(more, ofTitles)) # 1
    BY <2>2, <2>3
  <2>5. QED
    BY <2>4 DEF WellFormed, ofTitles
<1>3. CASE line.kind = "text" /\ under = NoWord
  <2>1. Sections(text) = {} /\ n + 1 \in Of(more, ofTexts)
    BY <1>1, <1>3 DEF FileRead, OpenRead
  <2>2. Sections(more) = {}
    BY <1>3, <2>1, NumbersOfSections
  <2>3. QED
    BY <2>1, <2>2 DEF WellFormed
<1>4. CASE line.kind = "section" /\ HasNoText(under, words)
  <2>1. PICK s \in Sections(text) : Inside(text, s) = {}
    BY <1>4, ClosingTells
  <2>2. Inside(more, s) = {}
    BY <1>4, <2>1, TellsMore
  <2>3. s \in Sections(more)
    BY <1>4, NumbersOfSections
  <2>4. QED
    BY <2>2, <2>3 DEF WellFormed
<1>5. QED
  BY <1>2, <1>3, <1>4 DEF Refused

LEMMA TextIsUnderMore ==
    ASSUME NEW text, NEW line, NEW more, NEW n, OneMore(text, line, more, n),
           TextIsUnder(text), line.kind = "text" => Sections(text) # {}
    PROVE  TextIsUnder(more)
<1> DEFINE ofTexts == {"text"}
<1>1. /\ n \in Nat
      /\ Of(more, ofTexts) = Of(text, ofTexts) \cup (IF line.kind \in ofTexts THEN {n + 1} ELSE {})
  <2> HIDE DEF ofTexts
  <2>1. QED
    BY LineMore
<1>2. \A s \in Sections(text) : s \in Sections(more) /\ s \in 1..n
  BY SectionMore
<1> SUFFICES ASSUME NEW i \in Of(more, ofTexts) PROVE \E s \in Sections(more) : s < i
  BY DEF TextIsUnder
<1>3. CASE i \in Of(text, ofTexts)
  BY <1>2, <1>3 DEF TextIsUnder
<1>4. CASE i \notin Of(text, ofTexts)
  <2>1. i = n + 1 /\ line.kind = "text"
    BY <1>1, <1>4
  <2>2. PICK s \in Sections(text) : TRUE
    BY <2>1
  <2>3. s < i
    BY <1>1, <1>2, <2>1, <2>2
  <2>4. QED
    BY <1>2, <2>3
<1>5. QED
  BY <1>3, <1>4

LEMMA TitleReadMore ==
    ASSUME NEW text, NEW line, NEW more, NEW n, OneMore(text, line, more, n),
           NEW called, TitleRead(text, called), line.kind = "title" => called = NoWord
    PROVE  TitleRead(more, IF line.kind = "title" THEN line.word ELSE called)
<1> DEFINE titles == Of(text, {"title"})
           now == Of(more, {"title"})
           ofTitles == {"title"}
<1>1. /\ \A i \in 1..n : more[i] = text[i]
      /\ more[n + 1] = line
      /\ Of(text, ofTitles) \subseteq 1..n
      /\ Of(more, ofTitles) = Of(text, ofTitles) \cup (IF line.kind \in ofTitles THEN {n + 1} ELSE {})
  <2> HIDE DEF ofTitles
  <2>1. QED
    BY LineMore
<1>2. titles \subseteq 1..n /\ now = titles \cup (IF line.kind = "title" THEN {n + 1} ELSE {})
  BY <1>1
<1>3. IF called = NoWord THEN titles = {} ELSE \E t \in titles : titles = {t} /\ text[t].word = called
  BY DEF TitleRead
<1> HIDE DEF titles, now
<1>4. CASE line.kind = "title"
  <2>1. line.word # NoWord
    BY <1>4, KindsOfLines DEF OneMore
  <2>2. now = {n + 1}
    BY <1>2, <1>3, <1>4
  <2>3. QED
    BY <1>1, <1>4, <2>1, <2>2 DEF TitleRead, now
<1>5. CASE line.kind # "title"
  <2>1. now = titles
    BY <1>2, <1>5
  <2>2. IF called = NoWord THEN now = {} ELSE \E t \in now : now = {t} /\ more[t].word = called
    BY <1>1, <1>2, <1>3, <2>1
  <2>3. QED
    BY <1>5, <2>2 DEF TitleRead, now
<1>6. QED
  BY <1>4, <1>5

\* A line that is no section's heading.
LEMMA LineIsRead ==
    ASSUME NEW text, NEW line, NEW more, NEW n, OneMore(text, line, more, n),
           NEW f \in Nat, NEW called, NEW under, NEW words, NEW told,
           FileRead(f, text, called, under, words, told),
           line.kind # "section", ~Refused(line, called, under, words)
    PROVE  FileRead(f, more, IF line.kind = "title" THEN line.word ELSE called, under,
                    IF line.kind = "title" THEN words ELSE Append(words, line.word), told)
<1> DEFINE calledNow == IF line.kind = "title" THEN line.word ELSE called
           wordsNow == IF line.kind = "title" THEN words ELSE Append(words, line.word)
<1>1. /\ text \in Seq(Line) /\ called \in AllWords /\ under \in AllWords
      /\ words \in Seq(AllWords) /\ told \in Seq(Passages)
      /\ TitleRead(text, called) /\ TextIsUnder(text)
      /\ OpenRead(text, under, words, told)
      /\ ClosedRead(text, told)
      /\ ChunksOf(f, told)
  BY DEF FileRead
<1>2. /\ line.kind = "title" => called = NoWord
      /\ line.kind = "text" => under # NoWord
  BY DEF Refused
<1>3. /\ line.kind \in {"title", "section", "deeper", "text", "blank"} /\ line.word \in AllWords
  BY KindsOfLines DEF OneMore, AllWords
<1>4. more \in Seq(Line)
  BY LineMore
<1>5. calledNow \in AllWords
  BY <1>1, <1>3
<1>6. wordsNow \in Seq(AllWords)
  BY <1>1, <1>3, AppendProperties
<1>7. TitleRead(more, calledNow)
  BY <1>1, <1>2, TitleReadMore
<1>8. Sections(more) = Sections(text)
  BY NumbersOfSections
<1>9. TextIsUnder(more)
  <2>1. line.kind = "text" => Sections(text) # {}
    BY <1>1, <1>2 DEF OpenRead
  <2>2. QED
    BY <1>1, <2>1, TextIsUnderMore
<1>10. \A s \in Sections(text) : (IsLast(more, s) <=> IsLast(text, s)) /\ more[s] = text[s]
  BY SectionMore
<1>11. ClosedRead(more, told)
  <2> SUFFICES ASSUME NEW s \in Sections(text), ~IsLast(text, s) PROVE Told(more, told, s)
    BY <1>8, <1>10 DEF ClosedRead
  <2>1. Told(text, told, s)
    BY <1>1 DEF ClosedRead
  <2>2. QED
    BY <2>1, ToldMore
<1> HIDE DEF calledNow
<1>12. OpenRead(more, under, wordsNow, told)
  <2>1. CASE under = NoWord
    BY <1>1, <1>8, <2>1 DEF OpenRead
  <2>2. CASE under # NoWord
    <3>1. PICK s \in Sections(text) :
             /\ IsLast(text, s) /\ text[s].word = under
             /\ Len(told) + 1 = Cardinality(Sections(text))
             /\ BodyRead(text, s, words)
      BY <1>1, <2>2 DEF OpenRead
    <3>2. /\ line.kind = "title" => BodyRead(more, s, words)
          /\ line.kind \in {"text", "deeper", "blank"} => BodyRead(more, s, Append(words, line.word))
      BY <1>1, <3>1, BodyMore
    <3>3. BodyRead(more, s, wordsNow)
      BY <1>3, <3>2
    <3> HIDE DEF wordsNow
    <3>4. QED
      BY <1>8, <1>10, <2>2, <3>1, <3>3 DEF OpenRead
  <2>3. QED
    BY <2>1, <2>2
<1> HIDE DEF wordsNow
<1>13. FileRead(f, more, calledNow, under, wordsNow, told)
  BY <1>1, <1>4, <1>5, <1>6, <1>7, <1>9, <1>11, <1>12 DEF FileRead
<1>14. QED
  BY <1>13 DEF calledNow, wordsNow

\* A section's heading closes the section before it.
LEMMA SectionIsRead ==
    ASSUME NEW text, NEW line, NEW more, NEW n, OneMore(text, line, more, n),
           NEW f \in Nat, NEW called, NEW under, NEW words, NEW told,
           FileRead(f, text, called, under, words, told),
           line.kind = "section", ~Refused(line, called, under, words)
    PROVE  FileRead(f, more, called, line.word, <<>>, Closing(f, called, under, words, told))
<1> DEFINE closed == Closing(f, called, under, words, told)
           first == <<>>
<1>1. /\ text \in Seq(Line) /\ called \in AllWords
      /\ TitleRead(text, called) /\ TextIsUnder(text)
  BY DEF FileRead
<1>2. AllTold(f, text, closed)
  BY ClosingTells DEF Refused
<1> HIDE DEF closed
<1>3. /\ closed \in Seq(Passages) /\ Len(closed) = Cardinality(Sections(text))
      /\ \A s \in Sections(text) : Told(text, closed, s)
      /\ ChunksOf(f, closed)
  BY <1>2 DEF AllTold
<1>4. line.word \in AllWords /\ line.word # NoWord
  BY KindsOfLines DEF OneMore, AllWords
<1>5. more \in Seq(Line) /\ more[n + 1] = line
  BY LineMore
<1>6. TitleRead(more, called)
  BY <1>1, TitleReadMore
<1>7. TextIsUnder(more)
  BY <1>1, TextIsUnderMore
<1>8. /\ Sections(more) = Sections(text) \cup {n + 1}
      /\ Cardinality(Sections(more)) = Cardinality(Sections(text)) + 1
      /\ IsLast(more, n + 1)
  BY NumbersOfSections
<1>9. ClosedRead(more, closed)
  <2> SUFFICES ASSUME NEW s \in Sections(text) PROVE Told(more, closed, s)
    BY <1>8 DEF ClosedRead
  <2>1. Told(text, closed, s)
    BY <1>3
  <2>2. QED
    BY <2>1, ToldMore
<1>10. BodyRead(more, n + 1, first)
  BY BodyBegins
<1>11. first \in Seq(AllWords)
  OBVIOUS
<1> HIDE DEF first
<1>12. OpenRead(more, line.word, first, closed)
  <2>1. n + 1 \in Sections(more) /\ Len(closed) + 1 = Cardinality(Sections(more))
    BY <1>3, <1>8
  <2>2. QED
    BY <1>4, <1>5, <1>8, <1>10, <2>1 DEF OpenRead
<1>13. FileRead(f, more, called, line.word, first, closed)
  BY <1>1, <1>3, <1>4, <1>5, <1>6, <1>7, <1>9, <1>11, <1>12 DEF FileRead
<1>14. QED
  BY <1>13 DEF first, closed

\* The end of the file closes the last.
LEMMA FileIsRead ==
    ASSUME NEW f \in Nat, NEW text, NEW called, NEW under, NEW words, NEW told,
           FileRead(f, text, called, under, words, told)
    PROVE  LET closed == Closing(f, called, under, words, told)
           IN  IF HasNoText(under, words) \/ called = NoWord \/ closed = <<>>
                 THEN ~WellFormed(text)
                 ELSE WellFormed(text) /\ AllTold(f, text, closed)
<1> DEFINE closed == Closing(f, called, under, words, told)
           titles == Of(text, {"title"})
<1>1. text \in Seq(Line) /\ TitleRead(text, called) /\ TextIsUnder(text)
  BY DEF FileRead
<1>2. /\ HasNoText(under, words) => \E s \in Sections(text) : Inside(text, s) = {}
      /\ ~HasNoText(under, words) => AllTold(f, text, closed)
  BY ClosingTells
<1> HIDE DEF closed
<1>3. IF called = NoWord THEN titles = {} ELSE \E t \in titles : titles = {t}
  BY <1>1 DEF TitleRead
<1> HIDE DEF titles
<1>4. Cardinality(titles) = 1 <=> called # NoWord
  <2>1. CASE called = NoWord
    <3>1. titles = {}
      BY <1>3, <2>1
    <3>2. Cardinality(titles) = 0
      BY ONLY <3>1, FS_EmptySet
    <3>3. QED
      BY <2>1, <3>2
  <2>2. CASE called # NoWord
    <3>1. PICK t : titles = {t}
      BY <1>3, <2>2
    <3>2. Cardinality(titles) = 1
      BY ONLY <3>1, FS_Singleton
    <3>3. QED
      BY <2>2, <3>2
  <2>3. QED
    BY <2>1, <2>2
<1>5. CASE HasNoText(under, words)
  <2>1. ~WellFormed(text)
    BY <1>2, <1>5 DEF WellFormed
  <2>2. QED
    BY <1>5, <2>1
<1>6. CASE called = NoWord
  <2>1. ~WellFormed(text)
    BY <1>4, <1>6 DEF WellFormed, titles
  <2>2. QED
    BY <1>6, <2>1
<1>7. CASE ~HasNoText(under, words) /\ closed = <<>>
  <2>1. Cardinality(Sections(text)) = 0
    BY <1>2, <1>7, EmptySeq DEF AllTold
  <2>2. IsFiniteSet(Sections(text))
    <3>1. Len(text) \in Nat /\ Sections(text) \subseteq 1..Len(text)
      BY <1>1, LenProperties DEF Sections, Of
    <3>2. QED
      BY <3>1, PlacesOfLines
  <2>3. Sections(text) = {}
    BY ONLY <2>1, <2>2, FS_EmptySet
  <2>4. ~WellFormed(text)
    BY <2>3 DEF WellFormed
  <2>5. QED
    BY <1>7, <2>4 DEF closed
<1>8. CASE ~HasNoText(under, words) /\ called # NoWord /\ closed # <<>>
  <2>1. AllTold(f, text, closed)
    BY <1>2, <1>8
  <2>2. Sections(text) # {}
    <3>1. Len(closed) = Cardinality(Sections(text)) /\ Len(closed) \in Nat \ {0}
      BY <1>8, <2>1, EmptySeq DEF AllTold
    <3>2. Cardinality({}) = 0
      BY FS_EmptySet
    <3>3. QED
      BY <3>1, <3>2
  <2>3. \A s \in Sections(text) : Inside(text, s) # {}
    BY <2>1 DEF AllTold, Told
  <2>4. WellFormed(text)
    BY <1>1, <1>4, <1>8, <2>2, <2>3 DEF WellFormed, TextIsUnder, titles
  <2>5. QED
    BY <1>8, <2>1, <2>4 DEF closed
<1>9. QED
  BY <1>5, <1>6, <1>7, <1>8 DEF closed

-----------------------------------------------------------------------------
(* The files read.                                                         *)

ChunkBefore(c, d) == c[1] < d[1] \/ (c[1] = d[1] /\ c[2] < d[2])

\* The first files, and the passages they were read into.
FilesTold(m, files, collected) ==
    /\ collected \in Seq(Passages)
    /\ \A f \in 1..m : WellFormed(files[f])
    /\ \A f \in 1..m : \A s \in Sections(files[f]) :
          \E i \in 1..Len(collected) : collected[i].chunk = <<f, Number(files[f], s)>>
    /\ \A i \in 1..Len(collected) : \E f \in 1..m : \E s \in Sections(files[f]) :
          collected[i].chunk = <<f, Number(files[f], s)>> /\ Tells(collected[i], files[f], s)
    /\ \A i, j \in 1..Len(collected) : i < j => ChunkBefore(collected[i].chunk, collected[j].chunk)

LEMMA FilesToldMore ==
    ASSUME NEW m \in Nat, NEW files, NEW collected, FilesTold(m, files, collected),
           NEW closed, files[m + 1] \in Seq(Line), WellFormed(files[m + 1]),
           AllTold(m + 1, files[m + 1], closed)
    PROVE  FilesTold(m + 1, files, collected \o closed)
<1> DEFINE all == collected \o closed
           l == Len(collected)
           k == Len(closed)
           text == files[m + 1]
<1>1. collected \in Seq(Passages) /\ closed \in Seq(Passages)
  BY DEF FilesTold, AllTold
<1>2. l \in Nat /\ k \in Nat
  BY <1>1, LenProperties
<1>3. /\ all \in Seq(Passages) /\ Len(all) = l + k
      /\ \A i \in 1..(l + k) : all[i] = IF i <= l THEN collected[i] ELSE closed[i - l]
  BY ONLY <1>1, ConcatProperties
<1>4. /\ k = Cardinality(Sections(text))
      /\ \A s \in Sections(text) : Told(text, closed, s)
      /\ \A i \in 1..k : closed[i].chunk = <<m + 1, i>>
  BY DEF AllTold, ChunksOf
<1>5. PICK first \in Sections(text) : TRUE
  BY DEF WellFormed
<1>6. /\ \A s \in Sections(text) : Number(text, s) \in 1..k
      /\ \A i \in 1..k : \E s \in Sections(text) : Number(text, s) = i
  BY <1>4, <1>5, SectionsNumbered
<1>7. /\ \A f \in 1..m : WellFormed(files[f])
      /\ \A f \in 1..m : \A s \in Sections(files[f]) :
            \E i \in 1..l : collected[i].chunk = <<f, Number(files[f], s)>>
      /\ \A i \in 1..l : \E f \in 1..m : \E s \in Sections(files[f]) :
            collected[i].chunk = <<f, Number(files[f], s)>> /\ Tells(collected[i], files[f], s)
      /\ \A i, j \in 1..l : i < j => ChunkBefore(collected[i].chunk, collected[j].chunk)
  BY DEF FilesTold
<1> HIDE DEF all, l, k, text
<1>8. /\ \A i \in 1..l : i \in 1..(l + k) /\ all[i] = collected[i]
      /\ \A i \in 1..k : l + i \in 1..(l + k) /\ all[l + i] = closed[i]
      /\ \A i \in 1..(l + k) : i \in 1..l \/ (i - l \in 1..k /\ all[i] = closed[i - l])
  <2>1. ASSUME NEW i \in 1..l PROVE i \in 1..(l + k) /\ all[i] = collected[i]
    BY <1>2, <1>3
  <2>2. ASSUME NEW i \in 1..k PROVE l + i \in 1..(l + k) /\ all[l + i] = closed[i]
    <3>1. l + i \in 1..(l + k) /\ ~(l + i <= l) /\ (l + i) - l = i
      BY <1>2
    <3>2. QED
      BY <1>3, <3>1
  <2>3. ASSUME NEW i \in 1..(l + k), i \notin 1..l PROVE i - l \in 1..k /\ all[i] = closed[i - l]
    <3>1. i - l \in 1..k /\ ~(i <= l)
      BY <1>2, <2>3
    <3>2. QED
      BY <1>3, <3>1
  <2>4. QED
    BY <2>1, <2>2, <2>3
<1>9. ASSUME NEW f \in 1..(m + 1), f \notin 1..m PROVE f = m + 1
  BY <1>9
<1>10. \A f \in 1..(m + 1) : WellFormed(files[f])
  BY <1>7, <1>9
<1>11. ASSUME NEW f \in 1..(m + 1), NEW s \in Sections(files[f])
       PROVE  \E i \in 1..Len(all) : all[i].chunk = <<f, Number(files[f], s)>>
  <2>1. CASE f \in 1..m
    <3>1. PICK i \in 1..l : collected[i].chunk = <<f, Number(files[f], s)>>
      BY <1>7, <2>1
    <3>2. i \in 1..Len(all) /\ all[i] = collected[i]
      BY <1>3, <1>8, <3>1
    <3>3. QED
      BY <3>1, <3>2
  <2>2. CASE f \notin 1..m
    <3>1. f = m + 1 /\ s \in Sections(text)
      BY <1>9, <2>2 DEF text
    <3>2. Number(text, s) \in 1..k
      BY <1>6, <3>1
    <3>3. all[l + Number(text, s)].chunk = <<f, Number(files[f], s)>>
      BY <1>4, <1>8, <3>1, <3>2 DEF text
    <3>4. QED
      BY <1>3, <1>8, <3>2, <3>3
  <2>3. QED
    BY <2>1, <2>2
<1>12. ASSUME NEW i \in 1..Len(all)
       PROVE  \E f \in 1..(m + 1) : \E s \in Sections(files[f]) :
                 all[i].chunk = <<f, Number(files[f], s)>> /\ Tells(all[i], files[f], s)
  <2>1. CASE i \in 1..l
    <3>1. PICK f \in 1..m : \E s \in Sections(files[f]) :
             collected[i].chunk = <<f, Number(files[f], s)>> /\ Tells(collected[i], files[f], s)
      BY <1>7, <2>1
    <3>2. f \in 1..(m + 1)
      OBVIOUS
    <3>3. QED
      BY <1>8, <2>1, <3>1, <3>2
  <2>2. CASE i \notin 1..l
    <3>1. i - l \in 1..k /\ all[i] = closed[i - l]
      BY <1>3, <1>8, <2>2
    <3>2. PICK s \in Sections(text) : Number(text, s) = i - l
      BY <1>6, <3>1
    <3>3. Tells(closed[i - l], text, s)
      BY <1>4, <3>2 DEF Told
    <3>4. all[i].chunk = <<m + 1, Number(text, s)>>
      BY <1>4, <3>1, <3>2
    <3>5. m + 1 \in 1..(m + 1)
      OBVIOUS
    <3>6. QED
      BY <3>1, <3>3, <3>4, <3>5 DEF text
  <2>3. QED
    BY <2>1, <2>2
<1>13. ASSUME NEW i \in 1..Len(all), NEW j \in 1..Len(all), i < j
       PROVE  ChunkBefore(all[i].chunk, all[j].chunk)
  <2>1. i \in 1..(l + k) /\ j \in 1..(l + k)
    BY <1>3
  <2>2. CASE j \in 1..l
    <3>1. i \in 1..l
      BY <1>2, <1>13, <2>1, <2>2
    <3>2. QED
      BY <1>7, <1>8, <1>13, <2>2, <3>1
  <2>3. CASE j \notin 1..l
    <3>1. j - l \in 1..k /\ all[j].chunk = <<m + 1, j - l>>
      BY <1>4, <1>8, <2>1, <2>3
    <3>2. CASE i \in 1..l
      <4>1. PICK f \in 1..m : \E s \in Sections(files[f]) : collected[i].chunk = <<f, Number(files[f], s)>>
        BY <1>7, <3>2
      <4>2. all[i].chunk[1] = f /\ all[j].chunk[1] = m + 1
        BY <1>8, <3>1, <3>2, <4>1
      <4>3. QED
        BY <4>2 DEF ChunkBefore
    <3>3. CASE i \notin 1..l
      <4>1. i - l \in 1..k /\ all[i].chunk = <<m + 1, i - l>>
        BY <1>4, <1>8, <2>1, <3>3
      <4>2. i - l < j - l
        BY <1>2, <1>13, <2>1
      <4>3. QED
        BY <3>1, <4>1, <4>2 DEF ChunkBefore
    <3>4. QED
      BY <3>2, <3>3
  <2>4. QED
    BY <2>2, <2>3
<1>14. FilesTold(m + 1, files, all)
  BY <1>3, <1>10, <1>11, <1>12, <1>13 DEF FilesTold
<1>15. QED
  BY <1>14 DEF all

LEMMA FilesToldAgree ==
    ASSUME NEW m, NEW files, NEW collected, FilesTold(m, files, collected),
           NEW others, \A f \in 1..m : others[f] = files[f]
    PROVE  FilesTold(m, others, collected)
BY DEF FilesTold

\* The files before the one being read, and that one; or all of them.
CorpusInv ==
    /\ file \in 1..NumFiles
    /\ lines \in [1..NumFiles -> Seq(Line)]
    /\ state \in {"reading", "failed", "loaded", "searched"}
    /\ state = "reading" =>
          /\ FileRead(file, lines[file], title, heading, body, sections)
          /\ \A f \in 1..NumFiles : file < f => lines[f] = <<>>
          /\ FilesTold(file - 1, lines, corpus)
    /\ state = "failed" => \E f \in 1..file : ~WellFormed(lines[f])
    /\ state \in {"loaded", "searched"} => FilesTold(file, lines, corpus)

LEMMA ReadingKeeps ==
    ASSUME CorpusInv, NEW line \in Line, Read(line)
    PROVE  /\ state = "reading" /\ file \in 1..NumFiles /\ file \in Nat
           /\ FileRead(file, lines[file], title, heading, body, sections)
           /\ OneMore(lines[file], line, lines'[file], Len(lines[file]))
           /\ lines' \in [1..NumFiles -> Seq(Line)]
           /\ \A f \in 1..NumFiles : file < f => lines'[f] = <<>>
           /\ FilesTold(file - 1, lines', corpus)
<1>1. /\ state = "reading" /\ file \in 1..NumFiles /\ lines \in [1..NumFiles -> Seq(Line)]
      /\ FileRead(file, lines[file], title, heading, body, sections)
      /\ \A f \in 1..NumFiles : file < f => lines[f] = <<>>
      /\ FilesTold(file - 1, lines, corpus)
      /\ lines' = [lines EXCEPT ![file] = Append(@, line)]
  BY DEF CorpusInv, Read
<1>2. NumFiles \in Nat /\ file \in Nat
  BY <1>1, CorpusAssumption
<1>3. lines[file] \in Seq(Line)
  BY <1>1
<1> DEFINE more == Append(lines[file], line)
<1>4. more \in Seq(Line)
  BY <1>3, AppendProperties
<1>5. OneMore(lines[file], line, more, Len(lines[file]))
  BY <1>3, OneMoreThan
<1>6. lines' = [lines EXCEPT ![file] = more]
  BY <1>1
<1> HIDE DEF more
<1>7. /\ lines' \in [1..NumFiles -> Seq(Line)]
      /\ lines'[file] = more
      /\ \A f \in 1..NumFiles : f # file => lines'[f] = lines[f]
  BY <1>1, <1>4, <1>6
<1>8. \A f \in 1..NumFiles : file < f => lines'[f] = <<>>
  BY <1>1, <1>2, <1>7
<1>9. \A f \in 1..(file - 1) : lines'[f] = lines[f]
  BY <1>1, <1>2, <1>7
<1>10. FilesTold(file - 1, lines', corpus)
  BY <1>1, <1>9, FilesToldAgree
<1>11. QED
  BY <1>1, <1>2, <1>5, <1>7, <1>8, <1>10

LEMMA RefusingKeeps ==
    ASSUME CorpusInv, NEW line \in Line, Read(line), Refused(line, title, heading, body), Fail
    PROVE  CorpusInv'
<1>1. /\ file \in 1..NumFiles /\ file \in Nat
      /\ FileRead(file, lines[file], title, heading, body, sections)
      /\ OneMore(lines[file], line, lines'[file], Len(lines[file]))
      /\ lines' \in [1..NumFiles -> Seq(Line)]
  BY ReadingKeeps
<1>2. ~WellFormed(lines'[file])
  BY <1>1, RefusedIsIllFormed
<1>3. state' = "failed" /\ file' = file
  BY DEF Fail
<1>4. file \in 1..file
  BY <1>1
<1>5. QED
  BY <1>1, <1>2, <1>3, <1>4 DEF CorpusInv

LEMMA ReadKeeps ==
    ASSUME CorpusInv, NEW line \in Line, Read(line),
           FileRead(file, lines'[file], title', heading', body', sections'),
           UNCHANGED <<state, file, corpus>>
    PROVE  CorpusInv'
<1>1. /\ state = "reading" /\ file \in 1..NumFiles
      /\ lines' \in [1..NumFiles -> Seq(Line)]
      /\ \A f \in 1..NumFiles : file < f => lines'[f] = <<>>
      /\ FilesTold(file - 1, lines', corpus)
  BY ReadingKeeps
<1>2. state' = state /\ file' = file /\ corpus' = corpus
  OBVIOUS
<1>3. QED
  BY <1>1, <1>2 DEF CorpusInv

LEMMA CorpusInvAlways == CorpusInit /\ [][CorpusNext]_corpusVars => []CorpusInv
<1>1. CorpusInit => CorpusInv
  <2> SUFFICES ASSUME CorpusInit PROVE CorpusInv
    OBVIOUS
  <2>1. /\ state = "reading" /\ file = 1 /\ lines = [f \in 1..NumFiles |-> <<>>]
        /\ title = NoWord /\ heading = NoWord /\ body = <<>> /\ sections = <<>>
        /\ corpus = <<>>
    BY DEF CorpusInit
  <2>2. 1 \in 1..NumFiles
    BY CorpusAssumption
  <2>3. <<>> \in Seq(Line) /\ <<>> \in Seq(Passages) /\ 1..0 = {} /\ Len(<<>>) = 0
    OBVIOUS
  <2>4. lines \in [1..NumFiles -> Seq(Line)] /\ \A f \in 1..NumFiles : lines[f] = <<>>
    BY <2>1, <2>3
  <2>5. FileRead(1, <<>>, NoWord, NoWord, <<>>, <<>>)
    BY NothingRead
  <2>6. FilesTold(0, lines, <<>>)
    BY <2>3 DEF FilesTold
  <2>7. FileRead(file, lines[file], title, heading, body, sections)
    BY <2>1, <2>2, <2>4, <2>5
  <2>8. FilesTold(file - 1, lines, corpus)
    BY <2>1, <2>6
  <2>9. QED
    BY <2>1, <2>2, <2>4, <2>7, <2>8 DEF CorpusInv
<1>2. CorpusInv /\ [CorpusNext]_corpusVars => CorpusInv'
  <2> SUFFICES ASSUME CorpusInv, [CorpusNext]_corpusVars PROVE CorpusInv'
    OBVIOUS
  <2>1. ASSUME NEW line \in Line, ReadSection(line) PROVE CorpusInv'
    <3>1. Read(line) /\ line.kind = "section"
      BY <2>1 DEF ReadSection
    <3>2. CASE SectionEmpty
      <4>1. Fail /\ Refused(line, title, heading, body)
        BY <2>1, <3>1, <3>2 DEF ReadSection, Refused, SectionEmpty, HasNoText
      <4>2. QED
        BY <3>1, <4>1, RefusingKeeps
    <3>3. CASE ~SectionEmpty
      <4>1. /\ file \in Nat
            /\ FileRead(file, lines[file], title, heading, body, sections)
            /\ OneMore(lines[file], line, lines'[file], Len(lines[file]))
        BY <3>1, ReadingKeeps
      <4>2. ~Refused(line, title, heading, body)
        BY <3>1, <3>3 DEF Refused, SectionEmpty, HasNoText
      <4>3. FileRead(file, lines'[file], title, line.word, <<>>, Closing(file, title, heading, body, sections))
        BY <3>1, <4>1, <4>2, SectionIsRead
      <4>4. /\ sections' = Close /\ heading' = line.word /\ body' = <<>>
            /\ state' = state /\ file' = file /\ title' = title /\ corpus' = corpus
        BY <2>1, <3>3 DEF ReadSection
      <4>5. Close = Closing(file, title, heading, body, sections)
        BY DEF Close, Closing, Document
      <4>6. FileRead(file, lines'[file], title', heading', body', sections')
        BY <4>3, <4>4, <4>5
      <4>7. QED
        BY <3>1, <4>4, <4>6, ReadKeeps
    <3>4. QED
      BY <3>2, <3>3
  <2>2. ASSUME NEW line \in Line, Read(line), line.kind # "section",
               IF Refused(line, title, heading, body) THEN Fail
               ELSE /\ title' = IF line.kind = "title" THEN line.word ELSE title
                    /\ body' = IF line.kind = "title" THEN body ELSE Append(body, line.word)
                    /\ UNCHANGED <<state, file, heading, sections, corpus>>
        PROVE  CorpusInv'
    <3>1. CASE Refused(line, title, heading, body)
      BY <2>2, <3>1, RefusingKeeps
    <3>2. CASE ~Refused(line, title, heading, body)
      <4> DEFINE called == IF line.kind = "title" THEN line.word ELSE title
                 words == IF line.kind = "title" THEN body ELSE Append(body, line.word)
      <4>1. /\ file \in Nat
            /\ FileRead(file, lines[file], title, heading, body, sections)
            /\ OneMore(lines[file], line, lines'[file], Len(lines[file]))
        BY <2>2, ReadingKeeps
      <4>2. FileRead(file, lines'[file], called, heading, words, sections)
        BY <2>2, <3>2, <4>1, LineIsRead
      <4>3. /\ title' = called /\ body' = words
            /\ state' = state /\ file' = file /\ heading' = heading /\ sections' = sections
            /\ corpus' = corpus
        BY <2>2, <3>2
      <4> HIDE DEF called, words
      <4>4. FileRead(file, lines'[file], title', heading', body', sections')
        BY <4>2, <4>3
      <4>5. QED
        BY <2>2, <4>3, <4>4, ReadKeeps
    <3>3. QED
      BY <3>1, <3>2
  <2>3. ASSUME NEW line \in Line, ReadTitle(line) PROVE CorpusInv'
    <3>1. /\ Read(line) /\ line.kind = "title"
          /\ Refused(line, title, heading, body) <=> title # NoWord
      BY <2>3 DEF ReadTitle, Refused
    <3>2. IF title # NoWord THEN Fail
          ELSE title' = line.word /\ UNCHANGED <<state, file, heading, body, sections, corpus>>
      BY <2>3 DEF ReadTitle
    <3>3. QED
      BY <2>2, <3>1, <3>2
  <2>4. ASSUME NEW line \in Line, ReadDeeper(line) PROVE CorpusInv'
    <3>1. Read(line) /\ line.kind = "deeper" /\ ~Refused(line, title, heading, body)
      BY <2>4 DEF ReadDeeper, Refused
    <3>2. /\ body' = Append(body, line.word)
          /\ UNCHANGED <<state, file, title, heading, sections, corpus>>
      BY <2>4 DEF ReadDeeper
    <3>3. QED
      BY <2>2, <3>1, <3>2
  <2>5. ASSUME NEW line \in Line, ReadText(line) PROVE CorpusInv'
    <3>1. /\ Read(line) /\ line.kind \in {"text", "blank"}
          /\ Refused(line, title, heading, body) <=> line.kind = "text" /\ heading = NoWord
      BY <2>5 DEF ReadText, Refused
    <3>2. IF line.kind = "text" /\ heading = NoWord THEN Fail
          ELSE /\ body' = Append(body, line.word)
               /\ UNCHANGED <<state, file, title, heading, sections, corpus>>
      BY <2>5 DEF ReadText
    <3>3. QED
      BY <2>2, <3>1, <3>2
  <2>6. ASSUME EndFile PROVE CorpusInv'
    <3> DEFINE text == lines[file]
               closed == Closing(file, title, heading, body, sections)
    <3>1. /\ state = "reading" /\ lines' = lines
          /\ file \in 1..NumFiles /\ lines \in [1..NumFiles -> Seq(Line)]
          /\ FileRead(file, text, title, heading, body, sections)
          /\ \A f \in 1..NumFiles : file < f => lines[f] = <<>>
          /\ FilesTold(file - 1, lines, corpus)
      BY <2>6 DEF EndFile, CorpusInv
    <3>2. NumFiles \in Nat /\ file \in Nat /\ file - 1 \in Nat
      BY <3>1, CorpusAssumption
    <3>3. closed = Close /\ (SectionEmpty <=> HasNoText(heading, body))
      BY DEF Close, Closing, Document, SectionEmpty, HasNoText
    <3>4. IF HasNoText(heading, body) \/ title = NoWord \/ closed = <<>>
            THEN ~WellFormed(text)
            ELSE WellFormed(text) /\ AllTold(file, text, closed)
      BY <3>1, <3>2, FileIsRead
    <3> HIDE DEF closed, text
    <3>5. CASE HasNoText(heading, body) \/ title = NoWord \/ closed = <<>>
      <4>1. state' = "failed" /\ file' = file
        BY <2>6, <3>3, <3>5 DEF EndFile, Fail
      <4>2. ~WellFormed(lines[file]) /\ file \in 1..file
        BY <3>2, <3>1, <3>4, <3>5 DEF text
      <4>3. QED
        BY <3>1, <4>1, <4>2 DEF CorpusInv
    <3>6. CASE ~(HasNoText(heading, body) \/ title = NoWord \/ closed = <<>>)
      <4>1. /\ corpus' = corpus \o closed
            /\ title' = NoWord /\ heading' = NoWord /\ body' = <<>> /\ sections' = <<>>
            /\ \/ state' = "loaded" /\ file' = file
               \/ file < NumFiles /\ state' = state /\ file' = file + 1
        BY <2>6, <3>3, <3>6 DEF EndFile
      <4>2. FilesTold(file, lines, corpus')
        <5> DEFINE m == file - 1
        <5>1. m \in Nat /\ m + 1 = file
          BY <3>2
        <5>2. lines[m + 1] \in Seq(Line) /\ WellFormed(lines[m + 1]) /\ AllTold(m + 1, lines[m + 1], closed)
          BY <3>1, <3>4, <3>6, <5>1 DEF text
        <5>3. FilesTold(m, lines, corpus)
          BY <3>1
        <5> HIDE DEF m
        <5>4. FilesTold(m + 1, lines, corpus \o closed)
          BY <5>1, <5>2, <5>3, FilesToldMore
        <5>5. QED
          BY <4>1, <5>1, <5>4
      <4>3. CASE state' = "loaded" /\ file' = file
        BY <3>1, <4>2, <4>3 DEF CorpusInv
      <4>4. CASE file < NumFiles /\ state' = state /\ file' = file + 1
        <5>1. file' \in 1..NumFiles /\ file' - 1 = file
          BY <3>1, <3>2, <4>4
        <5>2. \A f \in 1..NumFiles : file' < f => file < f
          BY <3>2, <4>4
        <5>3. lines[file'] = <<>>
          BY <3>1, <3>2, <4>4, <5>1
        <5>4. FileRead(file', lines[file'], title', heading', body', sections')
          BY <4>1, <5>3, NothingRead
        <5>5. QED
          BY <3>1, <4>2, <4>4, <5>1, <5>2, <5>4 DEF CorpusInv
      <4>5. QED
        BY <4>1, <4>3, <4>4
    <3>7. QED
      BY <3>5, <3>6
  <2>7. CASE Search
    BY <2>7 DEF Search, CorpusInv
  <2>8. CASE UNCHANGED corpusVars
    BY <2>8 DEF corpusVars, parsing, CorpusInv
  <2>9. QED
    BY <2>1, <2>3, <2>4, <2>5, <2>6, <2>7, <2>8 DEF CorpusNext
<1>3. QED
  BY <1>1, <1>2, PTL

(***************************************************************************)
(* load_corpus loses and invents nothing, whatever the files hold and      *)
(* however many lines and files there are: every section of files that are *)
(* well formed becomes one passage, in order, with its heading, its title, *)
(* its words and its paragraphs, and only a file that is not well formed   *)
(* is refused.                                                             *)
(***************************************************************************)
THEOREM CorpusIsAlwaysFaithful == CorpusInit /\ [][CorpusNext]_corpusVars => []CorpusIsFaithful
<1>1. CorpusInv => CorpusIsFaithful
  BY DEF CorpusInv, FilesTold, ChunkBefore, CorpusIsFaithful
<1>2. QED
  BY <1>1, CorpusInvAlways, PTL
=============================================================================
