--------------------------- MODULE RunStoreProofs ---------------------------
(***************************************************************************)
(* The store of finished runs is what its history says, for any capacity,  *)
(* any ids and any number of runs.  The entries of the store stand for     *)
(* positions of the history, in its order; the ids that finished after an  *)
(* entry are the ids of the entries behind it, so that counting them is    *)
(* counting entries.                                                       *)
(***************************************************************************)
EXTENDS RunStore, FiniteSetTheorems, FunctionTheorems, SequenceTheorems, TLAPS

Distinct(kept) == \A i, j \in 1..Len(kept) : kept[i].id = kept[j].id => i = j

\* The ids that finished after the i-th run of a history.
Later(history, i) == {history[j].id : j \in (i + 1)..Len(history)}

ServedIn(history, i) ==
    /\ history[i].id \notin Later(history, i)
    /\ Cardinality(Later(history, i)) < Capacity

\* The m-th entry of a store is the run at position place[m] of the history.
Tells(kept, history, place) ==
    /\ kept \in Seq(Artifact) /\ history \in Seq(Artifact)
    /\ place \in [1..Len(kept) -> 1..Len(history)]
    /\ Len(kept) <= Capacity
    /\ Distinct(kept)
    /\ \A m, k \in 1..Len(kept) : m < k => place[m] < place[k]
    /\ \A m \in 1..Len(kept) : kept[m] = history[place[m]]
    /\ \A i \in 1..Len(history) : ServedIn(history, i) => \E m \in 1..Len(kept) : place[m] = i
    /\ \A m \in 1..Len(kept) :
          Later(history, place[m]) = {kept[k].id : k \in (m + 1)..Len(kept)}

-----------------------------------------------------------------------------
(* Counting.                                                               *)

\* As many ids stand at the places from..Len(kept) as there are places.
LEMMA IdsBehind ==
    ASSUME NEW kept \in Seq(Artifact), Distinct(kept), NEW from \in 1..(Len(kept) + 1)
    PROVE  LET ids == {kept[k].id : k \in from..Len(kept)}
           IN  IsFiniteSet(ids) /\ Cardinality(ids) = Len(kept) - from + 1
<1> DEFINE places == from..Len(kept)
           ids == {kept[k].id : k \in places}
           at == [k \in places |-> kept[k].id]
<1>1. IsFiniteSet(places) /\ Cardinality(places) = Len(kept) - from + 1
  <2>1. from \in Int /\ Len(kept) \in Int /\ from <= Len(kept) + 1
    BY LenProperties
  <2>2. Cardinality(places) = IF from > Len(kept) THEN 0 ELSE Len(kept) - from + 1
    BY <2>1, FS_Interval
  <2>3. IsFiniteSet(places)
    BY <2>1, FS_Interval
  <2> HIDE DEF places
  <2>4. QED
    BY <2>1, <2>2, <2>3
<1>2. at \in Bijection(places, ids)
  <2>1. at \in Surjection(places, ids)
    BY Fun_IsSurj
  <2>2. \A j, k \in places : at[j] = at[k] => j = k
    BY DEF Distinct
  <2>3. QED
    BY <2>1, <2>2, Fun_IsInj DEF Bijection, Injection, Surjection
<1>3. QED
  BY <1>1, <1>2, FS_Bijection DEF ExistsBijection

\* Nothing finished after the last run.
LEMMA LaterNow ==
    ASSUME NEW history \in Seq(Artifact), NEW a \in Artifact, NEW i \in 1..Len(history)
    PROVE  /\ Later(Append(history, a), i) = Later(history, i) \cup {a.id}
           /\ Later(Append(history, a), Len(history) + 1) = {}
<1> DEFINE now == Append(history, a)
           n == Len(history)
<1>1. /\ Len(now) = n + 1 /\ n \in Nat
      /\ \A j \in 1..n : now[j] = history[j]
      /\ now[n + 1] = a
  OBVIOUS
<1> HIDE DEF now, n
<1>2. Later(now, n + 1) = {}
  BY <1>1 DEF Later
<1>3. Later(now, i) = {now[j].id : j \in (i + 1)..n} \cup {now[n + 1].id}
  <2>1. (i + 1)..(n + 1) = ((i + 1)..n) \cup {n + 1}
    BY <1>1 DEF n
  <2>2. QED
    BY <1>1, <2>1 DEF Later
<1>4. {now[j].id : j \in (i + 1)..n} = {history[j].id : j \in (i + 1)..n}
  <2>1. \A j \in (i + 1)..n : now[j] = history[j]
    BY <1>1
  <2>2. QED
    BY <2>1
<1>5. QED
  BY <1>1, <1>2, <1>3, <1>4 DEF Later, now, n

LEMMA LaterFinite ==
    ASSUME NEW history \in Seq(Artifact), NEW i \in 1..Len(history)
    PROVE  IsFiniteSet(Later(history, i))
<1> DEFINE places == (i + 1)..Len(history)
           at == [j \in places |-> history[j].id]
<1>1. IsFiniteSet(places)
  <2>1. i + 1 \in Int /\ Len(history) \in Int
    BY LenProperties
  <2>2. QED
    BY <2>1, FS_Interval
<1>2. at \in Surjection(places, Later(history, i))
  <2>1. \A id \in Later(history, i) : \E j \in places : at[j] = id
    BY DEF Later
  <2>2. at \in [places -> Later(history, i)]
    BY DEF Later
  <2>3. QED
    BY <2>1, <2>2, Fun_IsSurj
<1>3. QED
  BY <1>1, <1>2, FS_Surjection

\* The entries of a store are served, and each is one of its history.
LEMMA EntriesAreServed ==
    ASSUME Capacity \in Nat \ {0}, NEW kept, NEW history, NEW place, Tells(kept, history, place),
           NEW m \in 1..Len(kept)
    PROVE  /\ place[m] \in 1..Len(history)
           /\ ServedIn(history, place[m])
           /\ Cardinality(Later(history, place[m])) = Len(kept) - m
<1>1. /\ kept \in Seq(Artifact) /\ Len(kept) \in Nat /\ Len(kept) <= Capacity /\ Distinct(kept)
      /\ place[m] \in 1..Len(history) /\ kept[m] = history[place[m]]
      /\ Later(history, place[m]) = {kept[k].id : k \in (m + 1)..Len(kept)}
  BY DEF Tells
<1>2. Cardinality(Later(history, place[m])) = Len(kept) - m
  <2>1. m + 1 \in 1..(Len(kept) + 1)
    BY <1>1
  <2>2. Cardinality({kept[k].id : k \in (m + 1)..Len(kept)}) = Len(kept) - (m + 1) + 1
    BY <1>1, <2>1, IdsBehind
  <2>3. QED
    BY <1>1, <2>2
<1>3. kept[m].id \notin {kept[k].id : k \in (m + 1)..Len(kept)}
  BY <1>1 DEF Distinct
<1>4. QED
  BY <1>1, <1>2, <1>3 DEF ServedIn

-----------------------------------------------------------------------------
(* A put.                                                                  *)

\* The store after a put is most of the entries before it, in their order, and
\* the new one: from[m] is where the m-th stood.  What is missing had the new id
\* or was the oldest of a full store.
FollowsBy(kept, a, next, from) ==
    /\ next \in Seq(Artifact) /\ Len(next) \in 1..Capacity
    /\ next[Len(next)] = a
    /\ from \in [1..(Len(next) - 1) -> 1..Len(kept)]
    /\ \A m, k \in 1..(Len(next) - 1) : m < k => from[m] < from[k]
    /\ \A m \in 1..(Len(next) - 1) : next[m] = kept[from[m]] /\ kept[from[m]].id # a.id
    /\ \A k \in 1..Len(kept) :
          \/ \E m \in 1..(Len(next) - 1) : from[m] = k
          \/ kept[k].id = a.id
          \/ k = 1 /\ Len(kept) = Capacity /\ \A j \in 1..Len(kept) : kept[j].id # a.id

LEMMA TellsStep ==
    ASSUME Capacity \in Nat \ {0}, NEW kept, NEW history, NEW place, Tells(kept, history, place),
           NEW a \in Artifact, NEW next, NEW from, FollowsBy(kept, a, next, from)
    PROVE  \E to : Tells(next, Append(history, a), to)
<1> DEFINE now == Append(history, a)
           n == Len(history)
           l == Len(next)
           to == [m \in 1..l |-> IF m < l THEN place[from[m]] ELSE n + 1]
<1>1. /\ kept \in Seq(Artifact) /\ Len(kept) \in Nat /\ history \in Seq(Artifact) /\ n \in Nat
      /\ next \in Seq(Artifact) /\ l \in 1..Capacity /\ l \in Nat
      /\ place \in [1..Len(kept) -> 1..n]
  BY DEF Tells, FollowsBy
<1>2. /\ now \in Seq(Artifact) /\ Len(now) = n + 1
      /\ \A j \in 1..n : now[j] = history[j]
      /\ now[n + 1] = a
  BY <1>1
<1> HIDE DEF now, n, l
<1>3. ASSUME NEW m \in 1..l, m < l
      PROVE  /\ m \in 1..(l - 1) /\ from[m] \in 1..Len(kept)
             /\ place[from[m]] \in 1..n /\ to[m] = place[from[m]]
             /\ next[m] = kept[from[m]] /\ kept[from[m]].id # a.id
             /\ kept[from[m]] = history[place[from[m]]]
  <2>1. m \in 1..(l - 1)
    BY <1>1, <1>3
  <2>2. from[m] \in 1..Len(kept) /\ next[m] = kept[from[m]] /\ kept[from[m]].id # a.id
    BY <2>1 DEF FollowsBy, l
  <2>3. QED
    BY <1>1, <1>3, <2>1, <2>2 DEF Tells
<1>4. to[l] = n + 1 /\ l \in 1..l /\ next[l] = a
  BY <1>1 DEF FollowsBy, l
<1>5. to \in [1..l -> 1..(n + 1)]
  BY <1>1, <1>3
<1> HIDE DEF to
<1>6. \A m, k \in 1..l : m < k => to[m] < to[k]
  <2> SUFFICES ASSUME NEW m \in 1..l, NEW k \in 1..l, m < k PROVE to[m] < to[k]
    OBVIOUS
  <2>1. CASE k < l
    <3>1. from[m] < from[k]
      BY <1>1, <1>3, <2>1 DEF FollowsBy, l
    <3>2. QED
      BY <1>1, <1>3, <2>1, <3>1 DEF Tells
  <2>2. CASE k = l
    <3>1. to[m] \in 1..n
      BY <1>3, <2>2
    <3>2. QED
      BY <1>1, <1>4, <2>2, <3>1
  <2>3. QED
    BY <1>1, <2>1, <2>2
<1>7. ASSUME NEW m \in 1..l PROVE next[m] = now[to[m]]
  <2>1. CASE m < l
    BY <1>2, <1>3, <2>1
  <2>2. CASE m = l
    BY <1>2, <1>4, <2>2
  <2>3. QED
    BY <1>1, <2>1, <2>2
<1>8. Distinct(next)
  <2> SUFFICES ASSUME NEW m \in 1..l, NEW k \in 1..l, next[m].id = next[k].id PROVE m = k
    BY DEF Distinct, l
  <2>1. CASE m < l /\ k < l
    <3>1. from[m] = from[k]
      <4>1. /\ from[m] \in 1..Len(kept) /\ from[k] \in 1..Len(kept)
            /\ kept[from[m]].id = kept[from[k]].id
        BY <1>3, <2>1
      <4>2. QED
        BY <4>1 DEF Tells, Distinct
    <3>2. m \in 1..(l - 1) /\ k \in 1..(l - 1) /\ (m < k \/ k < m \/ m = k)
      BY <1>1, <1>3, <2>1
    <3>3. from[m] \in Int
      BY <1>3, <2>1
    <3>4. QED
      BY <3>1, <3>2, <3>3 DEF FollowsBy, l
  <2>2. CASE m < l /\ k = l
    BY <1>3, <1>4, <2>2
  <2>3. CASE m = l /\ k < l
    BY <1>3, <1>4, <2>3
  <2>4. QED
    BY <1>1, <2>1, <2>2, <2>3
<1>9. ASSUME NEW m \in 1..l
      PROVE  Later(now, to[m]) = {next[k].id : k \in (m + 1)..l}
  <2>1. CASE m = l
    <3>1. (m + 1)..l = {}
      BY <1>1, <2>1
    <3>2. Later(now, n + 1) = {}
      BY <1>2 DEF Later
    <3>3. QED
      BY <1>4, <2>1, <3>1, <3>2
  <2>2. CASE m < l
    <3>1. Later(now, to[m]) = Later(history, place[from[m]]) \cup {a.id}
      BY <1>1, <1>3, <2>2, LaterNow DEF now, n
    <3>2. Later(history, place[from[m]]) = {kept[k].id : k \in (from[m] + 1)..Len(kept)}
      BY <1>3, <2>2 DEF Tells
    <3>3. ASSUME NEW k \in (from[m] + 1)..Len(kept), kept[k].id # a.id
          PROVE  \E j \in (m + 1)..l : next[j].id = kept[k].id
      <4>1. k \in 1..Len(kept) /\ k > from[m] /\ k # 1
        BY <1>1, <1>3, <2>2, <3>3
      <4>2. PICK j \in 1..(l - 1) : from[j] = k
        BY <3>3, <4>1 DEF FollowsBy, l
      <4>3. j \in 1..l /\ j < l /\ (j <= m \/ j \in (m + 1)..l)
        BY <1>1, <2>2, <4>2
      <4>4. ~(j <= m)
        <5>1. CASE j = m
          BY <1>1, <1>3, <2>2, <4>1, <4>2, <5>1
        <5>2. CASE j < m
          <6>1. from[j] < from[m]
            BY <1>3, <2>2, <4>2, <5>2 DEF FollowsBy, l
          <6>2. QED
            BY <1>1, <1>3, <2>2, <4>1, <4>2, <6>1
        <5>3. QED
          BY <1>1, <4>3, <5>1, <5>2
      <4>5. QED
        BY <1>3, <4>2, <4>3, <4>4
    <3>4. ASSUME NEW j \in (m + 1)..l
          PROVE  next[j].id = a.id \/ \E k \in (from[m] + 1)..Len(kept) : next[j].id = kept[k].id
      <4>1. CASE j = l
        BY <1>4, <4>1
      <4>2. CASE j < l
        <5>1. j \in 1..l /\ m \in 1..(l - 1) /\ j \in 1..(l - 1) /\ m < j
          BY <1>1, <1>3, <2>2, <4>2
        <5>2. from[m] < from[j]
          BY <5>1 DEF FollowsBy, l
        <5>3. from[j] \in (from[m] + 1)..Len(kept) /\ next[j] = kept[from[j]]
          BY <1>1, <1>3, <2>2, <4>2, <5>1, <5>2
        <5>4. QED
          BY <5>3
      <4>3. QED
        BY <1>1, <4>1, <4>2
    <3>5. l \in (m + 1)..l /\ next[l].id = a.id
      BY <1>1, <1>4, <2>2
    <3> DEFINE behind == {kept[k].id : k \in (from[m] + 1)..Len(kept)}
               nextIds == {next[k].id : k \in (m + 1)..l}
    <3>6. behind \subseteq nextIds \cup {a.id}
      BY <3>3
    <3>7. nextIds \subseteq behind \cup {a.id}
      BY <3>4
    <3>8. a.id \in nextIds
      BY <3>5
    <3>9. behind \cup {a.id} = nextIds
      BY ONLY <3>6, <3>7, <3>8
    <3>10. QED
      BY ONLY <3>1, <3>2, <3>9
  <2>3. QED
    BY <1>1, <2>1, <2>2
<1>10. ASSUME NEW i \in 1..(n + 1), ServedIn(now, i) PROVE \E m \in 1..l : to[m] = i
  <2>1. CASE i = n + 1
    BY <1>4, <2>1
  <2>2. CASE i # n + 1
    <3>1. i \in 1..n /\ now[i] = history[i]
      BY <1>1, <1>2, <2>2
    <3>2. Later(now, i) = Later(history, i) \cup {a.id}
      BY <1>1, <3>1, LaterNow DEF now, n
    <3>3. IsFiniteSet(Later(history, i))
      BY <1>1, <3>1, LaterFinite DEF n
    <3>4. /\ history[i].id # a.id
          /\ ServedIn(history, i)
          /\ a.id \notin Later(history, i) => Cardinality(Later(history, i)) + 1 < Capacity
      <4>1. /\ now[i].id \notin Later(history, i) \cup {a.id}
            /\ Cardinality(Later(history, i) \cup {a.id}) < Capacity
        BY <1>10, <3>2 DEF ServedIn
      <4>2. /\ Cardinality(Later(history, i)) \in Nat
            /\ Cardinality(Later(history, i) \cup {a.id}) =
                  IF a.id \in Later(history, i) THEN Cardinality(Later(history, i))
                  ELSE Cardinality(Later(history, i)) + 1
        BY <3>3, FS_CardinalityType, FS_AddElement
      <4>3. QED
        BY <3>1, <4>1, <4>2 DEF ServedIn
    <3>5. PICK k \in 1..Len(kept) : place[k] = i
      BY <3>1, <3>4 DEF Tells, n
    <3>6. kept[k] = history[i] /\ Later(history, i) = {kept[j].id : j \in (k + 1)..Len(kept)}
      BY <3>5 DEF Tells
    <3>7. ~(k = 1 /\ Len(kept) = Capacity /\ \A j \in 1..Len(kept) : kept[j].id # a.id)
      <4> SUFFICES ASSUME k = 1, Len(kept) = Capacity, \A j \in 1..Len(kept) : kept[j].id # a.id
                   PROVE  FALSE
        OBVIOUS
      <4>1. a.id \notin Later(history, i)
        BY <1>1, <3>6
      <4>2. Cardinality(Later(history, i)) = Len(kept) - 1
        BY <3>5, EntriesAreServed
      <4>3. QED
        BY <1>1, <3>4, <4>1, <4>2
    <3>8. PICK m \in 1..(l - 1) : from[m] = k
      BY <3>4, <3>6, <3>7 DEF FollowsBy, l
    <3>9. m \in 1..l /\ m < l
      BY <1>1, <3>8
    <3>10. QED
      BY <1>3, <3>5, <3>8, <3>9
  <2>3. QED
    BY <2>1, <2>2
<1>11. Tells(next, now, to)
  BY <1>1, <1>2, <1>5, <1>6, <1>7, <1>8, <1>9, <1>10 DEF Tells, l
<1>12. QED
  BY <1>11 DEF now

\* The store that put leaves follows by keeping most entries.
LEMMA StoredFollows ==
    ASSUME Capacity \in Nat \ {0}, NEW kept \in Seq(Artifact), Len(kept) <= Capacity,
           Distinct(kept), NEW a \in Artifact
    PROVE  \E from : FollowsBy(kept, a, Stored(kept, a), from)
<1> DEFINE n == Len(kept)
           next == Stored(kept, a)
<1>1. n \in Nat /\ n <= Capacity
  BY LenProperties
<1>2. CASE At(kept, a.id) = {}
  <2>1. /\ Without(kept, a.id) = kept
        /\ \A k \in 1..n : kept[k].id # a.id
    BY <1>2 DEF Without, At
  <2>2. CASE n < Capacity
    <3> DEFINE from == [m \in 1..n |-> m]
    <3>1. next = Append(kept, a)
      BY <1>1, <2>1, <2>2 DEF Stored, EvictOldest
    <3>2. /\ next \in Seq(Artifact) /\ Len(next) = n + 1 /\ next[n + 1] = a
          /\ \A m \in 1..n : next[m] = kept[m]
      BY <3>1
    <3> HIDE DEF next
    <3>3. FollowsBy(kept, a, next, from)
      BY <1>1, <2>1, <2>2, <3>2 DEF FollowsBy
    <3>4. QED
      BY <3>3 DEF next
  <2>3. CASE n = Capacity
    <3> DEFINE from == [m \in 1..(n - 1) |-> m + 1]
               longer == Append(kept, a)
    <3>1. /\ longer \in Seq(Artifact) /\ Len(longer) = n + 1 /\ longer[n + 1] = a
          /\ \A m \in 1..n : longer[m] = kept[m]
      OBVIOUS
    <3>2. next = SubSeq(longer, 2, n + 1)
      <4> DEFINE over == Len(longer) - Capacity
      <4>1. next = IF over > 0 THEN SubSeq(longer, over + 1, Len(longer)) ELSE longer
        BY <2>1 DEF Stored, EvictOldest
      <4>2. over = 1 /\ Len(longer) = n + 1
        BY <1>1, <2>3, <3>1
      <4> HIDE DEF over, next, longer
      <4>3. QED
        BY <4>1, <4>2
    <3> HIDE DEF next, longer
    <3>3. /\ next \in Seq(Artifact) /\ Len(next) = n
          /\ \A m \in 1..n : next[m] = longer[m + 1]
      BY <1>1, <3>1, <3>2
    <3>4. FollowsBy(kept, a, next, from)
      <4>1. /\ Len(next) \in 1..Capacity /\ next[Len(next)] = a
            /\ from \in [1..(Len(next) - 1) -> 1..n]
        BY <1>1, <2>3, <3>1, <3>3
      <4>2. \A m \in 1..(Len(next) - 1) : next[m] = kept[from[m]] /\ kept[from[m]].id # a.id
        <5>1. \A m \in 1..(n - 1) : m \in 1..n /\ m + 1 \in 1..n /\ from[m] = m + 1
          BY <1>1
        <5> HIDE DEF from
        <5>2. QED
          BY <2>1, <3>1, <3>3, <5>1
      <4>3. \A m, k \in 1..(Len(next) - 1) : m < k => from[m] < from[k]
        BY <1>1, <3>3
      <4>4. \A k \in 1..n : k = 1 \/ \E m \in 1..(Len(next) - 1) : from[m] = k
        <5>1. \A k \in 1..n : k # 1 => k - 1 \in 1..(n - 1) /\ from[k - 1] = k
          BY <1>1
        <5>2. QED
          BY <3>3, <5>1
      <4>5. QED
        BY <2>1, <2>3, <3>3, <4>1, <4>2, <4>3, <4>4 DEF FollowsBy
    <3>5. QED
      BY <3>4 DEF next
  <2>4. QED
    BY <1>1, <2>2, <2>3
<1>3. CASE At(kept, a.id) # {}
  <2> DEFINE i == CHOOSE i \in At(kept, a.id) : TRUE
             rest == Without(kept, a.id)
             from == [m \in 1..(n - 1) |-> IF m < i THEN m ELSE m + 1]
  <2>1. i \in 1..n /\ kept[i].id = a.id
    BY <1>3 DEF At
  <2>2. rest = [j \in 1..(n - 1) |-> IF j < i THEN kept[j] ELSE kept[j + 1]]
    BY <1>3 DEF Without
  <2> HIDE DEF i, rest
  <2>3. \A m \in 1..(n - 1) : /\ from[m] \in 1..n /\ from[m] # i
                              /\ rest[m] = kept[from[m]]
    BY <1>1, <2>1, <2>2
  <2>4. rest \in Seq(Artifact) /\ Len(rest) = n - 1
    BY <1>1, <2>1, <2>2, <2>3
  <2>5. /\ Append(rest, a) \in Seq(Artifact) /\ Len(Append(rest, a)) = n
        /\ Append(rest, a)[n] = a
        /\ \A m \in 1..(n - 1) : Append(rest, a)[m] = rest[m]
    BY <1>1, <2>1, <2>4
  <2>6. next = Append(rest, a)
    BY <1>1, <2>5 DEF Stored, EvictOldest, rest
  <2>7. \A m, k \in 1..(n - 1) : m < k => from[m] < from[k]
    BY <1>1, <2>1
  <2>8. \A k \in 1..n : k = i \/ \E m \in 1..(n - 1) : from[m] = k
    <3> SUFFICES ASSUME NEW k \in 1..n, k # i PROVE \E m \in 1..(n - 1) : from[m] = k
      OBVIOUS
    <3>1. CASE k < i
      <4>1. k \in 1..(n - 1) /\ from[k] = k
        BY <1>1, <2>1, <3>1
      <4>2. QED
        BY <4>1
    <3>2. CASE k > i
      <4>1. k - 1 \in 1..(n - 1) /\ from[k - 1] = k
        BY <1>1, <2>1, <3>2
      <4>2. QED
        BY <4>1
    <3>3. QED
      BY <1>1, <2>1, <3>1, <3>2
  <2>9. FollowsBy(kept, a, next, from)
    <3>1. /\ next \in Seq(Artifact) /\ Len(next) = n /\ n \in 1..Capacity /\ next[n] = a
          /\ from \in [1..(n - 1) -> 1..n]
      BY <1>1, <2>1, <2>3, <2>5, <2>6
    <3>2. \A m \in 1..(n - 1) : next[m] = kept[from[m]] /\ kept[from[m]].id # a.id
      BY <2>1, <2>3, <2>5, <2>6 DEF Distinct
    <3>3. QED
      BY <2>1, <2>7, <2>8, <3>1, <3>2 DEF FollowsBy
  <2>10. QED
    BY <2>9
<1>4. QED
  BY <1>2, <1>3

\* A put keeps a store true to its history.
LEMMA PutTells ==
    ASSUME Capacity \in Nat \ {0}, NEW kept, NEW history, NEW place, Tells(kept, history, place),
           NEW a \in Artifact
    PROVE  \E to : Tells(Stored(kept, a), Append(history, a), to)
<1>1. PICK from : FollowsBy(kept, a, Stored(kept, a), from)
  BY StoredFollows DEF Tells
<1>2. QED
  BY <1>1, TellsStep

\* A store that nothing was put into.
LEMMA NothingTold ==
    ASSUME Capacity \in Nat \ {0}
    PROVE  \E place : Tells(<<>>, <<>>, place)
<1> DEFINE place == [m \in 1..0 |-> m]
<1>1. Tells(<<>>, <<>>, place)
  BY DEF Tells, Distinct
<1>2. QED
  BY <1>1

-----------------------------------------------------------------------------
(* What a true store serves.                                               *)

\* The places of the first entries are as many.
LEMMA PlacesCounted ==
    ASSUME NEW kept, NEW history, NEW place, Tells(kept, history, place),
           NEW m \in 0..Len(kept)
    PROVE  Cardinality({place[j] : j \in 1..m}) = m
<1> DEFINE first == [j \in 1..m |-> place[j]]
           places == {place[j] : j \in 1..m}
<1>1. /\ m \in Nat /\ \A j \in 1..m : j \in 1..Len(kept)
      /\ place \in [1..Len(kept) -> 1..Len(history)]
      /\ \A j, k \in 1..Len(kept) : j < k => place[j] < place[k]
      /\ Len(kept) \in Nat
  <2>1. Len(kept) \in Nat
    BY LenProperties DEF Tells
  <2>2. QED
    BY <2>1 DEF Tells
<1>2. first \in Surjection(1..m, places)
  BY Fun_IsSurj
<1>3. \A j, k \in 1..m : first[j] = first[k] => j = k
  <2> SUFFICES ASSUME NEW j \in 1..m, NEW k \in 1..m, j # k PROVE first[j] # first[k]
    OBVIOUS
  <2>1. (j < k \/ k < j) /\ place[j] \in Int /\ place[k] \in Int
    BY <1>1
  <2>2. place[j] < place[k] \/ place[k] < place[j]
    BY <1>1, <2>1
  <2>3. QED
    BY <2>1, <2>2
<1>4. first \in Bijection(1..m, places)
  BY <1>2, <1>3, Fun_IsInj DEF Bijection, Injection, Surjection
<1>5. IsFiniteSet(1..m) /\ Cardinality(1..m) = m
  <2>1. Cardinality(1..m) = IF 1 > m THEN 0 ELSE m - 1 + 1
    BY <1>1, FS_Interval
  <2>2. QED
    BY <1>1, <2>1, FS_Interval
<1>6. QED
  BY <1>4, <1>5, FS_Bijection DEF ExistsBijection

\* The entries of a true store are what its history serves, in its order.
LEMMA TellsLatest ==
    ASSUME Capacity \in Nat \ {0}, NEW kept, NEW history, NEW place, Tells(kept, history, place)
    PROVE  LET these == {i \in 1..Len(history) : ServedIn(history, i)}
           IN  /\ Len(kept) = Cardinality(these)
               /\ \A i \in these : kept[Cardinality({k \in these : k <= i})] = history[i]
<1> DEFINE these == {i \in 1..Len(history) : ServedIn(history, i)}
<1>1. /\ Len(kept) \in Nat
      /\ place \in [1..Len(kept) -> 1..Len(history)]
      /\ \A j, k \in 1..Len(kept) : j < k => place[j] < place[k]
      /\ \A m \in 1..Len(kept) : kept[m] = history[place[m]]
  <2>1. Len(kept) \in Nat
    BY LenProperties DEF Tells
  <2>2. QED
    BY <2>1 DEF Tells
<1>2. these = {place[m] : m \in 1..Len(kept)}
  <2>1. \A i \in these : \E m \in 1..Len(kept) : place[m] = i
    BY DEF Tells
  <2>2. \A m \in 1..Len(kept) : place[m] \in these
    BY EntriesAreServed
  <2>3. QED
    BY <2>1, <2>2
<1>3. Len(kept) = Cardinality(these)
  <2>1. Len(kept) \in 0..Len(kept)
    BY <1>1
  <2>2. Cardinality({place[m] : m \in 1..Len(kept)}) = Len(kept)
    BY <2>1, PlacesCounted
  <2> HIDE DEF these
  <2>3. QED
    BY <1>2, <2>2
<1>4. ASSUME NEW i \in these
      PROVE  kept[Cardinality({k \in these : k <= i})] = history[i]
  <2>1. PICK m \in 1..Len(kept) : place[m] = i
    BY <1>2
  <2>2. {k \in these : k <= i} = {place[j] : j \in 1..m}
    <3>1. ASSUME NEW j \in 1..Len(kept)
          PROVE  place[j] <= i <=> j \in 1..m
      <4>1. place[j] \in Int /\ place[m] \in Int /\ (j < m \/ j = m \/ m < j)
        BY <1>1
      <4>2. (j < m => place[j] < place[m]) /\ (m < j => place[m] < place[j])
        BY <1>1
      <4>3. QED
        BY <1>1, <2>1, <4>1, <4>2
    <3>2. 1..m \subseteq 1..Len(kept)
      BY <1>1
    <3>3. QED
      BY <1>2, <3>1, <3>2
  <2>3. m \in 0..Len(kept)
    BY <1>1
  <2>4. Cardinality({k \in these : k <= i}) = m
    BY <2>2, <2>3, PlacesCounted
  <2>5. QED
    BY <1>1, <2>1, <2>4
<1>5. QED
  BY <1>3, <1>4

\* What a lookup by id finds in a true store: the last run of that id, if there
\* is one and fewer other ids than the capacity finished after it.
LEMMA GetTells ==
    ASSUME Capacity \in Nat \ {0}, NEW kept, NEW history, NEW place, Tells(kept, history, place),
           NEW id
    PROVE  /\ Get(kept, id) = <<>> =>
                \A i \in 1..Len(history) : history[i].id = id /\ id \notin Later(history, i) =>
                    Cardinality(Later(history, i)) >= Capacity
           /\ Get(kept, id) # <<>> =>
                \E i \in 1..Len(history) :
                    /\ history[i].id = id /\ id \notin Later(history, i)
                    /\ Cardinality(Later(history, i)) < Capacity
                    /\ Get(kept, id) = <<history[i]>>
<1>1. CASE At(kept, id) = {}
  <2>1. Get(kept, id) = <<>>
    BY <1>1 DEF Get
  <2>2. ASSUME NEW i \in 1..Len(history), history[i].id = id, id \notin Later(history, i)
        PROVE  Cardinality(Later(history, i)) >= Capacity
    <3>1. ~ServedIn(history, i)
      <4>1. \A m \in 1..Len(kept) : kept[m].id # id
        BY <1>1 DEF At
      <4>2. QED
        BY <2>2, <4>1 DEF Tells
    <3>2. Cardinality(Later(history, i)) \in Nat
      BY LaterFinite, FS_CardinalityType DEF Tells
    <3>3. QED
      BY <2>2, <3>1, <3>2 DEF ServedIn
  <2>3. QED
    BY <2>1, <2>2
<1>2. CASE At(kept, id) # {}
  <2>1. PICK m \in 1..Len(kept) : kept[m].id = id /\ Get(kept, id) = <<kept[m]>>
    BY <1>2 DEF Get, At
  <2>2. Get(kept, id) # <<>>
    BY <2>1
  <2>3. /\ place[m] \in 1..Len(history) /\ ServedIn(history, place[m])
        /\ kept[m] = history[place[m]]
    BY EntriesAreServed DEF Tells
  <2>4. QED
    BY <2>1, <2>2, <2>3 DEF ServedIn
<1>3. QED
  BY <1>1, <1>2

-----------------------------------------------------------------------------
(* The theorem.                                                            *)

StoreInv == \E place : Tells(runs, finished, place)

LEMMA StoreInvInit == Capacity \in Nat \ {0} /\ StoreInit => StoreInv
  BY NothingTold DEF StoreInit, StoreInv

LEMMA StoreInvPut ==
    ASSUME Capacity \in Nat \ {0}, StoreInv, NEW a \in Artifact, Put(a)
    PROVE  StoreInv'
  BY PutTells DEF StoreInv, Put

\* A run that history serves is an entry.
LEMMA StoreInvServes ==
    ASSUME StoreInv, NEW i \in 1..Len(finished), Served(i)
    PROVE  \E m \in 1..Len(runs) : runs[m] = finished[i]
<1>1. PICK place : Tells(runs, finished, place)
  BY DEF StoreInv
<1>2. ServedIn(finished, i)
  BY DEF Served, ServedIn, Later
<1>3. QED
  BY <1>1, <1>2 DEF Tells

LEMMA StoreInvLatest == Capacity \in Nat \ {0} /\ StoreInv => StoreIsLatest
<1> SUFFICES ASSUME Capacity \in Nat \ {0}, NEW place, Tells(runs, finished, place)
             PROVE  StoreIsLatest
  BY DEF StoreInv
<1>1. \A i : Served(i) <=> ServedIn(finished, i)
  BY DEF Served, ServedIn, Later
<1> DEFINE these == {i \in 1..Len(finished) : Served(i)}
<1>2. these = {i \in 1..Len(finished) : ServedIn(finished, i)}
  BY <1>1
<1> HIDE DEF these
<1>3. /\ Len(runs) = Cardinality(these)
      /\ \A i \in these : runs[Cardinality({k \in these : k <= i})] = finished[i]
  BY <1>2, TellsLatest
<1>4. QED
  BY <1>3 DEF StoreIsLatest, these

(***************************************************************************)
(* Whatever is put, in whatever order and under whatever ids, the store    *)
(* holds what the last ids finished with: for every capacity.              *)
(***************************************************************************)
THEOREM StoreTellsHistory ==
    ASSUME Capacity \in Nat \ {0}
    PROVE  StoreSpec => []StoreIsLatest
<1>1. StoreInit => StoreInv
  BY StoreInvInit
<1>2. StoreInv /\ [StoreNext]_storeVars => StoreInv'
  <2>1. ASSUME StoreInv, NEW a \in Artifact, Put(a) PROVE StoreInv'
    BY <2>1, StoreInvPut
  <2>2. ASSUME StoreInv, UNCHANGED storeVars PROVE StoreInv'
    BY <2>2 DEF StoreInv, storeVars
  <2>3. QED
    BY <2>1, <2>2 DEF StoreNext
<1>3. StoreInv => StoreIsLatest
  BY StoreInvLatest
<1>4. QED
  BY <1>1, <1>2, <1>3, PTL DEF StoreSpec
=============================================================================
