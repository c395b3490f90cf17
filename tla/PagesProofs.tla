----------------------------- MODULE PagesProofs -----------------------------
(***************************************************************************)
(* What a browser page shows, for any number of submissions and runs of    *)
(* any length.  At most one stream is under way and it is the last         *)
(* submission's; the timeline is as long as the halves of frames that were *)
(* read of it say; what comes late belongs to the last submission or to    *)
(* one that was waited for when the page was submitted again.              *)
(***************************************************************************)
EXTENDS Pages, FiniteSetTheorems, SequenceTheorems, TLAPS

Phases == {"none", "asked", "reading", "reading files", "posted", "over"}

Types ==
    /\ tab \in {"research", "compare", "pack"}
    /\ n \in 0..MaxSubmissions /\ status \in 0..MaxSubmissions /\ outcome \in 0..MaxSubmissions
    /\ error \in 0..MaxSubmissions /\ columns \in 0..MaxSubmissions /\ summary \in 0..MaxSubmissions
    /\ phase \in [Submissions -> Phases]
    /\ run \in [Submissions -> Runs]
    /\ got \in [Submissions -> Nat]
    /\ timeline \in Seq(Submissions \X Nat)
    /\ fetching \in SUBSET Submissions /\ late \in SUBSET Submissions /\ silent \in SUBSET Submissions
    /\ button \in {"enabled", "disabled"}

\* What each submission waits for.
Waits ==
    /\ \A s \in Submissions :
          /\ phase[s] = "none" <=> s > n
          /\ phase[s] \in {"asked", "reading"} <=> s = n /\ button = "disabled"
          /\ tab = "research" => phase[s] \notin {"reading files", "posted"}
    /\ button = "disabled" => tab = "research" /\ n # 0
    /\ tab # "research" => fetching = {} /\ timeline = <<>> /\ outcome = 0

\* How far a stream was read.
Halves ==
    \A s \in Submissions :
        /\ got[s] <= 2 * Frames(s)
        /\ phase[s] = "reading" => got[s] < 2 * Frames(s)
        /\ phase[s] \in {"none", "asked"} => got[s] = 0

\* The timeline lists the whole frames, but the one that ends the stream.
Listed ==
    /\ \A i \in 1..Len(timeline) : timeline[i] = <<n, i>>
    /\ n = 0 => timeline = <<>>
    /\ tab = "research" /\ n # 0 =>
          Len(timeline) = IF got[n] = 2 * Frames(n) THEN run[n].length ELSE got[n] \div 2

\* Whose content may come, and whose is shown.
Owned ==
    /\ fetching \cup Pending \subseteq {n} \cup late
    /\ tab = "research" => error \in {0, n} /\ columns = 0 /\ summary = 0 /\ status \in {n} \cup late
    /\ outcome \in {0, n} \cup late
    /\ {error, columns, summary} \subseteq {0, n} \cup late

\* A run that is over was told, or is being fetched.
Told ==
    tab = "research" /\ n # 0 /\ phase[n] = "over" /\ n \notin silent =>
        error = n \/ (got[n] = 2 * Frames(n) /\ (n \in fetching \/ outcome # 0))

IInv == Types /\ Waits /\ Halves /\ Listed /\ Owned /\ Told

-----------------------------------------------------------------------------
(* The start.                                                              *)

LEMMA FramesAreNatural ==
    ASSUME Types
    PROVE  \A s \in Submissions :
              run[s].length \in Nat /\ Frames(s) = run[s].length + 1 /\ Frames(s) \in Nat \ {0}
<1>1. \A s \in Submissions : run[s].length \in Nat
  BY PagesAssumption DEF Types, Runs
<1>2. QED
  BY <1>1 DEF Frames

LEMMA Numbers ==
    /\ \A m : m \in Submissions <=> m \in Nat /\ m # 0 /\ m <= MaxSubmissions
    /\ \A m : m \in 0..MaxSubmissions <=> m \in Nat /\ m <= MaxSubmissions
  BY PagesAssumption DEF Submissions

LEMMA Initially == Init => IInv
<1> SUFFICES ASSUME Init PROVE IInv
  OBVIOUS
<1>1. /\ n = 0 /\ button = "enabled" /\ timeline = <<>> /\ tab \in {"research", "compare", "pack"}
      /\ status = 0 /\ outcome = 0 /\ error = 0 /\ columns = 0 /\ summary = 0
      /\ fetching = {} /\ late = {} /\ silent = {}
      /\ \A s \in Submissions : phase[s] = "none" /\ got[s] = 0
  BY DEF Init
<1>2. Types
  <2>1. run \in [Submissions -> Runs]
    <3>1. PICK length \in Lengths : TRUE
      BY PagesAssumption
    <3>2. [length |-> length, ending |-> "done"] \in Runs
      BY DEF Runs
    <3>3. (CHOOSE x \in Runs : TRUE) \in Runs
      BY <3>2
    <3>4. QED
      BY <3>3 DEF Init
  <2>2. phase \in [Submissions -> Phases] /\ got \in [Submissions -> Nat]
    BY DEF Init, Phases
  <2>3. timeline \in Seq(Submissions \X Nat) /\ 0 \in 0..MaxSubmissions
    BY <1>1, EmptySeq, PagesAssumption
  <2>4. QED
    BY <1>1, <2>1, <2>2, <2>3 DEF Types
<1>3. Waits
  <2>1. \A s \in Submissions : s > n
    BY <1>1, PagesAssumption DEF Submissions
  <2>2. QED
    BY <1>1, <2>1 DEF Waits
<1>4. Halves
  BY <1>1, <1>2, FramesAreNatural DEF Halves
<1>5. Listed /\ Told
  BY <1>1 DEF Listed, Told
<1>6. Owned
  BY <1>1 DEF Owned, Pending
<1>7. QED
  BY <1>2, <1>3, <1>4, <1>5, <1>6 DEF IInv

-----------------------------------------------------------------------------
(* The research page.                                                      *)

LEMMA SubmitKeeps ==
    ASSUME IInv, Submit
    PROVE  IInv'
<1>1. Types /\ Waits /\ Halves /\ Owned
  BY DEF IInv
<1>0. PICK m \in Submissions : m = n + 1 /\ n \in Nat
  BY <1>1, PagesAssumption DEF Submit, Types, Submissions
<1>2. n' = m /\ m # n /\ m # 0
      /\ tab = "research" /\ tab' = tab /\ button = "enabled" /\ button' = "disabled"
      /\ timeline' = <<>> /\ status' = m /\ outcome' = 0 /\ error' = 0
      /\ late' = late \cup fetching /\ fetching' = fetching
      /\ columns' = columns /\ summary' = summary /\ got' = got /\ silent' = silent
  BY <1>0 DEF Submit, files
<1>3. /\ phase' \in [Submissions -> Phases] /\ phase'[m] = "asked"
      /\ \A s \in Submissions : s # m => phase'[s] = phase[s]
  BY <1>0, <1>1 DEF Submit, Goto, Types, Phases
<1>4. PICK x \in Runs : run' = [run EXCEPT ![m] = x]
  BY <1>0 DEF Submit
<1>5. run' \in [Submissions -> Runs] /\ \A s \in Submissions : s # m => run'[s] = run[s]
  BY <1>1, <1>4 DEF Types
<1>6. Types'
  <2>1. m \in 0..MaxSubmissions /\ 0 \in 0..MaxSubmissions
    BY <1>0, PagesAssumption DEF Submissions
  <2>2. timeline' \in Seq(Submissions \X Nat)
    BY <1>2, EmptySeq
  <2>3. QED
    BY <1>1, <1>2, <1>3, <1>5, <2>1, <2>2 DEF Types
<1>7. \A s \in Submissions : s \in Nat /\ (s # m => (s > m <=> s > n))
  BY <1>0, PagesAssumption DEF Submissions
<1>8. Waits'
  <2>1. ASSUME NEW s \in Submissions
        PROVE  /\ phase'[s] = "none" <=> s > m
               /\ phase'[s] \in {"asked", "reading"} <=> s = m
               /\ phase'[s] \notin {"reading files", "posted"}
    <3>1. CASE s = m
      <4>1. ~(m > m)
        BY <1>7
      <4>2. QED
        BY <1>3, <3>1, <4>1
    <3>2. CASE s # m
      BY <1>1, <1>2, <1>3, <1>7, <3>2 DEF Waits
    <3>3. QED
      BY <3>1, <3>2
  <2>2. QED
    BY <1>2, <2>1 DEF Waits
<1>9. got[m] = 0
  <2>1. m > n
    BY <1>0
  <2>2. phase[m] = "none"
    BY <1>1, <2>1 DEF Waits
  <2>3. QED
    BY <1>1, <2>2 DEF Halves
<1>10. run'[m].length \in Nat
  BY <1>5, PagesAssumption DEF Runs
<1>11. Halves'
  <2>1. ASSUME NEW s \in Submissions
        PROVE  /\ got'[s] <= 2 * (run'[s].length + 1)
               /\ phase'[s] = "reading" => got'[s] < 2 * (run'[s].length + 1)
               /\ phase'[s] \in {"none", "asked"} => got'[s] = 0
    <3>1. CASE s = m
      BY <1>2, <1>3, <1>9, <1>10, <3>1
    <3>2. CASE s # m
      BY <1>1, <1>2, <1>3, <1>5, <3>2 DEF Halves, Frames
    <3>3. QED
      BY <3>1, <3>2
  <2>2. QED
    BY <2>1 DEF Halves, Frames
<1>12. Listed'
  <2>1. got[m] # 2 * (run'[m].length + 1) /\ got[m] \div 2 = 0
    BY <1>9, <1>10
  <2>2. QED
    BY <1>2, <2>1 DEF Listed, Frames
<1>13. Owned'
  <2>1. Pending' = {}
    BY <1>2, <1>8 DEF Pending, Waits
  <2>2. QED
    BY <1>1, <1>2, <2>1 DEF Owned
<1>14. Told'
  BY <1>2, <1>3 DEF Told
<1>15. QED
  BY <1>6, <1>8, <1>11, <1>12, <1>13, <1>14 DEF IInv

\* One submission goes on to wait for something else.
LEMMA Going ==
    ASSUME Types, NEW s \in Submissions, NEW label \in Phases, Goto(s, label)
    PROVE  /\ phase' \in [Submissions -> Phases] /\ phase'[s] = label
           /\ \A t \in Submissions : t # s => phase'[t] = phase[t]
  BY DEF Goto, Types

\* A stream under way is the last submission's.
LEMMA Streaming ==
    ASSUME IInv, NEW s \in Submissions, phase[s] \in {"asked", "reading"}
    PROVE  s = n /\ n # 0 /\ button = "disabled" /\ tab = "research"
  BY DEF IInv, Waits

LEMMA StreamStartsKeeps ==
    ASSUME IInv, NEW s \in Submissions, StreamStarts(s)
    PROVE  IInv'
<1>1. Types /\ Waits /\ Halves /\ Listed /\ Owned /\ Told
  BY DEF IInv
<1>2. /\ s = n /\ n # 0 /\ button = "disabled" /\ tab = "research" /\ phase[s] = "asked"
      /\ UNCHANGED <<tab, n, run, got, live, files, error, late, silent>>
  BY Streaming DEF StreamStarts
<1>3. /\ phase' \in [Submissions -> Phases] /\ phase'[s] = "reading"
      /\ \A t \in Submissions : t # s => phase'[t] = phase[t]
  <2>1. Goto(s, "reading") /\ "reading" \in Phases
    BY DEF StreamStarts, Phases
  <2>2. QED
    BY <1>1, <2>1, Going
<1>4. Types'
  BY <1>1, <1>2, <1>3 DEF Types, live, files
<1>5. Waits'
  BY <1>1, <1>2, <1>3 DEF Waits, live
<1>6. Halves'
  <2>1. got[s] = 0 /\ Frames(s) \in Nat \ {0}
    BY <1>1, <1>2, FramesAreNatural DEF Halves
  <2>2. ASSUME NEW t \in Submissions
        PROVE  /\ got[t] <= 2 * Frames(t)
               /\ phase'[t] = "reading" => got[t] < 2 * Frames(t)
               /\ phase'[t] \in {"none", "asked"} => got[t] = 0
    BY <1>1, <1>3, <2>1 DEF Halves
  <2>3. QED
    BY <1>2, <2>2 DEF Halves, Frames
<1>7. Listed' /\ Told'
  BY <1>1, <1>2, <1>3 DEF Listed, Told, Frames, live
<1>8. Owned'
  <2>1. Pending' = Pending
    BY <1>2, <1>3 DEF Pending
  <2>2. QED
    BY <1>1, <1>2, <2>1 DEF Owned, live, files
<1>9. QED
  BY <1>4, <1>5, <1>6, <1>7, <1>8 DEF IInv

\* The end of a stream gives the button back.
LEMMA StreamEnds ==
    ASSUME IInv, NEW s \in Submissions, phase[s] \in {"asked", "reading"}, Goto(s, "over"),
           button' = "enabled", UNCHANGED <<tab, n, run, outcome, columns, summary>>,
           tab = "research"
    PROVE  /\ phase' \in [Submissions -> Phases] /\ phase'[s] = "over"
           /\ \A t \in Submissions : t # s => phase'[t] = phase[t]
           /\ Waits' /\ Pending' = Pending
<1>1. Types /\ Waits /\ s = n /\ n # 0
  BY Streaming DEF IInv
<1>2. /\ phase' \in [Submissions -> Phases] /\ phase'[s] = "over"
      /\ \A t \in Submissions : t # s => phase'[t] = phase[t]
  BY <1>1, Going DEF Phases
<1>3. \A t \in Submissions : phase[t] = "none" <=> t > n
  BY <1>1 DEF Waits
<1>4. Waits'
  <2>1. ASSUME NEW t \in Submissions
        PROVE  /\ phase'[t] = "none" <=> t > n
               /\ phase'[t] \notin {"asked", "reading", "reading files", "posted"}
    <3>1. CASE t = s
      BY <1>2, <1>3, <3>1
    <3>2. CASE t # s
      BY <1>1, <1>2, <1>3, <3>2 DEF Waits
    <3>3. QED
      BY <3>1, <3>2
  <2>2. QED
    BY <2>1 DEF Waits
<1>5. Pending' = Pending
  BY <1>1, <1>2 DEF Pending
<1>6. QED
  BY <1>2, <1>4, <1>5

LEMMA StreamFailsKeeps ==
    ASSUME IInv, NEW s \in Submissions, StreamFails(s)
    PROVE  IInv'
<1>1. Types /\ Waits /\ Halves /\ Listed /\ Owned
  BY DEF IInv
<1>2. /\ s = n /\ tab = "research" /\ phase[s] \in {"asked", "reading"} /\ Goto(s, "over")
      /\ error' = s /\ button' = "enabled"
      /\ UNCHANGED <<tab, n, run, got, timeline, status, outcome, fetching, files, late, silent>>
  BY Streaming DEF StreamFails
<1>3. /\ phase' \in [Submissions -> Phases] /\ phase'[s] = "over"
      /\ \A t \in Submissions : t # s => phase'[t] = phase[t]
      /\ Waits' /\ Pending' = Pending
  BY <1>2, StreamEnds DEF files
<1>4. Types'
  <2>1. error' \in 0..MaxSubmissions
    BY <1>1, <1>2 DEF Types
  <2>2. QED
    BY <1>1, <1>2, <1>3, <2>1 DEF Types, files
<1>5. Halves'
  BY <1>1, <1>2, <1>3 DEF Halves, Frames
<1>6. Listed' /\ Told'
  BY <1>1, <1>2 DEF Listed, Told, Frames
<1>7. Owned'
  BY <1>1, <1>2, <1>3 DEF Owned, files
<1>8. QED
  BY <1>3, <1>4, <1>5, <1>6, <1>7 DEF IInv

LEMMA StreamBreaksOffKeeps ==
    ASSUME IInv, NEW s \in Submissions, StreamBreaksOff(s)
    PROVE  IInv'
<1>1. Types /\ Waits /\ Halves /\ Listed /\ Owned
  BY DEF IInv
<1>2. /\ s = n /\ tab = "research" /\ phase[s] \in {"asked", "reading"} /\ Goto(s, "over")
      /\ button' = "enabled" /\ silent' = silent \cup {s}
      /\ UNCHANGED <<tab, n, run, got, timeline, status, outcome, fetching, files, error, late>>
  BY Streaming DEF StreamBreaksOff
<1>3. /\ phase' \in [Submissions -> Phases] /\ phase'[s] = "over"
      /\ \A t \in Submissions : t # s => phase'[t] = phase[t]
      /\ Waits' /\ Pending' = Pending
  BY <1>2, StreamEnds DEF files
<1>4. Types'
  BY <1>1, <1>2, <1>3 DEF Types, files
<1>5. Halves'
  BY <1>1, <1>2, <1>3 DEF Halves, Frames
<1>6. Listed' /\ Told'
  BY <1>1, <1>2 DEF Listed, Told, Frames
<1>7. Owned'
  BY <1>1, <1>2, <1>3 DEF Owned, files
<1>8. QED
  BY <1>3, <1>4, <1>5, <1>6, <1>7 DEF IInv

LEMMA ArtifactComesKeeps ==
    ASSUME IInv, NEW s \in Submissions, ArtifactComes(s)
    PROVE  IInv'
<1>1. Types /\ Waits /\ Halves /\ Listed /\ Owned /\ Told
  BY DEF IInv
<1>2. /\ s \in fetching /\ fetching' = fetching \ {s} /\ status' = s /\ outcome' = s
      /\ UNCHANGED <<tab, n, wire, button, timeline, files, error, late, silent>>
      /\ tab = "research" /\ s \in {n} \cup late /\ s # 0 /\ s \in 0..MaxSubmissions
  <2>1. /\ s \in fetching /\ fetching' = fetching \ {s} /\ status' = s /\ outcome' = s
        /\ UNCHANGED <<tab, n, wire, button, timeline, files, error, late, silent>>
    BY DEF ArtifactComes
  <2>2. tab = "research"
    BY <1>1, <2>1 DEF Waits
  <2>3. s \in {n} \cup late
    BY <1>1, <2>1 DEF Owned
  <2>4. s # 0 /\ s \in 0..MaxSubmissions
    BY PagesAssumption DEF Submissions
  <2>5. QED
    BY <2>1, <2>2, <2>3, <2>4
<1>3. Types'
  BY <1>1, <1>2 DEF Types, wire, files
<1>4. Waits' /\ Halves' /\ Listed'
  BY <1>1, <1>2 DEF Waits, Halves, Listed, Frames, wire
<1>5. Owned'
  BY <1>1, <1>2 DEF Owned, Pending, wire, files
<1>6. Told'
  BY <1>1, <1>2 DEF Told, Frames, wire
<1>7. QED
  BY <1>3, <1>4, <1>5, <1>6 DEF IInv

LEMMA ArtifactFailsKeeps ==
    ASSUME IInv, NEW s \in Submissions, ArtifactFails(s)
    PROVE  IInv'
<1>1. Types /\ Waits /\ Halves /\ Listed /\ Owned /\ Told
  BY DEF IInv
<1>2. /\ fetching' = fetching \ {s} /\ silent' = silent \cup {s}
      /\ UNCHANGED <<tab, n, wire, button, timeline, status, outcome, files, error, late>>
  BY DEF ArtifactFails
<1>3. Types'
  BY <1>1, <1>2 DEF Types, wire, files
<1>4. Waits' /\ Halves' /\ Listed'
  BY <1>1, <1>2 DEF Waits, Halves, Listed, Frames, wire
<1>5. Owned'
  BY <1>1, <1>2 DEF Owned, Pending, wire, files
<1>6. Told'
  BY <1>1, <1>2 DEF Told, Frames, wire
<1>7. QED
  BY <1>3, <1>4, <1>5, <1>6 DEF IInv

\* The frames a piece completes, and what it adds to the timeline.
Whole(from, upto) == (from \div 2 + 1)..(upto \div 2)

LEMMA PieceLists ==
    ASSUME NEW length \in Nat, NEW from \in Nat, NEW upto \in Nat,
           from < upto, upto <= 2 * (length + 1)
    PROVE  /\ length + 1 \in Whole(from, upto) <=> upto = 2 * (length + 1)
           /\ Cardinality(Whole(from, upto) \ {length + 1}) \in Nat
           /\ from \div 2 + Cardinality(Whole(from, upto) \ {length + 1}) =
                 IF upto = 2 * (length + 1) THEN length ELSE upto \div 2
<1> DEFINE whole == Whole(from, upto)
           a == from \div 2
           b == upto \div 2
           last == IF upto = 2 * (length + 1) THEN length ELSE b
<1>1. /\ a \in Nat /\ b \in Nat /\ upto \in Nat /\ upto > from /\ upto <= 2 * (length + 1)
      /\ 2 * a <= from /\ from < 2 * a + 2 /\ 2 * b <= upto /\ upto < 2 * b + 2
  OBVIOUS
<1> HIDE DEF a, b
<1>2. /\ a <= length /\ a <= b /\ b <= length + 1
      /\ b = length + 1 <=> upto = 2 * (length + 1)
  <2>1. a <= length /\ a <= b /\ b <= length + 1
    BY <1>1
  <2>2. b = length + 1 => upto = 2 * (length + 1)
    BY <1>1
  <2>3. upto = 2 * (length + 1) => b = length + 1
    BY <1>1
  <2>4. QED
    BY <2>1, <2>2, <2>3
<1>3. whole = (a + 1)..b
  BY DEF a, b, Whole
<1> HIDE DEF whole
<1>4. length + 1 \in whole <=> upto = 2 * (length + 1)
  BY <1>1, <1>2, <1>3
<1>5. last \in Nat /\ a <= last /\ whole \ {length + 1} = (a + 1)..last
  <2>1. CASE upto = 2 * (length + 1)
    BY <1>1, <1>2, <1>3, <2>1
  <2>2. CASE upto # 2 * (length + 1)
    BY <1>1, <1>2, <1>3, <2>2
  <2>3. QED
    BY <2>1, <2>2
<1> HIDE DEF last
<1>6. Cardinality((a + 1)..last) = last - a
  <2>1. a + 1 \in Int /\ last \in Int
    BY <1>1, <1>5
  <2>2. Cardinality((a + 1)..last) = IF a + 1 > last THEN 0 ELSE last - (a + 1) + 1
    BY ONLY <2>1, FS_Interval
  <2>3. QED
    BY <1>1, <1>5, <2>2
<1>7. Cardinality(whole \ {length + 1}) = last - a
  BY <1>5, <1>6
<1>8. a + Cardinality(whole \ {length + 1}) = last /\ Cardinality(whole \ {length + 1}) \in Nat
  BY <1>1, <1>5, <1>7
<1>9. QED
  BY <1>4, <1>8 DEF a, b, last, whole

LEMMA TimelineGrows ==
    ASSUME NEW s \in Submissions, NEW list \in Seq(Submissions \X Nat), NEW k \in Nat,
           NEW next, next = Len(list) + 1,
           NEW now, now = list \o [i \in 1..k |-> <<s, next + i - 1>>]
    PROVE  /\ now \in Seq(Submissions \X Nat) /\ Len(now) = Len(list) + k
           /\ \A i \in 1..Len(list) : now[i] = list[i]
           /\ \A i \in (Len(list) + 1)..Len(now) : now[i] = <<s, i>>
<1> DEFINE more == [i \in 1..k |-> <<s, next + i - 1>>]
<1>1. more \in Seq(Submissions \X Nat) /\ Len(more) = k
  <2>1. \A i \in 1..k : more[i] \in Submissions \X Nat
    OBVIOUS
  <2>2. QED
    BY <2>1
<1>2. \A i \in 1..k : more[i] = <<s, Len(list) + i>>
  OBVIOUS
<1>3. now = list \o more
  OBVIOUS
<1> HIDE DEF more
<1>4. /\ now \in Seq(Submissions \X Nat) /\ Len(now) = Len(list) + k
      /\ \A i \in 1..Len(list) : now[i] = list[i]
  BY <1>1, <1>3
<1>5. ASSUME NEW i \in (Len(list) + 1)..Len(now) PROVE now[i] = <<s, i>>
  <2>1. \A j \in 1..k : now[Len(list) + j] = more[j]
    <3>1. \A j \in 1..Len(more) : (list \o more)[Len(list) + j] = more[j]
      BY <1>1
    <3>2. QED
      BY <1>1, <1>3, <3>1
  <2>2. PICK j \in 1..k : i = Len(list) + j
    <3>1. i - Len(list) \in 1..k /\ i = Len(list) + (i - Len(list))
      BY <1>4
    <3>2. QED
      BY <3>1
  <2>3. QED
    BY <1>2, <2>1, <2>2
<1>6. QED
  BY <1>4, <1>5

LEMMA ReadPieceKeeps ==
    ASSUME IInv, NEW s \in Submissions, ReadPiece(s)
    PROVE  IInv'
<1>1. Types /\ Waits /\ Halves /\ Listed /\ Owned /\ Told
  BY DEF IInv
<1>2. /\ s = n /\ n # 0 /\ button = "disabled" /\ tab = "research" /\ phase[s] = "reading"
      /\ UNCHANGED <<tab, n, run, status, outcome, files, late, silent>>
  BY Streaming DEF ReadPiece
<1>3. /\ run[s].length \in Nat /\ Frames(s) = run[s].length + 1 /\ got[s] \in Nat
      /\ got[s] < 2 * Frames(s)
      /\ Len(timeline) = got[s] \div 2 /\ timeline \in Seq(Submissions \X Nat)
  <2>1. run[s].length \in Nat /\ Frames(s) = run[s].length + 1
    BY <1>1, FramesAreNatural
  <2>2. got[s] \in Nat /\ timeline \in Seq(Submissions \X Nat)
    BY <1>1 DEF Types
  <2>3. got[s] < 2 * Frames(s)
    BY <1>1, <1>2 DEF Halves
  <2>4. Len(timeline) = IF got[s] = 2 * Frames(s) THEN run[s].length ELSE got[s] \div 2
    BY <1>1, <1>2 DEF Listed
  <2>5. got[s] # 2 * Frames(s)
    BY <2>1, <2>2, <2>3
  <2>6. QED
    BY <2>1, <2>2, <2>3, <2>4, <2>5
<1>4. PICK upto \in (got[s] + 1)..(2 * Frames(s)) :
         LET whole == NextFrame(s)..(upto \div 2)
             ended == Frames(s) \in whole
             traces == Cardinality(whole \ {Frames(s)})
         IN  /\ got' = [got EXCEPT ![s] = upto]
             /\ timeline' = timeline \o [i \in 1..traces |-> <<s, NextFrame(s) + i - 1>>]
             /\ error' = IF ended /\ run[s].ending = "error" THEN s ELSE error
             /\ fetching' = IF ended /\ run[s].ending = "done" THEN fetching \cup {s} ELSE fetching
             /\ AfterPiece(s, ended)
  BY DEF ReadPiece
<1> DEFINE whole == NextFrame(s)..(upto \div 2)
           traces == Cardinality(whole \ {Frames(s)})
           ended == upto = 2 * Frames(s)
<1>5. /\ Frames(s) \in whole <=> ended
      /\ traces \in Nat
      /\ Len(timeline) + traces = IF ended THEN run[s].length ELSE upto \div 2
  <2> DEFINE length == run[s].length
             from == got[s]
  <2>1. /\ length \in Nat /\ from \in Nat /\ upto \in Nat
        /\ from < upto /\ upto <= 2 * (length + 1) /\ whole = Whole(from, upto)
    BY <1>3 DEF NextFrame, Whole
  <2> HIDE DEF whole, length, from
  <2>2. /\ length + 1 \in whole <=> upto = 2 * (length + 1)
        /\ Cardinality(whole \ {length + 1}) \in Nat
        /\ from \div 2 + Cardinality(whole \ {length + 1}) =
              IF upto = 2 * (length + 1) THEN length ELSE upto \div 2
    BY ONLY <2>1, PieceLists
  <2>3. Frames(s) = length + 1 /\ Len(timeline) = from \div 2
    BY <1>3 DEF length, from
  <2>4. QED
    BY <2>2, <2>3 DEF length
<1>6. /\ upto \in Nat /\ upto > got[s] /\ upto <= 2 * Frames(s)
      /\ got' \in [Submissions -> Nat] /\ got'[s] = upto
      /\ \A t \in Submissions : t # s => got'[t] = got[t]
  <2>1. got' = [got EXCEPT ![s] = upto]
    BY <1>4
  <2>2. upto \in Nat /\ upto > got[s] /\ upto <= 2 * Frames(s)
    BY <1>3
  <2>3. QED
    BY <1>1, <2>1, <2>2 DEF Types
<1>7. /\ timeline' = timeline \o [i \in 1..traces |-> <<s, NextFrame(s) + i - 1>>]
      /\ error' = IF ended /\ run[s].ending = "error" THEN s ELSE error
      /\ fetching' = IF ended /\ run[s].ending = "done" THEN fetching \cup {s} ELSE fetching
      /\ AfterPiece(s, ended)
  BY <1>4, <1>5
<1> HIDE DEF traces, whole, ended
<1>9. /\ timeline' \in Seq(Submissions \X Nat)
      /\ Len(timeline') = Len(timeline) + traces
      /\ \A i \in 1..Len(timeline) : timeline'[i] = timeline[i]
      /\ \A i \in (Len(timeline) + 1)..Len(timeline') : timeline'[i] = <<n, i>>
  <2>1. NextFrame(s) = Len(timeline) + 1 /\ timeline \in Seq(Submissions \X Nat)
    BY <1>3 DEF NextFrame
  <2>2. QED
    BY <1>2, <1>5, <1>7, <2>1, TimelineGrows
<1>10. Listed'
  <2>1. \A i \in 1..Len(timeline') : timeline'[i] = <<n, i>>
    <3>1. \A i \in 1..Len(timeline') : i \in 1..Len(timeline) \/ i \in (Len(timeline) + 1)..Len(timeline')
      BY <1>3, <1>9
    <3>2. QED
      BY <1>1, <1>9, <3>1 DEF Listed
  <2>2. Len(timeline') = IF got'[n] = 2 * (run'[n].length + 1) THEN run'[n].length ELSE got'[n] \div 2
    BY <1>2, <1>3, <1>5, <1>6, <1>9 DEF ended
  <2>3. QED
    BY <1>2, <2>1, <2>2 DEF Listed, Frames
<1>11. error' \in {error, n} /\ fetching' \subseteq fetching \cup {n} /\ fetching \subseteq fetching'
  BY <1>2, <1>7
<1>12. CASE ~ended
  <2>1. UNCHANGED <<phase, button, error, fetching>>
    BY <1>7, <1>12 DEF AfterPiece
  <2>2. Types'
    BY <1>1, <1>2, <1>6, <1>9, <2>1 DEF Types, files
  <2>3. Waits'
    BY <1>1, <1>2, <2>1 DEF Waits
  <2>4. Halves'
    <3>1. upto < 2 * Frames(s)
      <4>1. run[s].length \in Nat /\ Frames(s) = run[s].length + 1
            /\ upto \in Nat /\ upto <= 2 * Frames(s) /\ upto # 2 * Frames(s)
        BY <1>3, <1>6, <1>12 DEF ended
      <4>2. QED
        BY ONLY <4>1
    <3>2. ASSUME NEW t \in Submissions
          PROVE  /\ got'[t] <= 2 * Frames(t)
                 /\ phase[t] = "reading" => got'[t] < 2 * Frames(t)
                 /\ phase[t] \in {"none", "asked"} => got'[t] = 0
      BY <1>1, <1>2, <1>6, <3>1 DEF Halves
    <3>3. QED
      BY <1>2, <2>1, <3>2 DEF Halves, Frames
  <2>5. Owned' /\ Told'
    BY <1>1, <1>2, <2>1 DEF Owned, Told, Pending, files
  <2>6. QED
    BY <1>10, <2>2, <2>3, <2>4, <2>5 DEF IInv
<1>13. CASE ended
  <2>1. Goto(s, "over") /\ button' = "enabled"
    BY <1>7, <1>13 DEF AfterPiece
  <2>2. /\ phase' \in [Submissions -> Phases] /\ phase'[s] = "over"
        /\ \A t \in Submissions : t # s => phase'[t] = phase[t]
        /\ Pending' = Pending
        /\ \A t \in Submissions :
              /\ phase'[t] = "none" <=> t > n
              /\ phase'[t] \notin {"asked", "reading", "reading files", "posted"}
    <3>1. /\ phase' \in [Submissions -> Phases] /\ phase'[s] = "over"
          /\ \A t \in Submissions : t # s => phase'[t] = phase[t]
      BY <1>1, <2>1, Going DEF Phases
    <3>2. ASSUME NEW t \in Submissions
          PROVE  /\ phase'[t] = "none" <=> t > n
                 /\ phase'[t] \notin {"asked", "reading", "reading files", "posted"}
      <4>1. CASE t = s
        BY <1>1, <1>2, <3>1, <4>1 DEF Waits
      <4>2. CASE t # s
        BY <1>1, <1>2, <3>1, <4>2 DEF Waits
      <4>3. QED
        BY <4>1, <4>2
    <3>3. Pending' = Pending
      BY <1>2, <3>1 DEF Pending
    <3>4. QED
      BY <3>1, <3>2, <3>3
  <2>3. Types'
    <3>1. error' \in 0..MaxSubmissions /\ fetching' \subseteq Submissions
      BY <1>1, <1>2, <1>11 DEF Types
    <3>2. QED
      BY <1>1, <1>2, <1>6, <1>9, <2>1, <2>2, <3>1 DEF Types, files
  <2>4. Waits'
    BY <1>2, <2>1, <2>2 DEF Waits
  <2>5. Halves'
    <3>1. ASSUME NEW t \in Submissions
          PROVE  /\ got'[t] <= 2 * Frames(t)
                 /\ phase'[t] = "reading" => got'[t] < 2 * Frames(t)
                 /\ phase'[t] \in {"none", "asked"} => got'[t] = 0
      BY <1>1, <1>2, <1>6, <2>2 DEF Halves
    <3>2. QED
      BY <1>2, <3>1 DEF Halves, Frames
  <2>6. Owned'
    BY <1>1, <1>2, <1>11, <2>2 DEF Owned, files
  <2>7. Told'
    <3>1. run[s].ending \in {"done", "error"}
      BY <1>1 DEF Types, Runs
    <3>2. error' = n \/ (got'[n] = 2 * Frames(n) /\ n \in fetching')
      BY <1>2, <1>6, <1>7, <1>13, <3>1 DEF ended
    <3>3. QED
      BY <1>2, <3>2 DEF Told, Frames
  <2>8. QED
    BY <1>10, <2>3, <2>4, <2>5, <2>6, <2>7 DEF IInv
<1>14. QED
  BY <1>12, <1>13

-----------------------------------------------------------------------------
(* The compare and pack pages.                                             *)

LEMMA SubmitFilesKeeps ==
    ASSUME IInv, SubmitFiles
    PROVE  IInv'
<1>1. Types /\ Waits /\ Halves /\ Owned
  BY DEF IInv
<1>0. PICK m \in Submissions : m = n + 1 /\ n \in Nat
  <2>1. n < MaxSubmissions /\ n \in 0..MaxSubmissions
    BY <1>1 DEF SubmitFiles, Types
  <2>2. n + 1 \in Nat /\ n + 1 # 0 /\ n + 1 <= MaxSubmissions /\ n \in Nat
    BY <2>1, PagesAssumption
  <2>3. QED
    BY <2>2, Numbers
<1>2. /\ tab # "research" /\ n' = m /\ m # n /\ m # 0 /\ Goto(m, "reading files")
      /\ error' = 0 /\ columns' = 0 /\ summary' = 0 /\ late' = late \cup Pending
      /\ UNCHANGED <<tab, run, got, button, timeline, status, outcome, fetching, silent>>
  <2>1. m # n /\ m # 0
    BY <1>0
  <2>2. QED
    BY <1>0, <2>1 DEF SubmitFiles, live
<1>3. /\ button = "enabled" /\ fetching = {} /\ timeline = <<>> /\ outcome = 0
  BY <1>1, <1>2 DEF Types, Waits
<1>4. /\ phase' \in [Submissions -> Phases] /\ phase'[m] = "reading files"
      /\ \A t \in Submissions : t # m => phase'[t] = phase[t]
  BY <1>1, <1>2, Going DEF Phases
<1>5. Types'
  <2>1. m \in 0..MaxSubmissions /\ 0 \in 0..MaxSubmissions
    BY Numbers, PagesAssumption
  <2>2. Pending \subseteq Submissions
    BY DEF Pending
  <2>3. QED
    BY <1>1, <1>2, <1>4, <2>1, <2>2 DEF Types
<1>6. \A s \in Submissions : s \in Nat /\ (s # m => (s > m <=> s > n)) /\ ~(m > m)
  BY <1>0, PagesAssumption DEF Submissions
<1>7. Waits'
  <2>1. ASSUME NEW s \in Submissions
        PROVE  /\ phase'[s] = "none" <=> s > m
               /\ phase'[s] \notin {"asked", "reading"}
    <3>1. CASE s = m
      BY <1>4, <1>6, <3>1
    <3>2. CASE s # m
      BY <1>1, <1>3, <1>4, <1>6, <3>2 DEF Waits
    <3>3. QED
      BY <3>1, <3>2
  <2>2. QED
    BY <1>2, <1>3, <2>1 DEF Waits
<1>8. Halves'
  BY <1>1, <1>2, <1>4 DEF Halves, Frames
<1>9. Listed' /\ Told'
  <2>1. tab' # "research" /\ timeline' = <<>>
    BY <1>2, <1>3
  <2>2. QED
    BY <2>1 DEF Listed, Told
<1>10. Owned'
  <2>1. Pending' \subseteq {m} \cup Pending
    BY <1>4 DEF Pending
  <2>2. QED
    BY <1>1, <1>2, <1>3, <2>1 DEF Owned
<1>11. QED
  BY <1>5, <1>7, <1>8, <1>9, <1>10 DEF IInv

LEMMA FilesStepKeeps ==
    ASSUME IInv, NEW s \in Submissions, FilesStep(s)
    PROVE  IInv'
<1>1. Types /\ Waits /\ Halves /\ Listed /\ Owned
  BY DEF IInv
<1>2. /\ phase[s] \in {"reading files", "posted"}
      /\ Goto(s, "posted") \/ Goto(s, "over")
      /\ UNCHANGED <<tab, n, run, got, button, timeline, status, outcome, fetching, late, silent>>
      /\ error' \in {error, s} /\ columns' \in {columns, s} /\ summary' \in {summary, s}
  <2>1. CASE FilesRead(s)
    BY <2>1 DEF FilesRead, live
  <2>2. CASE ResultComes(s)
    BY <2>2 DEF ResultComes, live
  <2>3. CASE FilesFail(s)
    BY <2>3 DEF FilesFail, live, files, Pending
  <2>4. QED
    BY <2>1, <2>2, <2>3 DEF FilesStep
<1>3. /\ phase' \in [Submissions -> Phases] /\ phase'[s] \in {"posted", "over"}
      /\ \A t \in Submissions : t # s => phase'[t] = phase[t]
  BY <1>1, <1>2, Going DEF Phases
<1>4. tab # "research" /\ s \in {n} \cup late /\ s \in Pending
  BY <1>1, <1>2 DEF Waits, Owned, Pending
<1>5. Types'
  <2>1. s \in 0..MaxSubmissions
    BY PagesAssumption DEF Submissions
  <2>2. QED
    BY <1>1, <1>2, <1>3, <2>1 DEF Types
<1>6. Waits'
  <2>1. ASSUME NEW t \in Submissions
        PROVE  /\ phase'[t] = "none" <=> t > n
               /\ phase'[t] \in {"asked", "reading"} <=> t = n /\ button = "disabled"
    BY <1>1, <1>2, <1>3 DEF Waits
  <2>2. QED
    BY <1>1, <1>2, <1>4, <2>1 DEF Waits
<1>7. Halves'
  BY <1>1, <1>2, <1>3 DEF Halves, Frames
<1>8. Listed' /\ Told'
  BY <1>1, <1>2, <1>4 DEF Listed, Told
<1>9. Owned'
  <2>1. Pending' \subseteq Pending
    BY <1>3, <1>4 DEF Pending
  <2>2. QED
    BY <1>1, <1>2, <1>4, <2>1 DEF Owned
<1>10. QED
  BY <1>5, <1>6, <1>7, <1>8, <1>9 DEF IInv

-----------------------------------------------------------------------------
(* The theorems.                                                           *)

LEMMA IInvAlways == Spec => []IInv
<1>1. IInv /\ [Next]_vars => IInv'
  <2> SUFFICES ASSUME IInv, [Next]_vars PROVE IInv'
    OBVIOUS
  <2>1. CASE Submit \/ SubmitFiles
    BY <2>1, SubmitKeeps, SubmitFilesKeeps
  <2>2. ASSUME NEW s \in Submissions, ResearchStep(s) PROVE IInv'
    BY <2>2, StreamStartsKeeps, StreamFailsKeeps, ReadPieceKeeps, StreamBreaksOffKeeps,
       ArtifactComesKeeps, ArtifactFailsKeeps DEF ResearchStep
  <2>3. ASSUME NEW s \in Submissions, FilesStep(s) PROVE IInv'
    BY <2>3, FilesStepKeeps
  <2>4. CASE UNCHANGED vars
    BY <2>4 DEF IInv, Types, Waits, Halves, Listed, Owned, Told, Frames, Pending,
                vars, wire, live, files
  <2>5. QED
    BY <2>1, <2>2, <2>3, <2>4 DEF Next
<1>2. QED
  BY <1>1, Initially, PTL DEF Spec

(***************************************************************************)
(* The page's variables keep their shapes, and the button is disabled      *)
(* exactly while one stream, never a second, is asked for or read.         *)
(***************************************************************************)
THEOREM TypeCorrect == Spec => []TypeOK
<1>1. ASSUME IInv PROVE TypeOK
  <2>1. Types /\ Waits /\ Halves
    BY <1>1 DEF IInv
  <2>2. \A s \in Submissions : got[s] \in 0..(2 * Frames(s))
    BY <2>1, FramesAreNatural DEF Types, Halves
  <2>3. Cardinality({s \in Submissions : phase[s] \in {"asked", "reading"}})
           = IF button = "disabled" THEN 1 ELSE 0
    <3>1. CASE button = "disabled"
      <4>1. n \in Submissions
        BY <2>1, <3>1, Numbers DEF Types, Waits
      <4>2. {s \in Submissions : phase[s] \in {"asked", "reading"}} = {n}
        BY <2>1, <3>1, <4>1 DEF Waits
      <4>3. QED
        BY <3>1, <4>2, FS_Singleton
    <3>2. CASE button # "disabled"
      <4>1. {s \in Submissions : phase[s] \in {"asked", "reading"}} = {}
        BY <2>1, <3>2 DEF Waits
      <4>2. QED
        BY <3>2, <4>1, FS_EmptySet
    <3>3. QED
      BY <3>1, <3>2
  <2>4. QED
    BY <2>1, <2>2, <2>3 DEF TypeOK, Types, Phases
<1>2. QED
  BY <1>1, IInvAlways, PTL

(***************************************************************************)
(* A page shows one run, event by event without a hole; what else it may   *)
(* show was waited for when the page was submitted again.                  *)
(***************************************************************************)
THEOREM PageAlwaysShowsOneRun == Spec => []PageShowsOneRun
<1>1. IInv => PageShowsOneRun
  BY DEF IInv, Listed, Owned, PageShowsOneRun
<1>2. QED
  BY <1>1, IInvAlways, PTL

(***************************************************************************)
(* A research page at rest has told the user how the run ended, unless the *)
(* stream broke off or the artifact could not be fetched.                  *)
(***************************************************************************)
THEOREM NoRunEndsSilently == Spec => []NoSilentEnd
<1>1. ASSUME IInv PROVE NoSilentEnd
  <2>1. SUFFICES ASSUME tab = "research", n > 0, button = "enabled", n \notin fetching \cup silent,
                        error # n
                 PROVE  outcome # 0 /\ Len(timeline) = run[n].length
    BY DEF NoSilentEnd
  <2>2. n \in Submissions /\ n # 0
    BY <1>1, <2>1, PagesAssumption DEF IInv, Types, Submissions
  <2>3. phase[n] = "over"
    <3>1. phase[n] \in Phases /\ ~(n > n)
      BY <1>1, <2>2, PagesAssumption DEF IInv, Types, Submissions
    <3>2. QED
      BY <1>1, <2>1, <2>2, <3>1 DEF IInv, Waits, Phases
  <2>4. got[n] = 2 * Frames(n) /\ outcome # 0
    BY <1>1, <2>1, <2>2, <2>3 DEF IInv, Told
  <2>5. QED
    BY <1>1, <2>1, <2>2, <2>4 DEF IInv, Listed
<1>2. QED
  BY <1>1, IInvAlways, PTL
=============================================================================
