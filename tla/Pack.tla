-------------------------------- MODULE Pack --------------------------------
(***************************************************************************)
(* Experiment packs, pack.py: two runs, their comparison, a policy and     *)
(* ledger records, written to a directory one file after the other over    *)
(* whatever the directory held, and loaded again by whoever reviews them.  *)
(* A write may be interrupted anywhere, a file may be cut short, and a     *)
(* directory may be loaded while it is being written.                      *)
(*                                                                         *)
(* A run is what tells runs apart: its id, its question and the rest of    *)
(* its compared fields as one.  pack_hash is collision free, so it is the  *)
(* content that it is the hash of.                                         *)
(***************************************************************************)
EXTENDS Integers, Sequences

CONSTANTS Ids, Questions, Outcomes,
          Separating,  \* questions holding a line separator JSON leaves unescaped
          Inputs,      \* what packs are built from
          MaxWrites,   \* bound: calls of write_dir
          Derived,     \* no ledger records given: they are derived from the runs
          Absent,      \* a file that is not there
          Torn,        \* text cut short, of a file or of a line
          NoPack, Refused

Artifact == [id : Ids, question : Questions, outcome : Outcomes]

ASSUME PackAssumption ==
    /\ Separating \subseteq Questions
    /\ \A i \in Inputs : i.left \in Artifact /\ i.right \in Artifact
    /\ MaxWrites \in Nat

VARIABLES dir,      \* the directory
          writing,  \* the pack being written, or NoPack
          at,       \* which file is written next
          open,     \* that file is open: truncated and not complete
          given,    \* history: packs write_dir was called with
          intact,   \* history: the pack last written to its end, if none was begun since
          loading,  \* a load is under way
          got,      \* how many files it has read
          seen,     \* and what they held
          loaded,   \* the result of the last load
          promised  \* history: what the last load is to return, or NoPack

writer == <<writing, at, open, given, intact>>
reader == <<loading, got, seen, loaded, promised>>
vars == <<dir, writer, reader>>

-----------------------------------------------------------------------------
(* Building a pack.                                                        *)

Compared == {"question", "outcome"}

CompareRuns(left, right) ==
    LET differing == {f \in Compared : left[f] # right[f]}
    IN  [identical |-> differing = {},
         diffs |-> [f \in differing |-> <<left[f], right[f]>>],
         leftId |-> left.id, rightId |-> right.id]

ExperimentRecord(run) == [id |-> run.id, question |-> run.question, outcome |-> run.outcome]

\* What pack_hash is computed from.
CanonicalPayload(policy, left, right, compare, experiments) ==
    <<policy, left, right, compare, experiments>>

Manifest(policy, left, right, compare, experiments) ==
    [hash |-> CanonicalPayload(policy, left, right, compare, experiments),
     leftId |-> left.id, rightId |-> right.id,
     experimentIds |-> [k \in 1..Len(experiments) |-> experiments[k].id]]

ExperimentPack(policy, left, right, compare, experiments, manifest) ==
    [policy |-> policy, left |-> left, right |-> right, compare |-> compare,
     experiments |-> experiments, manifest |-> manifest]

Build(input) ==
    LET compare == CompareRuns(input.left, input.right)
        experiments == IF input.experiments = Derived
                         THEN <<ExperimentRecord(input.left), ExperimentRecord(input.right)>>
                         ELSE input.experiments
    IN  ExperimentPack(input.policy, input.left, input.right, compare, experiments,
            Manifest(input.policy, input.left, input.right, compare, experiments))

Packs == {Build(i) : i \in Inputs}

-----------------------------------------------------------------------------
(* Files.                                                                  *)

\* The order in which a pack is written, and read.
Order == <<"policy", "run_a", "run_b", "compare", "manifest", "experiments">>
Place == 1..Len(Order)
NoFiles == [k \in Place |-> Absent]

FileOf(pack, name) ==
    CASE name = "policy" -> pack.policy
      [] name = "run_a" -> pack.left
      [] name = "run_b" -> pack.right
      [] name = "compare" -> pack.compare
      [] name = "manifest" -> pack.manifest
      [] name = "experiments" -> pack.experiments

\* A file written whole is there and parses, and a pack is neither no pack nor
\* a refusal.
ASSUME FilesAssumption ==
    /\ \A pack \in Packs, k \in Place : FileOf(pack, Order[k]) \notin {Absent, Torn}
    /\ \A i \in Inputs : i.experiments = Derived \/ i.experiments \in Seq(Artifact)
    /\ Torn \notin Artifact
    /\ NoPack \notin Packs /\ Refused \notin Packs

\* What a file may hold before all of it is written.  No proper prefix of a
\* JSON object is one; the records stand on a line each.
CutShort(pack, name) ==
    IF name = "experiments"
      THEN LET lines == pack.experiments
           IN  {SubSeq(lines, 1, n) : n \in 0..Len(lines)}
                 \cup {Append(SubSeq(lines, 1, n), Torn) : n \in 0..(Len(lines) - 1)}
      ELSE {Torn}

\* splitlines: a record whose text holds a separator comes back in pieces.
SplitLines(text) ==
    [k \in 1..Len(text) |->
        IF text[k] = Torn THEN Torn
        ELSE IF text[k].question \in Separating THEN Torn ELSE text[k]]

\* A slip: only the required files are looked for.
LinesOfNoFile(text) == <<>>

LinesOf(text) == IF text = Absent THEN <<>> ELSE SplitLines(text)

\* A slip: the stored comparison is verified, the hash is not.
VerifyComparison(texts) ==
    LET lines == LinesOf(texts[6])
    IN  IF (\E k \in 1..Len(lines) : lines[k] = Torn)
           \/ CompareRuns(texts[2], texts[3]) # texts[4]
          THEN Refused
          ELSE ExperimentPack(texts[1], texts[2], texts[3], texts[4], lines, texts[5])

\* The records parse, the stored comparison is the recomputed one, and the
\* manifest's hash is the hash of what was read.
Verify(texts) ==
    LET lines == LinesOf(texts[6])
    IN  IF \/ \E k \in 1..Len(lines) : lines[k] = Torn
           \/ CompareRuns(texts[2], texts[3]) # texts[4]
           \/ CanonicalPayload(texts[1], texts[2], texts[3], texts[4], lines) # texts[5].hash
          THEN Refused
          ELSE ExperimentPack(texts[1], texts[2], texts[3], texts[4], lines, texts[5])

-----------------------------------------------------------------------------

Init ==
    /\ dir = NoFiles
    /\ writing = NoPack
    /\ at = 1
    /\ open = FALSE
    /\ given = <<>>
    /\ intact = NoPack
    /\ loading = FALSE
    /\ got = 0
    /\ seen = NoFiles
    /\ loaded = NoPack
    /\ promised = NoPack

\* A load under way may now meet files of two packs.
WriteDir ==
    /\ writing = NoPack
    /\ Len(given) < MaxWrites
    /\ \E pack \in Packs : writing' = pack /\ given' = Append(given, pack)
    /\ at' = 1
    /\ open' = FALSE
    /\ intact' = NoPack
    /\ promised' = IF loading THEN NoPack ELSE promised
    /\ UNCHANGED <<dir, loading, got, seen, loaded>>

OpenFile ==
    /\ writing # NoPack
    /\ ~open
    /\ \E text \in CutShort(writing, Order[at]) : dir' = [dir EXCEPT ![at] = text]
    /\ open' = TRUE
    /\ UNCHANGED <<writing, at, given, intact, reader>>

CloseFile ==
    /\ writing # NoPack
    /\ open
    /\ dir' = [dir EXCEPT ![at] = FileOf(writing, Order[at])]
    /\ open' = FALSE
    /\ IF at < Len(Order)
         THEN at' = at + 1 /\ UNCHANGED <<writing, intact>>
         ELSE at' = 1 /\ writing' = NoPack /\ intact' = writing
    /\ UNCHANGED <<given, reader>>

\* The process ends, or the disk is full.
Interrupted ==
    /\ writing # NoPack
    /\ writing' = NoPack
    /\ at' = 1
    /\ open' = FALSE
    /\ UNCHANGED <<dir, given, intact, reader>>

LoadDir ==
    /\ ~loading
    /\ loading' = TRUE
    /\ got' = 0
    /\ seen' = NoFiles
    /\ loaded' = NoPack
    /\ promised' = intact
    /\ UNCHANGED <<dir, writer>>

\* A required file that is missing or does not parse ends the load.
ReadFile ==
    /\ loading
    /\ got < Len(Order)
    /\ LET k == got + 1
       IN  IF dir[k] \in {Absent, Torn} /\ Order[k] # "experiments"
             THEN got' = 0 /\ seen' = NoFiles /\ loading' = FALSE /\ loaded' = Refused
             ELSE /\ got' = k /\ seen' = [seen EXCEPT ![k] = dir[k]]
                  /\ UNCHANGED <<loading, loaded>>
    /\ UNCHANGED <<dir, writer, promised>>

VerifyAndReturn ==
    /\ loading
    /\ got = Len(Order)
    /\ loaded' = Verify(seen)
    /\ loading' = FALSE
    /\ got' = 0
    /\ seen' = NoFiles
    /\ UNCHANGED <<dir, writer, promised>>

\* to_zip_bytes and load_zip: the same files, in one piece.
LoadZip ==
    /\ ~loading
    /\ \E pack \in Packs :
          /\ loaded' = Verify([k \in Place |-> FileOf(pack, Order[k])])
          /\ promised' = pack
    /\ UNCHANGED <<dir, writer, loading, got, seen>>

Next ==
    \/ WriteDir
    \/ OpenFile
    \/ CloseFile
    \/ Interrupted
    \/ LoadDir
    \/ ReadFile
    \/ VerifyAndReturn
    \/ LoadZip

Spec == Init /\ [][Next]_vars

-----------------------------------------------------------------------------
(* Properties.                                                             *)

Plain(pack) == \A k \in 1..Len(pack.experiments) : pack.experiments[k].question \notin Separating

(***************************************************************************)
(* A load never makes up a pack: what it returns is, manifest and records  *)
(* included, one pack somebody built -- whatever mixture of old, new and   *)
(* cut files an interrupted or running write left in the directory.        *)
(***************************************************************************)
LoadedPackWasBuilt ==
    loaded \notin {NoPack, Refused} =>
        \/ \E k \in 1..Len(given) : loaded = given[k]
        \/ loaded = promised

(***************************************************************************)
(* A pack that was written to its end and not touched since is loaded as   *)
(* it was, if its records stay on their lines.                             *)
(***************************************************************************)
PlainPackRoundTrips ==
    (~loading /\ promised # NoPack /\ Plain(promised)) => loaded = promised

(***************************************************************************)
(* The season plan says a pack round-trips two runs, their comparison and  *)
(* the policy, and a question may hold any character.                      *)
(***************************************************************************)
PackRoundTrips == (~loading /\ promised # NoPack) => loaded = promised
=============================================================================
