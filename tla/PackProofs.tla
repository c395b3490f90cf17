----------------------------- MODULE PackProofs -----------------------------
(***************************************************************************)
(* That a load never makes up a pack, for every collection of packs, any   *)
(* number of writes and every interruption.  The manifest alone carries    *)
(* the argument: it is written in one piece, it names the content it       *)
(* belongs to, and verification finds that content in the other files.     *)
(***************************************************************************)
EXTENDS Pack, TLAPS

Written == {given[k] : k \in 1..Len(given)}

PackInv ==
    /\ given \in Seq(Packs)
    /\ writing = NoPack \/ writing \in Written
    /\ at \in Place
    /\ got \in 0..6
    /\ DOMAIN dir = Place
    /\ DOMAIN seen = Place
    /\ dir[5] \in {Absent, Torn} \cup {p.manifest : p \in Written}
    /\ got >= 5 => seen[5] \in {p.manifest : p \in Written}
    /\ loading => loaded = NoPack
    /\ LoadedPackWasBuilt

\* There are six files, the manifest the fifth and the records the last.
LEMMA Places == Len(Order) = 6 /\ Place = 1..6 /\ Order[5] = "manifest"
BY DEF Order, Place

\* What verification accepts under the manifest of a pack is that pack.
LEMMA VerifiedIsTheManifests ==
    ASSUME NEW texts, NEW p \in Packs, texts[5] = p.manifest, Verify(texts) # Refused
    PROVE  Verify(texts) = p
<1> DEFINE lines == LinesOf(texts[6])
<1>1. /\ CanonicalPayload(texts[1], texts[2], texts[3], texts[4], lines) = p.manifest.hash
      /\ Verify(texts) =
            ExperimentPack(texts[1], texts[2], texts[3], texts[4], lines, texts[5])
  BY DEF Verify
<1>2. PICK i \in Inputs : p = Build(i)
  BY DEF Packs
<1>3. PICK compare, experiments :
         p = ExperimentPack(i.policy, i.left, i.right, compare, experiments,
                Manifest(i.policy, i.left, i.right, compare, experiments))
  BY <1>2 DEF Build
<1>4. p.manifest.hash =
         CanonicalPayload(i.policy, i.left, i.right, compare, experiments)
  BY <1>3 DEF ExperimentPack, Manifest
<1>5. /\ texts[1] = i.policy /\ texts[2] = i.left /\ texts[3] = i.right
      /\ texts[4] = compare /\ lines = experiments
  BY <1>1, <1>4 DEF CanonicalPayload
<1>6. texts[5] = Manifest(i.policy, i.left, i.right, compare, experiments)
  BY <1>3 DEF ExperimentPack
<1>7. QED
  BY <1>1, <1>3, <1>5, <1>6

\* Nothing is written, read or loaded at first.
LEMMA InitPackInv == Init => PackInv
<1> SUFFICES ASSUME Init PROVE PackInv
  OBVIOUS
<1>1. dir[5] = Absent /\ DOMAIN dir = Place /\ DOMAIN seen = Place
  BY Places DEF Init, NoFiles
<1>2. given \in Seq(Packs) /\ at \in Place
  BY Places DEF Init
<1>3. QED
  BY <1>1, <1>2 DEF Init, PackInv, LoadedPackWasBuilt

\* No step brings in a manifest, or returns a pack, that nobody built.
LEMMA NextPackInv == PackInv /\ [Next]_vars => PackInv'
<1> SUFFICES ASSUME PackInv, [Next]_vars PROVE PackInv'
  OBVIOUS
<1> USE DEF PackInv, LoadedPackWasBuilt, Written
<1>1. CASE WriteDir
  <2>1. PICK pack \in Packs : writing' = pack /\ given' = Append(given, pack)
    BY <1>1 DEF WriteDir
  <2>2. /\ given' \in Seq(Packs) /\ Len(given') = Len(given) + 1
        /\ given'[Len(given')] = pack
        /\ \A k \in 1..Len(given) : given'[k] = given[k]
        /\ Len(given) \in Nat
    BY <2>1
  <2>3. Written \subseteq Written' /\ writing' \in Written'
    BY <2>1, <2>2
  <2>4. /\ at' \in Place /\ UNCHANGED <<dir, loading, got, seen, loaded>>
        /\ promised' = IF loading THEN NoPack ELSE promised
    BY <1>1, Places DEF WriteDir
  <2>5. LoadedPackWasBuilt'
    BY <2>2, <2>4
  <2>6. QED
    BY <2>2, <2>3, <2>4, <2>5
<1>2. CASE OpenFile
  <2>1. PICK text \in CutShort(writing, Order[at]) : dir' = [dir EXCEPT ![at] = text]
    BY <1>2 DEF OpenFile
  <2>2. at = 5 => text = Torn
    BY <2>1, Places DEF CutShort
  <2>3. UNCHANGED <<writing, at, given, intact, loading, got, seen, loaded, promised>>
    BY <1>2 DEF OpenFile, reader
  <2>4. DOMAIN dir' = Place /\ dir'[5] \in {dir[5], Torn}
    BY <2>1, <2>2, Places
  <2>5. QED
    BY <2>3, <2>4
<1>3. CASE CloseFile
  <2>1. /\ writing \in Written
        /\ dir' = [dir EXCEPT ![at] = FileOf(writing, Order[at])]
        /\ UNCHANGED <<given, loading, got, seen, loaded, promised>>
        /\ writing' \in {writing, NoPack}
    BY <1>3 DEF CloseFile, reader
  <2>2. at = 5 => dir'[5] = writing.manifest
    BY <2>1, Places DEF FileOf
  <2>3. DOMAIN dir' = Place /\ dir'[5] \in {dir[5], writing.manifest}
    BY <2>1, <2>2, Places
  <2>4. at' \in Place
    <3>1. \/ at < Len(Order) /\ at' = at + 1
          \/ at' = 1
      BY <1>3 DEF CloseFile
    <3>2. QED
      BY <3>1, Places
  <2>5. QED
    BY <2>1, <2>3, <2>4
<1>4. CASE Interrupted
  <2>1. UNCHANGED <<dir, given, loading, got, seen, loaded, promised>>
    BY <1>4 DEF Interrupted, reader
  <2>2. writing' = NoPack /\ at' \in Place
    BY <1>4, Places DEF Interrupted
  <2>3. QED
    BY <2>1, <2>2
<1>5. CASE LoadDir
  <2>1. /\ UNCHANGED <<dir, writing, at, given>>
        /\ got' = 0 /\ loaded' = NoPack /\ DOMAIN seen' = Place
    BY <1>5 DEF LoadDir, writer, NoFiles
  <2>2. QED
    BY <2>1
<1>6. CASE ReadFile
  <2>1. UNCHANGED <<dir, writing, at, given, promised>> /\ loading /\ got \in 0..5
    BY <1>6, Places DEF ReadFile, writer
  <2>2. CASE dir[got + 1] \in {Absent, Torn} /\ Order[got + 1] # "experiments"
    <3>1. got' = 0 /\ DOMAIN seen' = Place /\ ~loading' /\ loaded' = Refused
      BY <1>6, <2>2 DEF ReadFile, NoFiles
    <3>2. QED
      BY <2>1, <3>1
  <2>3. CASE ~(dir[got + 1] \in {Absent, Torn} /\ Order[got + 1] # "experiments")
    <3>1. /\ got' = got + 1 /\ seen' = [seen EXCEPT ![got + 1] = dir[got + 1]]
          /\ UNCHANGED <<loading, loaded>>
      BY <1>6, <2>3 DEF ReadFile
    <3>2. DOMAIN seen' = Place /\ got' \in 0..6
      BY <2>1, <3>1
    <3>3. got' >= 5 => seen'[5] \in {p.manifest : p \in Written}
      <4>1. CASE got = 4
        BY <2>1, <2>3, <3>1, <4>1, Places
      <4>2. CASE got = 5
        BY <2>1, <3>1, <4>2, Places
      <4>3. QED
        BY <2>1, <3>1, <4>1, <4>2
    <3>4. QED
      BY <2>1, <3>1, <3>2, <3>3
  <2>4. QED
    BY <2>2, <2>3
<1>7. CASE VerifyAndReturn
  <2>1. /\ UNCHANGED <<dir, writing, at, given, promised>>
        /\ got = 6 /\ got' = 0 /\ DOMAIN seen' = Place /\ ~loading'
        /\ loaded' = Verify(seen)
    BY <1>7, Places DEF VerifyAndReturn, writer, NoFiles
  <2>2. PICK k \in 1..Len(given) : seen[5] = given[k].manifest
    BY <2>1
  <2>3. given[k] \in Packs
    BY <2>2
  <2>4. loaded' = Refused \/ loaded' = given[k]
    BY <2>1, <2>2, <2>3, VerifiedIsTheManifests
  <2>5. QED
    BY <2>1, <2>2, <2>4
<1>8. CASE LoadZip
  <2>1. /\ UNCHANGED <<dir, writing, at, given, loading, got, seen>> /\ ~loading
    BY <1>8 DEF LoadZip, writer
  <2>2. PICK pack \in Packs :
           /\ loaded' = Verify([k \in Place |-> FileOf(pack, Order[k])])
           /\ promised' = pack
    BY <1>8 DEF LoadZip
  <2>3. [k \in Place |-> FileOf(pack, Order[k])][5] = pack.manifest
    BY Places DEF FileOf
  <2>4. loaded' = Refused \/ loaded' = promised'
    BY <2>2, <2>3, VerifiedIsTheManifests
  <2>5. QED
    BY <2>1, <2>4
<1>9. CASE UNCHANGED vars
  <2>1. UNCHANGED <<dir, writing, at, given, loading, got, seen, loaded, promised>>
    BY <1>9 DEF vars, writer, reader
  <2>2. QED
    BY <2>1
<1>10. QED
  BY <1>1, <1>2, <1>3, <1>4, <1>5, <1>6, <1>7, <1>8, <1>9 DEF Next

\* Whatever packs are written over one another, however often a write is
\* interrupted, and however a load races it, load_dir and load_zip return a
\* pack somebody built or refuse.
THEOREM NeverMadeUp == Spec => []LoadedPackWasBuilt
<1>1. PackInv => LoadedPackWasBuilt
  BY DEF PackInv
<1>2. QED
  BY InitPackInv, NextPackInv, <1>1, PTL DEF Spec

-----------------------------------------------------------------------------
(* Round trips.  As far as a write has come the directory holds its files, *)
(* an intact directory holds all of its pack's, and a load that was        *)
(* promised that pack has read its files so far.                           *)

Holds(texts, pack, ks) == \A k \in ks : texts[k] = FileOf(pack, Order[k])

RoundTripInv ==
    /\ writing # NoPack => intact = NoPack /\ Holds(dir, writing, 1..(at - 1))
    /\ intact # NoPack => intact \in Packs /\ Holds(dir, intact, Place)
    /\ (loading /\ promised # NoPack) => promised = intact /\ Holds(seen, promised, 1..got)
    /\ PlainPackRoundTrips

\* Records that hold no separator come back line by line.
LEMMA PlainLines ==
    ASSUME NEW p \in Packs, Plain(p)
    PROVE  /\ LinesOf(p.experiments) = p.experiments
           /\ \A k \in 1..Len(p.experiments) : p.experiments[k] # Torn
<1>1. PICK i \in Inputs : p = Build(i)
  BY DEF Packs
<1>2. p.experiments = IF i.experiments = Derived
                        THEN <<ExperimentRecord(i.left), ExperimentRecord(i.right)>>
                        ELSE i.experiments
  BY <1>1 DEF Build, ExperimentPack
<1>3. p.experiments \in Seq(Artifact)
  <2>1. ExperimentRecord(i.left) \in Artifact /\ ExperimentRecord(i.right) \in Artifact
    BY PackAssumption DEF Artifact, ExperimentRecord
  <2>2. QED
    BY <1>2, <2>1, FilesAssumption
<1>4. \A k \in 1..Len(p.experiments) : p.experiments[k] \in Artifact
  BY <1>3
<1>5. \A k \in 1..Len(p.experiments) : p.experiments[k] # Torn
  BY <1>4, FilesAssumption
<1>6. p.experiments # Absent
  <2>1. FileOf(p, Order[6]) = p.experiments /\ 6 \in Place
    BY Places DEF FileOf, Order
  <2>2. QED
    BY <2>1, FilesAssumption
<1>7. SplitLines(p.experiments) = [k \in 1..Len(p.experiments) |-> p.experiments[k]]
  BY <1>5 DEF SplitLines, Plain
<1>8. [k \in 1..Len(p.experiments) |-> p.experiments[k]] = p.experiments
  BY <1>3
<1>9. QED
  BY <1>5, <1>6, <1>7, <1>8 DEF LinesOf

\* Verification returns the pack whose files it is given.
LEMMA VerifiedAsWritten ==
    ASSUME NEW p \in Packs, Plain(p), NEW texts, Holds(texts, p, Place)
    PROVE  Verify(texts) = p
<1>1. /\ texts[1] = p.policy /\ texts[2] = p.left /\ texts[3] = p.right
      /\ texts[4] = p.compare /\ texts[5] = p.manifest /\ texts[6] = p.experiments
  BY Places DEF Holds, FileOf, Order
<1>2. PICK i \in Inputs : p = Build(i)
  BY DEF Packs
<1>3. PICK experiments :
         p = ExperimentPack(i.policy, i.left, i.right, CompareRuns(i.left, i.right), experiments,
                Manifest(i.policy, i.left, i.right, CompareRuns(i.left, i.right), experiments))
  BY <1>2 DEF Build
<1>4. /\ CompareRuns(p.left, p.right) = p.compare
      /\ CanonicalPayload(p.policy, p.left, p.right, p.compare, p.experiments) = p.manifest.hash
      /\ ExperimentPack(p.policy, p.left, p.right, p.compare, p.experiments, p.manifest) = p
  BY <1>3 DEF ExperimentPack, Manifest
<1>5. QED
  BY <1>1, <1>4, PlainLines DEF Verify

LEMMA InitRoundTripInv == Init => RoundTripInv
BY DEF Init, RoundTripInv, PlainPackRoundTrips

LEMMA NextRoundTripInv == PackInv /\ RoundTripInv /\ [Next]_vars => RoundTripInv'
<1> SUFFICES ASSUME PackInv, RoundTripInv, [Next]_vars PROVE RoundTripInv'
  OBVIOUS
<1>1. /\ at \in Place /\ got \in 0..6 /\ DOMAIN dir = Place /\ DOMAIN seen = Place
      /\ writing # NoPack => writing \in Packs
  BY DEF PackInv, Written
<1> USE DEF RoundTripInv, Holds, PlainPackRoundTrips, Plain
<1>2. CASE WriteDir
  <2>1. /\ at' = 1 /\ intact' = NoPack /\ promised' = (IF loading THEN NoPack ELSE promised)
        /\ UNCHANGED <<dir, loading, got, seen, loaded>>
    BY <1>2 DEF WriteDir
  <2>2. QED
    BY <2>1
<1>3. CASE OpenFile
  <2>1. PICK text : dir' = [dir EXCEPT ![at] = text]
    BY <1>3 DEF OpenFile
  <2>2. writing # NoPack /\ UNCHANGED <<writing, at, intact, loading, got, seen, loaded, promised>>
    BY <1>3 DEF OpenFile, reader
  <2>3. \A k \in 1..(at - 1) : dir'[k] = dir[k]
    BY <1>1, <2>1, Places
  <2>4. QED
    BY <2>2, <2>3
<1>4. CASE CloseFile
  <2>1. /\ writing # NoPack /\ dir' = [dir EXCEPT ![at] = FileOf(writing, Order[at])]
        /\ UNCHANGED <<loading, got, seen, loaded, promised>>
        /\ \/ at < 6 /\ at' = at + 1 /\ UNCHANGED <<writing, intact>>
           \/ at >= 6 /\ at' = 1 /\ writing' = NoPack /\ intact' = writing
    BY <1>1, <1>4, Places DEF CloseFile, reader
  <2>2. \A k \in 1..at : dir'[k] = FileOf(writing, Order[k])
    BY <1>1, <2>1, Places
  <2>3. intact = NoPack /\ ~(loading /\ promised # NoPack)
    BY <2>1
  <2>4. CASE at < 6
    BY <1>1, <2>1, <2>2, <2>3, <2>4, Places
  <2>5. CASE at >= 6
    BY <1>1, <2>1, <2>2, <2>3, <2>5, Places
  <2>6. QED
    BY <1>1, <2>4, <2>5, Places
<1>5. CASE Interrupted
  BY <1>5 DEF Interrupted, reader
<1>6. CASE LoadDir
  BY <1>6 DEF LoadDir, writer
<1>7. CASE ReadFile
  <2>1. /\ loading /\ got \in 0..5 /\ UNCHANGED <<dir, writing, at, intact, promised>>
    BY <1>1, <1>7, Places DEF ReadFile, writer
  <2>2. CASE promised = NoPack
    BY <2>1, <2>2
  <2>3. CASE promised # NoPack
    <3>1. promised \in Packs /\ got + 1 \in Place /\ dir[got + 1] = FileOf(promised, Order[got + 1])
      BY <2>1, <2>3, Places
    <3>2. dir[got + 1] \notin {Absent, Torn}
      BY <3>1, FilesAssumption
    <3>3. got' = got + 1 /\ seen' = [seen EXCEPT ![got + 1] = dir[got + 1]] /\ loading' = loading
      BY <1>7, <3>2 DEF ReadFile
    <3>4. \A k \in 1..got' : seen'[k] = FileOf(promised, Order[k])
      BY <1>1, <2>1, <2>3, <3>1, <3>3, Places
    <3>5. QED
      BY <2>1, <2>3, <3>3, <3>4
  <2>4. QED
    BY <2>2, <2>3
<1>8. CASE VerifyAndReturn
  <2>1. /\ loading /\ got = 6 /\ ~loading' /\ loaded' = Verify(seen)
        /\ UNCHANGED <<dir, writing, at, intact, promised>>
    BY <1>8, Places DEF VerifyAndReturn, writer
  <2>2. ASSUME promised # NoPack, Plain(promised) PROVE loaded' = promised
    BY <2>1, <2>2, Places, VerifiedAsWritten
  <2>3. QED
    BY <2>1, <2>2
<1>9. CASE LoadZip
  <2>1. ~loading /\ UNCHANGED <<dir, writing, at, intact, loading, got, seen>>
    BY <1>9 DEF LoadZip, writer
  <2>2. PICK pack \in Packs :
           /\ loaded' = Verify([k \in Place |-> FileOf(pack, Order[k])])
           /\ promised' = pack
    BY <1>9 DEF LoadZip
  <2>3. Plain(pack) => loaded' = pack
    BY <2>2, VerifiedAsWritten
  <2>4. QED
    BY <2>1, <2>2, <2>3
<1>10. CASE UNCHANGED vars
  BY <1>10 DEF vars, writer, reader
<1>11. QED
  BY <1>2, <1>3, <1>4, <1>5, <1>6, <1>7, <1>8, <1>9, <1>10 DEF Next

(***************************************************************************)
(* A pack written to its end, or zipped, comes back whole from load_dir or *)
(* load_zip if its records stay on their lines -- whatever the directory   *)
(* held before, unless another write is begun before the load is done.     *)
(***************************************************************************)
THEOREM PlainPacksComeBack == Spec => []PlainPackRoundTrips
<1>1. RoundTripInv => PlainPackRoundTrips
  BY DEF RoundTripInv
<1>2. QED
  BY InitPackInv, NextPackInv, InitRoundTripInv, NextRoundTripInv, <1>1, PTL DEF Spec
=============================================================================
