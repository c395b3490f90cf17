----------------------- MODULE RunStoreThreadsProofs -----------------------
(***************************************************************************)
(* That the statements of put and get under the lock amount to the one     *)
(* step of RunStore, for any number of threads, ids and runs and any       *)
(* capacity.  The lock makes one thread's statements follow one another;   *)
(* while a put is inside, the dictionary is what that put has made so far  *)
(* of the store the last put left, and otherwise it is that store.         *)
(***************************************************************************)
EXTENDS RunStoreThreads, SequenceTheorems, FiniteSetTheorems, TLAPS

History == INSTANCE RunStoreProofs WITH runs <- committed

Distinct(store) == \A i, j \in 1..Len(store) : store[i].id = store[j].id => i = j

-----------------------------------------------------------------------------
(* The dictionary operations.                                              *)

\* Popping a key leaves a dictionary without it, of no more entries.
LEMMA WithoutType ==
    ASSUME NEW store \in Seq(Artifact), NEW id \in Ids, Distinct(store)
    PROVE  LET rest == Store!Without(store, id)
           IN  /\ rest \in Seq(Artifact)
               /\ Len(rest) <= Len(store)
               /\ Distinct(rest)
               /\ Store!At(rest, id) = {}
<1> DEFINE rest == Store!Without(store, id)
<1>1. CASE Store!At(store, id) = {}
  BY <1>1 DEF Store!Without
<1>2. CASE Store!At(store, id) # {}
  <2> DEFINE i == CHOOSE i \in Store!At(store, id) : TRUE
  <2>1. i \in 1..Len(store) /\ store[i].id = id
    BY <1>2 DEF Store!At
  <2> DEFINE m == Len(store) - 1
  <2>2. m \in Nat
    BY <2>1
  <2>3. rest = [j \in 1..m |-> IF j < i THEN store[j] ELSE store[j + 1]]
    BY <1>2 DEF Store!Without
  <2> HIDE DEF i, m, rest
  <2>4. \A j \in 1..m : j \in 1..Len(store) /\ j + 1 \in 1..Len(store)
    BY DEF m
  <2>5. \A j \in 1..m : rest[j] \in Artifact
    BY <2>1, <2>3, <2>4
  <2>6. rest \in Seq(Artifact) /\ Len(rest) = m
    BY <2>2, <2>3, <2>5
  <2>7. Distinct(rest)
    <3> SUFFICES ASSUME NEW a \in 1..m, NEW b \in 1..m, rest[a].id = rest[b].id
                 PROVE  a = b
      BY <2>6 DEF Distinct
    <3> DEFINE from(j) == IF j < i THEN j ELSE j + 1
    <3>1. /\ from(a) \in 1..Len(store) /\ rest[a] = store[from(a)]
          /\ from(b) \in 1..Len(store) /\ rest[b] = store[from(b)]
      BY <2>1, <2>3, <2>4
    <3>2. from(a) = from(b)
      BY <3>1 DEF Distinct
    <3>3. QED
      BY <2>1, <3>2
  <2>8. Store!At(rest, id) = {}
    <3>1. ASSUME NEW j \in 1..m, rest[j].id = id PROVE FALSE
      BY <2>1, <2>3, <2>4, <3>1 DEF Distinct
    <3>2. QED
      BY <2>6, <3>1 DEF Store!At
  <2>9. Len(rest) <= Len(store)
    BY <2>6 DEF m
  <2>10. QED
    BY <2>6, <2>7, <2>8, <2>9 DEF rest
<1>3. QED
  BY <1>1, <1>2

\* The newest entry under a new key.
LEMMA AppendDistinct ==
    ASSUME NEW store \in Seq(Artifact), NEW a \in Artifact, Distinct(store),
           Store!At(store, a.id) = {}
    PROVE  /\ Append(store, a) \in Seq(Artifact)
           /\ Distinct(Append(store, a))
           /\ Len(Append(store, a)) = Len(store) + 1
<1>1. \A i \in 1..Len(store) : store[i].id # a.id
  BY DEF Store!At
<1>2. QED
  BY <1>1 DEF Distinct

\* Evicting the oldest entry.
LEMMA TailDistinct ==
    ASSUME NEW store \in Seq(Artifact), Distinct(store), store # <<>>
    PROVE  /\ Tail(store) \in Seq(Artifact)
           /\ Distinct(Tail(store))
           /\ Len(Tail(store)) = Len(store) - 1
  BY DEF Distinct

\* One entry over the capacity: evicting is taking the tail.
LEMMA EvictIsTail ==
    ASSUME NEW store \in Seq(Artifact), Len(store) = Capacity + 1
    PROVE  Store!EvictOldest(store) = Tail(store)
<1>1. Capacity \in Nat \ {0}
  BY StoreAssumption
<1>2. Store!EvictOldest(store) = SubSeq(store, 2, Len(store))
  BY <1>1 DEF Store!EvictOldest
<1>3. Tail(store) = SubSeq(store, 2, Len(store))
  BY <1>1
<1>4. QED
  BY <1>2, <1>3

-----------------------------------------------------------------------------
(* The invariant.                                                          *)

Labels == {"idle", "put", "pop", "insert", "evict", "get", "read", "found"}

Types ==
    /\ entries \in Seq(Artifact) /\ committed \in Seq(Artifact) /\ finished \in Seq(Artifact)
    /\ lock \in Threads \cup {NoThread}
    /\ pc \in [Threads -> Labels]
    /\ arg \in [Threads -> Artifact]
    /\ answer \in [Threads -> Seq(Artifact)]

\* Only the holder of the lock is between entering and leaving.
OneInside ==
    \A t \in Threads : (lock = t) <=> pc[t] \in {"pop", "insert", "evict", "read", "found"}

\* What the put of thread t leaves before it evicts.
Inserted(t) == Append(Store!Without(committed, arg[t].id), arg[t])

\* The dictionary is the committed store, but for what a put inside has done.
Progress ==
    /\ (\A t \in Threads : pc[t] \notin {"insert", "evict"}) => entries = committed
    /\ \A t \in Threads : pc[t] = "insert" => entries = Store!Without(committed, arg[t].id)
    /\ \A t \in Threads : pc[t] = "evict" =>
          \/ entries = Inserted(t)
          \/ Len(Inserted(t)) = Capacity + 1 /\ entries = Tail(Inserted(t))

Sound == Distinct(committed) /\ Len(committed) <= Capacity

\* The puts let in are the puts the bound allows.
Budget == Len(finished) + Cardinality(InFlight) <= MaxPuts

Inv == Types /\ OneInside /\ Progress /\ Sound /\ Budget /\ FetchSeesWholePuts

\* What a put inside the lock has made of a sound store.
LEMMA InsertedType ==
    ASSUME Types, Sound, NEW t \in Threads
    PROVE  /\ arg[t] \in Artifact /\ arg[t].id \in Ids
           /\ Store!Without(committed, arg[t].id) \in Seq(Artifact)
           /\ Store!At(Store!Without(committed, arg[t].id), arg[t].id) = {}
           /\ Inserted(t) \in Seq(Artifact)
           /\ Distinct(Inserted(t))
           /\ Len(Inserted(t)) <= Capacity + 1
<1>1. arg[t] \in Artifact /\ arg[t].id \in Ids
  BY DEF Types, Artifact, Store!Artifact
<1> DEFINE rest == Store!Without(committed, arg[t].id)
<1>2. /\ rest \in Seq(Artifact)
      /\ Len(rest) <= Len(committed)
      /\ Distinct(rest)
      /\ Store!At(rest, arg[t].id) = {}
  BY <1>1, WithoutType DEF Types, Sound
<1> HIDE DEF rest
<1>3. /\ Append(rest, arg[t]) \in Seq(Artifact)
      /\ Distinct(Append(rest, arg[t]))
      /\ Len(Append(rest, arg[t])) = Len(rest) + 1
  BY <1>1, <1>2, AppendDistinct
<1>4. Len(rest) + 1 <= Capacity + 1
  BY <1>2, StoreAssumption DEF Types, Sound
<1>5. QED
  BY <1>1, <1>2, <1>3, <1>4 DEF rest, Inserted

\* Leaving with at most Capacity entries, a put has made the one step.
LEMMA LeftIsStored ==
    ASSUME Inv, NEW t \in Threads, pc[t] = "evict", Len(entries) <= Capacity
    PROVE  /\ entries = Store!Stored(committed, arg[t])
           /\ Distinct(entries)
<1>1. /\ Inserted(t) \in Seq(Artifact)
      /\ Distinct(Inserted(t))
      /\ Len(Inserted(t)) <= Capacity + 1
  BY InsertedType DEF Inv
<1>2. Store!Stored(committed, arg[t]) = Store!EvictOldest(Inserted(t))
  BY DEF Store!Stored, Inserted
<1>3. CASE entries = Inserted(t)
  <2>1. Store!EvictOldest(Inserted(t)) = Inserted(t)
    BY <1>1, <1>3, StoreAssumption DEF Store!EvictOldest
  <2>2. QED
    BY <1>1, <1>2, <1>3, <2>1
<1>4. CASE Len(Inserted(t)) = Capacity + 1 /\ entries = Tail(Inserted(t))
  <2>1. Store!EvictOldest(Inserted(t)) = Tail(Inserted(t))
    BY <1>1, <1>4, EvictIsTail
  <2>2. Inserted(t) # <<>>
    BY <1>1, <1>4, StoreAssumption
  <2>3. QED
    BY <1>1, <1>2, <1>4, <2>1, <2>2, TailDistinct
<1>5. QED
  BY <1>3, <1>4 DEF Inv, Progress

LEMMA Initially == Init => Inv
<1> SUFFICES ASSUME Init PROVE Inv
  OBVIOUS
<1>2. Artifact # {}
  <2>1. PICK i \in Ids, o \in Owners : TRUE
    BY StoreAssumption
  <2>2. [id |-> i, owner |-> o] \in Artifact
    BY <2>1 DEF Artifact, Store!Artifact
  <2>3. QED
    BY <2>2
<1>3. (CHOOSE a \in Artifact : TRUE) \in Artifact
  BY <1>2
<1>4. Types
  BY <1>3 DEF Init, Types, Labels
<1>5. InFlight = {}
  BY DEF Init, InFlight
<1>6. Budget
  BY <1>5, FS_EmptySet, StoreAssumption DEF Init, Budget
<1>7. OneInside /\ FetchSeesWholePuts
  BY StoreAssumption DEF Init, OneInside, FetchSeesWholePuts
<1>8. Progress /\ Sound
  BY StoreAssumption DEF Init, Progress, Sound, Distinct
<1>9. QED
  BY <1>4, <1>6, <1>7, <1>8 DEF Inv

\* Going idle, entering or waiting: how the puts in flight are counted.
LEMMA Counted ==
    ASSUME Types, NEW t \in Threads, NEW label \in Labels, pc' = [pc EXCEPT ![t] = label]
    PROVE  LET putting == {"put", "pop", "insert", "evict"}
           IN  /\ Cardinality(InFlight) \in Nat
               /\ (pc[t] \in putting <=> label \in putting) => InFlight' = InFlight
               /\ pc[t] \notin putting /\ label \in putting =>
                     Cardinality(InFlight') = Cardinality(InFlight) + 1
               /\ pc[t] \in putting /\ label \notin putting =>
                     Cardinality(InFlight') = Cardinality(InFlight) - 1
<1> DEFINE putting == {"put", "pop", "insert", "evict"}
<1>1. IsFiniteSet(InFlight) /\ Cardinality(InFlight) \in Nat
  <2>1. InFlight \subseteq Threads
    BY DEF InFlight
  <2>2. QED
    BY <2>1, FS_Subset, FS_CardinalityType, StoreAssumption
<1>2. (pc[t] \in putting <=> label \in putting) => InFlight' = InFlight
  BY DEF Types, InFlight
<1>3. ASSUME pc[t] \notin putting, label \in putting
      PROVE  Cardinality(InFlight') = Cardinality(InFlight) + 1
  <2>1. InFlight' = InFlight \cup {t} /\ t \notin InFlight
    BY <1>3 DEF Types, InFlight
  <2>2. QED
    BY <1>1, <2>1, FS_AddElement
<1>4. ASSUME pc[t] \in putting, label \notin putting
      PROVE  Cardinality(InFlight') = Cardinality(InFlight) - 1
  <2>1. InFlight' = InFlight \ {t} /\ t \in InFlight
    BY <1>4 DEF Types, InFlight
  <2>2. QED
    BY <1>1, <2>1, FS_RemoveElement
<1>5. QED
  BY <1>1, <1>2, <1>3, <1>4

LEMMA Inductive == Inv /\ [Next]_vars => Inv'
<1> SUFFICES ASSUME Inv, [Next]_vars PROVE Inv'
  OBVIOUS
<1> USE DEF Inv
<1>1. ASSUME NEW t \in Threads, CallPut(t) PROVE Inv'
  <2> USE <1>1 DEF CallPut, Goto
  <2>1. Types'
    BY DEF Types, Labels
  <2>2. OneInside' /\ Progress' /\ FetchSeesWholePuts'
    BY DEF Types, OneInside, Progress, Inserted, FetchSeesWholePuts
  <2>3. Budget'
    <3>1. Cardinality(InFlight') = Cardinality(InFlight) + 1 /\ Cardinality(InFlight) \in Nat
      BY Counted DEF Labels
    <3>2. QED
      BY <3>1, StoreAssumption DEF Types, Budget
  <2>4. QED
    BY <2>1, <2>2, <2>3 DEF Sound, Distinct
<1>2. ASSUME NEW t \in Threads, CallGet(t) PROVE Inv'
  <2> USE <1>2 DEF CallGet, Goto
  <2>1. Types'
    BY DEF Types, Labels
  <2>2. OneInside' /\ Progress' /\ FetchSeesWholePuts'
    BY DEF Types, OneInside, Progress, Inserted, FetchSeesWholePuts
  <2>3. Budget'
    BY Counted DEF Types, Labels, Budget
  <2>4. QED
    BY <2>1, <2>2, <2>3 DEF Sound, Distinct
<1>3. ASSUME NEW t \in Threads, Acquire(t) PROVE Inv'
  <2> USE <1>3 DEF Acquire, Entered, Goto
  <2>1. Types'
    BY DEF Types, Labels
  <2>2. OneInside'
    BY StoreAssumption DEF Types, OneInside
  <2>3. Progress' /\ FetchSeesWholePuts'
    BY DEF Types, Progress, Inserted, FetchSeesWholePuts
  <2>4. Budget'
    BY Counted DEF Types, Labels, Budget
  <2>5. QED
    BY <2>1, <2>2, <2>3, <2>4 DEF Sound, Distinct
<1>4. ASSUME NEW t \in Threads, Pop(t) PROVE Inv'
  <2> USE <1>4 DEF Pop, Goto
  <2>1. /\ lock = t /\ lock' = t /\ entries = committed
        /\ \A u \in Threads : u # t =>
              pc[u] \notin {"pop", "insert", "evict", "read", "found"} /\ pc'[u] = pc[u]
    BY DEF Types, OneInside, Progress
  <2>2. Types'
    BY <2>1, InsertedType DEF Types, Labels
  <2>3. OneInside' /\ Progress' /\ FetchSeesWholePuts'
    BY <2>1 DEF Types, OneInside, Progress, FetchSeesWholePuts
  <2>4. Budget'
    BY Counted DEF Types, Labels, Budget
  <2>5. QED
    BY <2>2, <2>3, <2>4 DEF Sound, Distinct
<1>5. ASSUME NEW t \in Threads, Insert(t) PROVE Inv'
  <2> USE <1>5 DEF Insert, Goto
  <2>1. /\ lock = t /\ lock' = t /\ entries = Store!Without(committed, arg[t].id)
        /\ \A u \in Threads : u # t =>
              pc[u] \notin {"pop", "insert", "evict", "read", "found"} /\ pc'[u] = pc[u]
    BY DEF Types, OneInside, Progress
  <2>2. entries' = Inserted(t) /\ Inserted(t) \in Seq(Artifact)
    BY <2>1, InsertedType DEF Inserted
  <2>3. Types'
    BY <2>2 DEF Types, Labels
  <2>4. OneInside' /\ FetchSeesWholePuts'
    BY <2>1 DEF Types, OneInside, FetchSeesWholePuts
  <2>5. Progress'
    <3>1. pc'[t] = "evict" /\ Inserted(t)' = Inserted(t)
      BY DEF Types, Inserted
    <3>2. QED
      BY <2>1, <2>2, <3>1 DEF Progress
  <2>6. Budget'
    BY Counted DEF Types, Labels, Budget
  <2>7. QED
    BY <2>3, <2>4, <2>5, <2>6 DEF Sound, Distinct
<1>6. ASSUME NEW t \in Threads, Evict(t) PROVE Inv'
  <2> USE <1>6 DEF Evict
  <2>1. \A u \in Threads : u # t => pc[u] \notin {"insert", "evict", "read", "found"}
    BY DEF Types, OneInside
  <2>2. /\ Inserted(t) \in Seq(Artifact)
        /\ Len(Inserted(t)) <= Capacity + 1
    BY InsertedType
  <2>3. entries = Inserted(t) /\ Len(Inserted(t)) = Capacity + 1
    <3>1. Len(Inserted(t)) = Capacity + 1 /\ Inserted(t) # <<>> => Len(Tail(Inserted(t))) = Capacity
      BY <2>2, StoreAssumption
    <3>2. Len(Inserted(t)) = Capacity + 1 => Inserted(t) # <<>>
      BY <2>2, StoreAssumption
    <3>3. entries = Inserted(t)
      BY <3>1, <3>2, StoreAssumption DEF Progress
    <3>4. QED
      BY <2>2, <3>3, StoreAssumption
  <2>4. entries' = Tail(Inserted(t)) /\ Tail(Inserted(t)) \in Seq(Artifact)
    BY <2>2, <2>3, StoreAssumption
  <2>5. Types' /\ OneInside'
    BY <2>4 DEF Types, OneInside
  <2>6. Progress' /\ FetchSeesWholePuts'
    BY <2>1, <2>3, <2>4 DEF Progress, Inserted, FetchSeesWholePuts
  <2>7. Budget' /\ Sound'
    BY DEF Budget, InFlight, Sound, Distinct
  <2>8. QED
    BY <2>5, <2>6, <2>7
<1>7. ASSUME NEW t \in Threads, LeavePut(t) PROVE Inv'
  <2> USE <1>7 DEF LeavePut, Goto
  <2>1. \A u \in Threads : u # t =>
           pc[u] \notin {"pop", "insert", "evict", "read", "found"} /\ pc'[u] = pc[u]
    BY DEF Types, OneInside
  <2>2. Types'
    BY DEF Types, Labels
  <2>3. OneInside' /\ Progress' /\ FetchSeesWholePuts'
    BY <2>1, StoreAssumption DEF Types, OneInside, Progress, FetchSeesWholePuts
  <2>4. Budget'
    <3>1. Len(finished') = Len(finished) + 1 /\ Len(finished) \in Nat
      BY DEF Types
    <3>2. Cardinality(InFlight') = Cardinality(InFlight) - 1 /\ Cardinality(InFlight) \in Nat
      BY Counted DEF Labels
    <3>3. QED
      BY <3>1, <3>2 DEF Budget
  <2>5. Sound'
    BY LeftIsStored DEF Sound, Distinct
  <2>6. QED
    BY <2>2, <2>3, <2>4, <2>5
<1>8. ASSUME NEW t \in Threads, Read(t) PROVE Inv'
  <2> USE <1>8 DEF Read, Goto
  <2>1. /\ lock = t /\ lock' = t /\ entries = committed
        /\ \A u \in Threads : u # t =>
              pc[u] \notin {"pop", "insert", "evict", "read", "found"} /\ pc'[u] = pc[u]
    BY DEF Types, OneInside, Progress
  <2>2. Store!Get(entries, arg[t].id) \in Seq(Artifact)
    BY DEF Types, Store!Get, Store!At
  <2>3. Types'
    BY <2>2 DEF Types, Labels
  <2>4. OneInside' /\ Progress' /\ FetchSeesWholePuts'
    BY <2>1 DEF Types, OneInside, Progress, FetchSeesWholePuts
  <2>5. Budget'
    BY Counted DEF Types, Labels, Budget
  <2>6. QED
    BY <2>3, <2>4, <2>5 DEF Sound, Distinct
<1>9. ASSUME NEW t \in Threads, LeaveGet(t) PROVE Inv'
  <2> USE <1>9 DEF LeaveGet, Goto
  <2>1. \A u \in Threads : u # t =>
           pc[u] \notin {"pop", "insert", "evict", "read", "found"} /\ pc'[u] = pc[u]
    BY DEF Types, OneInside
  <2>2. Types'
    BY DEF Types, Labels
  <2>3. OneInside' /\ Progress' /\ FetchSeesWholePuts'
    BY <2>1, StoreAssumption DEF Types, OneInside, Progress, Inserted, FetchSeesWholePuts
  <2>4. Budget'
    BY Counted DEF Types, Labels, Budget
  <2>5. QED
    BY <2>2, <2>3, <2>4 DEF Sound, Distinct
<1>10. CASE UNCHANGED vars
  BY <1>10 DEF vars, Types, OneInside, Progress, Inserted, Sound, Distinct, Budget,
               InFlight, FetchSeesWholePuts
<1>11. QED
  BY <1>1, <1>2, <1>3, <1>4, <1>5, <1>6, <1>7, <1>8, <1>9, <1>10 DEF Next, Inside

LEMMA InvAlways == Spec => []Inv
  BY Initially, Inductive, PTL DEF Spec

-----------------------------------------------------------------------------
(* The theorems.                                                           *)

(***************************************************************************)
(* Any number of threads may put and fetch: what a fetch found is what the *)
(* last finished put left, never a put half done.                          *)
(***************************************************************************)
THEOREM FetchesSeeWholePuts == Spec => []FetchSeesWholePuts
<1>1. Inv => FetchSeesWholePuts
  BY DEF Inv
<1>2. QED
  BY <1>1, InvAlways, PTL

(***************************************************************************)
(* The store stepped through by its threads is the store whose put is one  *)
(* step: leaving a put is that step, every other statement none.           *)
(***************************************************************************)
THEOREM ThreadsImplementStore == Spec => ImplementsRunStore
<1>1. Init => Store!StoreInit
  BY DEF Init, Store!StoreInit
<1>2. Inv /\ [Next]_vars => [Store!StoreNext]_(Store!storeVars)
  <2> SUFFICES ASSUME Inv, [Next]_vars PROVE [Store!StoreNext]_(Store!storeVars)
    OBVIOUS
  <2>1. ASSUME NEW t \in Threads, LeavePut(t) PROVE Store!StoreNext
    <3> USE <2>1 DEF LeavePut, Goto
    <3>1. committed' = Store!Stored(committed, arg[t])
      BY LeftIsStored
    <3>2. Len(finished) < MaxPuts
      <4>1. /\ Cardinality(InFlight) \in Nat
            /\ Cardinality(InFlight') = Cardinality(InFlight) - 1
            /\ Cardinality(InFlight') \in Nat
        <5>1. /\ Cardinality(InFlight) \in Nat
              /\ Cardinality(InFlight') = Cardinality(InFlight) - 1
          BY Counted DEF Inv, Labels
        <5>2. t \in InFlight
          BY DEF InFlight
        <5>3. Cardinality(InFlight) # 0
          BY <5>2, FS_EmptySet, FS_Subset, StoreAssumption DEF InFlight
        <5>4. QED
          BY <5>1, <5>3
      <4>2. Len(finished) \in Nat
        BY DEF Inv, Types
      <4>3. QED
        BY <4>1, <4>2, StoreAssumption DEF Inv, Budget
    <3>3. arg[t] \in Store!Artifact
      BY DEF Inv, Types, Artifact
    <3>4. QED
      BY <3>1, <3>2, <3>3 DEF Store!StoreNext, Store!Put
  <2>2. ASSUME NEW t \in Threads,
               \/ CallPut(t) \/ CallGet(t) \/ Acquire(t) \/ Pop(t)
               \/ Insert(t) \/ Evict(t) \/ Read(t) \/ LeaveGet(t)
        PROVE  UNCHANGED Store!storeVars
    BY <2>2 DEF CallPut, CallGet, Acquire, Pop, Insert, Evict, Read, LeaveGet, Store!storeVars
  <2>3. UNCHANGED vars => UNCHANGED Store!storeVars
    BY DEF vars, Store!storeVars
  <2>4. QED
    BY <2>1, <2>2, <2>3 DEF Next, Inside
<1>3. QED
  BY <1>1, <1>2, InvAlways, PTL DEF Spec, ImplementsRunStore, Store!StoreSpec

(***************************************************************************)
(* Whatever the threads interleave, the store left by the last put serves  *)
(* the last ids that finished, for every capacity: what RunStore promises, *)
(* its threads keep.                                                       *)
(***************************************************************************)
THEOREM StoreStaysLatest == Spec => []StoreIsLatest
<1>1. Capacity \in Nat \ {0}
  BY StoreAssumption
<1>2. Spec => Store!StoreSpec
  BY ThreadsImplementStore DEF ImplementsRunStore
<1>3. Store!StoreSpec => History!StoreSpec
  BY DEF Store!StoreSpec, Store!StoreInit, Store!StoreNext, Store!storeVars, Store!Put,
         Store!Stored, Store!EvictOldest, Store!Without, Store!At, Store!Artifact,
         History!StoreSpec, History!StoreInit, History!StoreNext, History!storeVars, History!Put,
         History!Stored, History!EvictOldest, History!Without, History!At, History!Artifact
<1>4. History!StoreSpec => []History!StoreIsLatest
  BY <1>1, History!StoreTellsHistory
<1>5. History!StoreIsLatest => StoreIsLatest
  <2>1. \A S : Store!Cardinality(S) = History!Cardinality(S)
    BY DEF Store!Cardinality, History!Cardinality
  <2>2. \A i : History!Served(i) <=> Store!Served(i)
    BY <2>1 DEF Store!Served, History!Served
  <2> DEFINE these == {i \in 1..Len(finished) : Store!Served(i)}
  <2>3. these = {i \in 1..Len(finished) : History!Served(i)}
    BY <2>2
  <2> HIDE DEF these
  <2>4. History!StoreIsLatest =>
            /\ Len(committed) = Store!Cardinality(these)
            /\ \A i \in these : committed[Store!Cardinality({k \in these : k <= i})] = finished[i]
    BY <2>1, <2>3 DEF History!StoreIsLatest
  <2>5. QED
    BY <2>4 DEF StoreIsLatest, Store!StoreIsLatest, these
<1>6. QED
  BY <1>2, <1>3, <1>4, <1>5, PTL
=============================================================================
