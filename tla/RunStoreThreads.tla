--------------------------- MODULE RunStoreThreads ---------------------------
(***************************************************************************)
(* RunStore of api/runs.py as the threads of the server's pool execute it: *)
(* put pops, inserts and evicts one entry at a time, get looks one up,     *)
(* each inside `with self._lock`.  It implements RunStore, whose put is    *)
(* one step, and a fetch never sees a put half done.                       *)
(***************************************************************************)
EXTENDS Integers, Sequences, FiniteSets

CONSTANTS Threads, Ids, Owners, Capacity, MaxPuts,
          NoThread  \* holder of a free lock

ASSUME StoreAssumption ==
    /\ IsFiniteSet(Threads) /\ NoThread \notin Threads
    /\ Ids # {} /\ Owners # {}
    /\ Capacity \in Nat \ {0} /\ MaxPuts \in Nat

VARIABLES entries,   \* the ordered dictionary, as it is at this instant
          lock,      \* the thread inside the lock, or NoThread
          pc,        \* what each thread does next
          arg,       \* the artifact a thread stores, or the id it fetches
          answer,    \* what a thread's last fetch found: one artifact or none
          committed, \* history: entries when the lock was last released by a put
          finished   \* history: artifacts put, in order

vars == <<entries, lock, pc, arg, answer, committed, finished>>

Store == INSTANCE RunStore WITH runs <- committed

Artifact == Store!Artifact

InFlight == {t \in Threads : pc[t] \in {"put", "pop", "insert", "evict"}}

Init ==
    /\ entries = <<>>
    /\ lock = NoThread
    /\ pc = [t \in Threads |-> "idle"]
    /\ arg \in [Threads -> {CHOOSE a \in Artifact : TRUE}]
    /\ answer = [t \in Threads |-> <<>>]
    /\ committed = <<>>
    /\ finished = <<>>

Goto(t, label) == pc' = [pc EXCEPT ![t] = label]

CallPut(t) ==
    /\ pc[t] = "idle"
    /\ Len(finished) + Cardinality(InFlight) < MaxPuts
    /\ \E a \in Artifact : arg' = [arg EXCEPT ![t] = a]
    /\ Goto(t, "put")
    /\ UNCHANGED <<entries, lock, answer, committed, finished>>

\* Only the id of the argument is used.
CallGet(t) ==
    /\ pc[t] = "idle"
    /\ \E a \in Artifact : arg' = [arg EXCEPT ![t] = a]
    /\ Goto(t, "get")
    /\ UNCHANGED <<entries, lock, answer, committed, finished>>

Entered(t) == IF pc[t] = "put" THEN "pop" ELSE "read"

\* A slip: nobody waits for the lock.
AcquireUnguarded(t) ==
    /\ pc[t] \in {"put", "get"}
    /\ lock' = t
    /\ Goto(t, Entered(t))
    /\ UNCHANGED <<entries, arg, answer, committed, finished>>

\* A slip: only put takes the lock, a fetch being a single lookup.
AcquireToPut(t) ==
    /\ pc[t] \in {"put", "get"}
    /\ pc[t] = "put" => lock = NoThread
    /\ lock' = IF pc[t] = "put" THEN t ELSE lock
    /\ Goto(t, Entered(t))
    /\ UNCHANGED <<entries, arg, answer, committed, finished>>

Acquire(t) ==
    /\ pc[t] \in {"put", "get"}
    /\ lock = NoThread
    /\ lock' = t
    /\ Goto(t, Entered(t))
    /\ UNCHANGED <<entries, arg, answer, committed, finished>>

\* A slip: an id stored again is not popped first.
PopNothing(t) ==
    /\ pc[t] = "pop"
    /\ Goto(t, "insert")
    /\ UNCHANGED <<entries, lock, arg, answer, committed, finished>>

Pop(t) ==
    /\ pc[t] = "pop"
    /\ entries' = Store!Without(entries, arg[t].id)
    /\ Goto(t, "insert")
    /\ UNCHANGED <<lock, arg, answer, committed, finished>>

\* A key of the dictionary keeps its place, a new one becomes the last.
Insert(t) ==
    /\ pc[t] = "insert"
    /\ entries' = IF Store!At(entries, arg[t].id) = {}
                    THEN Append(entries, arg[t])
                    ELSE [i \in 1..Len(entries) |->
                             IF entries[i].id = arg[t].id THEN arg[t] ELSE entries[i]]
    /\ Goto(t, "evict")
    /\ UNCHANGED <<lock, arg, answer, committed, finished>>

Evict(t) ==
    /\ pc[t] = "evict"
    /\ Len(entries) > Capacity
    /\ entries' = Tail(entries)
    /\ UNCHANGED <<lock, pc, arg, answer, committed, finished>>

LeavePut(t) ==
    /\ pc[t] = "evict"
    /\ Len(entries) <= Capacity
    /\ lock' = NoThread
    /\ committed' = entries
    /\ finished' = Append(finished, arg[t])
    /\ Goto(t, "idle")
    /\ UNCHANGED <<entries, arg, answer>>

Read(t) ==
    /\ pc[t] = "read"
    /\ answer' = [answer EXCEPT ![t] = Store!Get(entries, arg[t].id)]
    /\ Goto(t, "found")
    /\ UNCHANGED <<entries, lock, arg, committed, finished>>

\* A slip: a fetch that found nothing returns before it releases.
LeaveGetHolding(t) ==
    /\ pc[t] = "found"
    /\ lock' = IF answer[t] = <<>> THEN lock ELSE NoThread
    /\ Goto(t, "idle")
    /\ UNCHANGED <<entries, arg, answer, committed, finished>>

LeaveGet(t) ==
    /\ pc[t] = "found"
    /\ lock' = NoThread
    /\ Goto(t, "idle")
    /\ UNCHANGED <<entries, arg, answer, committed, finished>>

Inside(t) ==
    Pop(t) \/ Insert(t) \/ Evict(t) \/ LeavePut(t) \/ Read(t) \/ LeaveGet(t)

Next == \E t \in Threads :
    CallPut(t) \/ CallGet(t) \/ Acquire(t) \/ Inside(t)

\* A thread inside the lock is scheduled.  Who gets a free lock is left open:
\* threading.Lock promises no order.
Spec == Init /\ [][Next]_vars /\ \A t \in Threads : WF_vars(Inside(t))

-----------------------------------------------------------------------------
(* Properties.                                                             *)

(***************************************************************************)
(* Threads, lock and dictionary have their shapes; the dictionary is over  *)
(* its capacity, by one, only inside the lock.                             *)
(***************************************************************************)
TypeOK ==
    /\ entries \in Seq(Artifact)
    /\ lock \in Threads \cup {NoThread}
    /\ pc \in [Threads -> {"idle", "put", "pop", "insert", "evict", "get", "read", "found"}]
    /\ arg \in [Threads -> Artifact]
    /\ answer \in [Threads -> Seq(Artifact)]
    /\ committed \in Seq(Artifact)
    /\ finished \in Seq(Artifact)
    /\ Len(entries) <= IF lock = NoThread THEN Capacity ELSE Capacity + 1

(***************************************************************************)
(* Whatever the threads interleave, the store left by the last put is the  *)
(* last Capacity distinct ids in the order they finished, an id stored     *)
(* again showing its later run; fetching changes none of it.               *)
(***************************************************************************)
StoreIsLatest == Store!StoreIsLatest

(***************************************************************************)
(* What a fetch found is what the last finished put left: never a store    *)
(* with an entry popped and not inserted again, or one entry too many.     *)
(***************************************************************************)
FetchSeesWholePuts ==
    \A t \in Threads :
        pc[t] = "found" => answer[t] = Store!Get(committed, arg[t].id)

(***************************************************************************)
(* Popping, inserting and evicting under the lock amount to the single     *)
(* step of RunStore.                                                       *)
(***************************************************************************)
ImplementsRunStore == Store!StoreSpec

(***************************************************************************)
(* The lock always comes back, whichever way a call leaves: a fetch that   *)
(* finds nothing returns from inside the block too.                        *)
(***************************************************************************)
LockComesBack == []<>(lock = NoThread)
=============================================================================
