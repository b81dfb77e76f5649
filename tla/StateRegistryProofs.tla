------------------------- MODULE StateRegistryProofs -------------------------
(***************************************************************************)
(* Proofs about StateRegistry, for any number of threads, objects and      *)
(* references, with setups that fail, modules and native handles, without  *)
(* the two moments at which the collector takes a reference away that is   *)
(* in use: the counters are exact, nothing leaks, a singleton has one      *)
(* state, without native handles no notification is lost, and where memory *)
(* does not run short when an object was found, nothing is used after it   *)
(* was freed.                                                              *)
(***************************************************************************)
EXTENDS StateRegistry, FiniteSetTheorems, TLAPS

SafeCollections == Features \cap {"gcInFind", "gcInCall"} = {}

(* There is memory for a reference to what was found.                      *)
FindsSucceed == "findFails" \notin Features

(* Where a thread is going to make a reference, has found an object, has a *)
(* reference that it works with, or calls or closes the object of it.      *)
Pending == {"lookup", "examine", "waiting", "relock", "makeref", "create"}
HasFound == {"examine", "waiting", "relock", "makeref"}
Calling == {"closing", "callwait", "callrelock", "calling", "ending"}
Holding == {"setup", "require", "release"} \cup Calling

OwnersOf(s) == {r \in RefsOf(s) : IsOwner(r)}

NoneYet(t) ==
  /\ pc[t] = "failed" => ~FindsSucceed
  /\ pc[t] \in {"run", "lookup", "create"} => op[t].state = NoState
  /\ pc[t] \in {"run", "free"} => op[t].ref = NoRef

(* What is going to be a reference is none yet, and nobody else's. *)
PendingAgrees(t) ==
  pc[t] \in Pending =>
    /\ op[t].ref \in Refs /\ ref[op[t].ref] = NoRef
    /\ \A u \in Threads \ {t} : op[u].ref # op[t].ref

(* Who creates a singleton keeps the global lock since the name was free. *)
CreatorAgrees(t) ==
  pc[t] = "create" =>
    \/ op[t].mode = "new" /\ "new" \in Modes /\ op[t].want \in Names \cup {NoName}
    \/ /\ op[t].mode = "singleton" /\ globalLock = t /\ op[t].want \in Names
       /\ \A s \in States : obj[s].listed /\ ~obj[s].closed => obj[s].name # op[t].want

(* What was found under the global lock keeps an owner as long as that is  *)
(* held.                                                                   *)
FinderAgrees(t) ==
  pc[t] \in HasFound =>
    /\ globalLock = t
    /\ op[t].state \in States /\ obj[op[t].state].owned > 0
    /\ pc[t] = "makeref" => obj[op[t].state].initialized

HolderAgrees(t) ==
  pc[t] \in Holding =>
    /\ op[t].ref \in Refs /\ IsRef(op[t].ref)
    /\ ref[op[t].ref].state = op[t].state /\ ref[op[t].ref].holder = t
    /\ pc[t] \in {"setup", "require"} => ~obj[op[t].state].initialized
    /\ pc[t] = "release" => globalLock = t /\ ref[op[t].ref].kind # "native"
    /\ pc[t] \in Calling => ref[op[t].ref].kind # "lost"

(* One thread frees what has no reference. *)
FreerAgrees(t) ==
  pc[t] = "free" =>
    /\ op[t].state \in States /\ obj[op[t].state].alloc = "live"
    /\ \A r \in Refs : IsRef(r) => ref[r].state # op[t].state
    /\ \A u \in Threads \ {t} : pc[u] = "free" => op[u].state # op[t].state

Place(t) ==
  /\ NoneYet(t) /\ PendingAgrees(t) /\ CreatorAgrees(t)
  /\ FinderAgrees(t) /\ HolderAgrees(t) /\ FreerAgrees(t)
Places == \A t \in Threads : Place(t)

(* The counters, of objects that are not alive too. *)
Counts ==
  \A s \in States : /\ obj[s].used = Cardinality(RefsOf(s))
                    /\ obj[s].owned = Cardinality(OwnersOf(s))

(* Before its setup has succeeded an object is busy and has one reference, *)
(* which is lost to user code.                                             *)
SetupIsUnfinished ==
  /\ \A s \in States : obj[s].alloc = "live" /\ ~obj[s].initialized =>
       obj[s].isBusy /\ ~obj[s].L2 /\ obj[s].used = 1
  /\ \A r \in Refs : IsRef(r) /\ ~obj[ref[r].state].initialized => ref[r].kind = "lost"

ObjectsAgree ==
  Counts /\ ReferencesAreLive /\ NothingLeaks /\ FoundIsOwned /\ SetupIsUnfinished

IInv == TypeOK /\ Places /\ ObjectsAgree

-----------------------------------------------------------------------------

LEMMA Nones ==
  /\ NoThread \notin Threads /\ NoState \notin States /\ NoRef \notin Refs
  /\ NoRef \notin References /\ NoName \notin Names /\ IsFiniteSet(Refs)
  /\ Modes \subseteq AllModes /\ Names \cap States = {}
BY RegistryAssumption, ReferenceAssumption DEF RegistryAssumption, ReferenceAssumption

LEMMA CardinalitiesAreNat ==
  ASSUME NEW s \in States
  PROVE  /\ IsFiniteSet(RefsOf(s)) /\ IsFiniteSet(OwnersOf(s))
         /\ Cardinality(RefsOf(s)) \in Nat /\ Cardinality(OwnersOf(s)) \in Nat
<1>1. RefsOf(s) \subseteq Refs /\ OwnersOf(s) \subseteq Refs
  BY DEF RefsOf, OwnersOf
<1> QED
  BY <1>1, Nones, FS_Subset, FS_CardinalityType

LEMMA InitIInv == Init => IInv
<1> SUFFICES ASSUME Init PROVE IInv
  OBVIOUS
<1> USE Nones
<1>1. \A s \in States : RefsOf(s) = {} /\ OwnersOf(s) = {}
  BY DEF Init, RefsOf, OwnersOf, IsRef
<1>2. TypeOK
  BY DEF Init, TypeOK, Objects, Unused, PCs, Operations, NoOp
<1>3. Places
  BY DEF Init, Places, Place, NoneYet, PendingAgrees, CreatorAgrees, FinderAgrees,
         HolderAgrees, FreerAgrees, Pending, HasFound, Calling, Holding, NoOp
<1>4. Counts
  BY <1>1, FS_EmptySet DEF Init, Counts, Unused
<1>5. ReferencesAreLive /\ NothingLeaks /\ FoundIsOwned /\ SetupIsUnfinished
  BY DEF Init, ReferencesAreLive, NothingLeaks, FoundIsOwned, SetupIsUnfinished, Unused, IsRef
<1> QED
  BY <1>2, <1>3, <1>4, <1>5 DEF IInv, ObjectsAgree

(* An object that is counted has references, and is alive. *)
LEMMA CountedIsLive ==
  ASSUME IInv, NEW s \in States, obj[s].used > 0 \/ obj[s].owned > 0
  PROVE  /\ obj[s].alloc = "live" /\ obj[s].used > 0
         /\ \E r \in Refs : IsRef(r) /\ ref[r].state = s
<1>1. PICK r \in RefsOf(s) : TRUE
  BY FS_EmptySet DEF IInv, ObjectsAgree, Counts, OwnersOf
<1>2. r \in Refs /\ IsRef(r) /\ ref[r].state = s
  BY DEF RefsOf
<1>3. Cardinality(RefsOf(s)) # 0
  BY <1>1, CardinalitiesAreNat, FS_EmptySet
<1> QED
  BY <1>2, <1>3, CardinalitiesAreNat
     DEF IInv, ObjectsAgree, Counts, ReferencesAreLive

LEMMA ReferredIsCounted ==
  ASSUME IInv, NEW r \in Refs, IsRef(r)
  PROVE  /\ ref[r] \in References /\ ref[r].state \in States
         /\ obj[ref[r].state].alloc = "live" /\ obj[ref[r].state].used > 0
         /\ IsOwner(r) => obj[ref[r].state].owned > 0
<1> DEFINE s == ref[r].state
<1>1. ref[r] \in References /\ s \in States
  BY DEF IInv, TypeOK, IsRef, References
<1>2. r \in RefsOf(s) /\ (IsOwner(r) => r \in OwnersOf(s))
  BY DEF RefsOf, OwnersOf
<1>3. Cardinality(RefsOf(s)) # 0 /\ (IsOwner(r) => Cardinality(OwnersOf(s)) # 0)
  BY <1>1, <1>2, CardinalitiesAreNat, FS_EmptySet
<1> QED
  BY <1>1, <1>3, CardinalitiesAreNat DEF IInv, ObjectsAgree, Counts, ReferencesAreLive

(* Whatever a thread works on is alive. *)
LEMMA WorkedOnIsLive ==
  ASSUME IInv, NEW t \in Threads, pc[t] \in HasFound \cup Holding \cup {"free"}
  PROVE  op[t].state \in States /\ obj[op[t].state].alloc = "live"
<1>1. Place(t)
  BY DEF IInv, Places
<1>2. CASE pc[t] \in HasFound
  BY <1>1, <1>2, CountedIsLive DEF Place, FinderAgrees
<1>3. CASE pc[t] \in Holding
  BY <1>1, <1>3, ReferredIsCounted DEF Place, HolderAgrees
<1>4. CASE pc[t] = "free"
  BY <1>1, <1>4 DEF Place, FreerAgrees
<1> QED
  BY <1>2, <1>3, <1>4

-----------------------------------------------------------------------------
(* Steps of one thread, seen by the others *)

(* What a step of t leaves to them: their references and what they found,  *)
(* and what they wait for to be theirs.                                    *)
Apart(t) ==
  \A u \in Threads \ {t} :
    /\ op'[u] = op[u]
    /\ \/ pc'[u] = pc[u]
       \/ pc[u] = "waiting" /\ pc'[u] = "relock"
       \/ pc[u] = "callwait" /\ pc'[u] = "callrelock"
    /\ globalLock = u => globalLock' = u
    /\ pc[u] \in Pending =>
         ref'[op[u].ref] = NoRef /\ op'[t].ref # op[u].ref
    /\ pc[u] \in Holding =>
         /\ ref'[op[u].ref] = ref[op[u].ref]
         /\ obj'[op[u].state].initialized = obj[op[u].state].initialized
    /\ pc[u] \in HasFound =>
         /\ obj'[op[u].state].owned > 0
         /\ obj[op[u].state].initialized => obj'[op[u].state].initialized
    /\ pc[u] = "free" =>
         /\ obj'[op[u].state].alloc = "live"
         /\ \A r \in Refs : IsRef(r)' => ref'[r].state # op[u].state
         /\ pc'[t] = "free" => op'[t].state # op[u].state
    /\ pc[u] = "create" /\ globalLock = u => \A s \in States :
         obj'[s].listed /\ ~obj'[s].closed =>
           obj[s].listed /\ ~obj[s].closed /\ obj'[s].name = obj[s].name

LEMMA ApartKeeps ==
  ASSUME IInv, NEW t \in Threads, Apart(t), Place(t)'
  PROVE  Places'
<1> SUFFICES ASSUME NEW u \in Threads \ {t} PROVE Place(u)'
  BY DEF Places
<1>1. Place(u) /\ Place(t)
  BY DEF IInv, Places
<1>2. /\ op'[u] = op[u]
      /\ \/ pc'[u] = pc[u]
         \/ pc[u] = "waiting" /\ pc'[u] = "relock"
         \/ pc[u] = "callwait" /\ pc'[u] = "callrelock"
  BY DEF Apart
<1>3. NoneYet(u)'
  BY <1>1, <1>2 DEF Place, NoneYet
<1>4. PendingAgrees(u)'
  <2>1. pc'[u] \in Pending => pc[u] \in Pending
    BY <1>2 DEF Pending
  <2> QED
    BY <1>1, <1>2, <2>1 DEF Place, PendingAgrees, Apart
<1>5. CreatorAgrees(u)'
  BY <1>1, <1>2 DEF Place, CreatorAgrees, Apart
<1>6. FinderAgrees(u)'
  BY <1>1, <1>2 DEF Place, FinderAgrees, Apart, HasFound
<1>7. HolderAgrees(u)'
  <2>1. pc'[u] \in Holding => pc[u] \in Holding
    BY <1>2 DEF Holding, Calling
  <2>2. pc'[u] \in Calling => pc[u] \in Calling
    BY <1>2 DEF Calling
  <2> QED
    BY <1>1, <1>2, <2>1, <2>2 DEF Place, HolderAgrees, Apart, IsRef
<1>8. FreerAgrees(u)'
  BY <1>1, <1>2 DEF Place, FreerAgrees, Apart
<1> QED
  BY <1>3, <1>4, <1>5, <1>6, <1>7, <1>8 DEF Place

(* A step that leaves references, counters and the places of objects alone *)
Quiet ==
  /\ ref' = ref
  /\ \A s \in States :
       /\ obj'[s].alloc = obj[s].alloc /\ obj'[s].used = obj[s].used
       /\ obj'[s].owned = obj[s].owned /\ obj'[s].listed = obj[s].listed
       /\ obj'[s].name = obj[s].name /\ obj'[s].initialized = obj[s].initialized
       /\ obj[s].closed => obj'[s].closed
       /\ ~obj[s].initialized => obj'[s].isBusy = obj[s].isBusy /\ obj'[s].L2 = obj[s].L2

LEMMA QuietKeeps ==
  ASSUME IInv, Quiet, NEW t \in Threads, pc[t] # "free",
         \A u \in Threads \ {t} : pc[u] = "free" => pc'[u] = pc[u] /\ op'[u] = op[u]
  PROVE  ObjectsAgree'
<1>1. \A s \in States : RefsOf(s)' = RefsOf(s) /\ OwnersOf(s)' = OwnersOf(s)
  BY DEF Quiet, RefsOf, OwnersOf, IsRef, IsOwner
<1>2. Counts'
  BY <1>1 DEF IInv, ObjectsAgree, Counts, Quiet
<1>3. ReferencesAreLive'
  BY ReferredIsCounted DEF Quiet, ReferencesAreLive, IsRef
<1>4. NothingLeaks'
  BY <1>1 DEF IInv, ObjectsAgree, NothingLeaks, Quiet
<1>5. FoundIsOwned'
  BY DEF IInv, ObjectsAgree, FoundIsOwned, Quiet
<1>6. SetupIsUnfinished'
  BY ReferredIsCounted DEF IInv, ObjectsAgree, SetupIsUnfinished, Quiet, IsRef
<1> QED
  BY <1>2, <1>3, <1>4, <1>5, <1>6 DEF ObjectsAgree

(* Quiet steps of a thread that does not take the global lock from others  *)
(* nor what they are going to make a reference of.                         *)
LEMMA QuietApart ==
  ASSUME IInv, Quiet, NEW t \in Threads,
         \A u \in Threads \ {t} :
           /\ op'[u] = op[u]
           /\ \/ pc'[u] = pc[u]
              \/ pc[u] = "waiting" /\ pc'[u] = "relock"
              \/ pc[u] = "callwait" /\ pc'[u] = "callrelock"
           /\ globalLock = u => globalLock' = u,
         pc'[t] # "free",
         op'[t].ref \in {op[t].ref, NoRef} \/ IsRef(op'[t].ref) \/ Fresh(op'[t].ref)
  PROVE  Apart(t)
<1> SUFFICES ASSUME NEW u \in Threads \ {t} PROVE
    /\ pc[u] \in Pending =>
         ref'[op[u].ref] = NoRef /\ op'[t].ref # op[u].ref
    /\ pc[u] \in Holding =>
         /\ ref'[op[u].ref] = ref[op[u].ref]
         /\ obj'[op[u].state].initialized = obj[op[u].state].initialized
    /\ pc[u] \in HasFound =>
         /\ obj'[op[u].state].owned > 0
         /\ obj[op[u].state].initialized => obj'[op[u].state].initialized
    /\ pc[u] = "free" =>
         /\ obj'[op[u].state].alloc = "live"
         /\ \A r \in Refs : IsRef(r)' => ref'[r].state # op[u].state
    /\ pc[u] = "create" /\ globalLock = u => \A s \in States :
         obj'[s].listed /\ ~obj'[s].closed =>
           obj[s].listed /\ ~obj[s].closed /\ obj'[s].name = obj[s].name
  BY DEF Apart
<1>1. Place(u)
  BY DEF IInv, Places
<1>2. pc[u] \in Pending => ref'[op[u].ref] = NoRef /\ op'[t].ref # op[u].ref
  BY <1>1, Nones DEF Place, PendingAgrees, Quiet, IsRef, Fresh
<1>3. pc[u] \in Holding \cup HasFound =>
         obj'[op[u].state].initialized = obj[op[u].state].initialized
  BY WorkedOnIsLive DEF Quiet
<1>4. pc[u] \in HasFound => obj'[op[u].state].owned > 0
  BY <1>1 DEF Place, FinderAgrees, Quiet
<1>5. pc[u] = "free" => /\ obj'[op[u].state].alloc = "live"
                       /\ \A r \in Refs : IsRef(r)' => ref'[r].state # op[u].state
  BY <1>1 DEF Place, FreerAgrees, Quiet, IsRef
<1> QED
  BY <1>2, <1>3, <1>4, <1>5 DEF Quiet

(* What becomes of the other threads. *)
Others(t) ==
  \A u \in Threads \ {t} :
    /\ op'[u] = op[u]
    /\ \/ pc'[u] = pc[u]
       \/ pc[u] = "waiting" /\ pc'[u] = "relock"
       \/ pc[u] = "callwait" /\ pc'[u] = "callrelock"
    /\ globalLock = u => globalLock' = u

LEMMA QuietStep ==
  ASSUME IInv, NEW t \in Threads, TypeOK', Quiet, Others(t), Place(t)',
         pc[t] # "free", pc'[t] # "free",
         op'[t].ref \in {op[t].ref, NoRef} \/ IsRef(op'[t].ref) \/ Fresh(op'[t].ref)
  PROVE  IInv'
<1>1. Apart(t)
  BY QuietApart DEF Others
<1>2. Places'
  BY <1>1, ApartKeeps
<1>3. \A u \in Threads \ {t} : pc[u] = "free" => pc'[u] = pc[u] /\ op'[u] = op[u]
  BY DEF Others
<1> QED
  BY <1>2, <1>3, QuietKeeps DEF IInv

LEMMA Notified ==
  ASSUME TypeOK, NEW t \in Threads, NEW s \in States, NEW p \in PCs, Notify(t, s, p),
         pc[t] \notin {"waiting", "callwait"}
  PROVE  /\ pc' \in [Threads -> PCs] /\ pc'[t] = p
         /\ \A u \in Threads \ {t} :
              \/ pc'[u] = pc[u]
              \/ pc[u] = "waiting" /\ pc'[u] = "relock"
              \/ pc[u] = "callwait" /\ pc'[u] = "callrelock"
BY DEF TypeOK, Notify, Goto, Waiting, Awake, PCs

LEMMA Finished ==
  ASSUME TypeOK, NEW t \in Threads, Finish(t)
  PROVE  /\ pc' \in [Threads -> PCs] /\ op' \in [Threads -> Operations] /\ pc'[t] = "run"
         /\ op'[t].ref = NoRef /\ op'[t].state = NoState /\ Place(t)'
         /\ \A u \in Threads \ {t} : op'[u] = op[u] /\ pc'[u] = pc[u]
<1>1. /\ pc' \in [Threads -> PCs] /\ op' \in [Threads -> Operations] /\ pc'[t] = "run"
      /\ op'[t].ref = NoRef /\ op'[t].state = NoState
      /\ \A u \in Threads \ {t} : op'[u] = op[u] /\ pc'[u] = pc[u]
  BY DEF TypeOK, Finish, NoOp, Goto, PCs, Operations
<1> QED
  BY <1>1 DEF Place, NoneYet, PendingAgrees, CreatorAgrees, FinderAgrees,
              HolderAgrees, FreerAgrees, Pending, HasFound, Calling, Holding

LEMMA Used ==
  ASSUME TypeOK, NEW t \in Threads, NEW s \in States, NEW r \in Refs, NEW p \in PCs,
         Goto(t, p), op' = [op EXCEPT ![t].state = s, ![t].ref = r]
  PROVE  /\ pc' \in [Threads -> PCs] /\ op' \in [Threads -> Operations]
         /\ pc'[t] = p /\ op'[t].state = s /\ op'[t].ref = r
         /\ \A u \in Threads \ {t} : op'[u] = op[u] /\ pc'[u] = pc[u]
<1>1. pc' \in [Threads -> PCs] /\ pc'[t] = p
      /\ \A u \in Threads \ {t} : op'[u] = op[u] /\ pc'[u] = pc[u]
  BY DEF TypeOK, Goto
<1>2. op'[t] = [mode |-> op[t].mode, want |-> op[t].want, state |-> s, ref |-> r]
  BY DEF TypeOK, Operations
<1>3. op'[t] \in Operations
  BY <1>2 DEF TypeOK, Operations
<1>4. op' \in [Threads -> Operations]
  BY <1>3 DEF TypeOK
<1> QED
  BY <1>1, <1>2, <1>4

LEMMA StateSet ==
  ASSUME TypeOK, NEW t \in Threads, NEW s \in States, op' = [op EXCEPT ![t].state = s]
  PROVE  /\ op' \in [Threads -> Operations] /\ op'[t].state = s /\ op'[t].ref = op[t].ref
         /\ \A u \in Threads \ {t} : op'[u] = op[u]
<1>1. op'[t] = [mode |-> op[t].mode, want |-> op[t].want, state |-> s, ref |-> op[t].ref]
  BY DEF TypeOK, Operations
<1>2. op'[t] \in Operations
  BY <1>1 DEF TypeOK, Operations
<1> QED
  BY <1>1, <1>2 DEF TypeOK

(* One field of an object changes. *)
LEMMA LoadedChanged ==
  ASSUME TypeOK, NEW s \in States, NEW b \in BOOLEAN, obj' = [obj EXCEPT ![s].loaded = b]
  PROVE  /\ obj' \in [States -> Objects]
         /\ \A u \in States \ {s} : obj'[u] = obj[u]
         /\ obj'[s] = [obj[s] EXCEPT !.loaded = b]
         /\ ref' = ref => Quiet
<1>1. obj'[s] = [obj[s] EXCEPT !.loaded = b] /\ \A u \in States \ {s} : obj'[u] = obj[u]
  BY DEF TypeOK
<1>2. obj'[s] \in Objects
  BY <1>1 DEF TypeOK, Objects
<1>3. ref' = ref => Quiet
  BY <1>1 DEF TypeOK, Objects, Quiet
<1> QED
  BY <1>1, <1>2, <1>3 DEF TypeOK

-----------------------------------------------------------------------------
(* Invocations and lookups *)

LEMMA StartStep ==
  ASSUME IInv, NEW t \in Threads, NEW m \in Modes, NEW w \in Names \cup States \cup {NoName},
         NEW r \in Refs, Start(t, m, w, r)
  PROVE  IInv'
<1> USE Nones
<1>1. TypeOK'
  BY DEF IInv, Start, TypeOK, Goto, PCs, Operations, AllModes
<1>2. Quiet /\ Others(t)
  BY DEF Start, Quiet, Others, IInv, TypeOK, Goto
<1>3. Place(t)'
  BY DEF IInv, TypeOK, Start, Goto, Fresh, Wants, AllModes, Place, NoneYet, PendingAgrees,
         CreatorAgrees, FinderAgrees, HolderAgrees, FreerAgrees, Pending, HasFound, Calling, Holding
<1>4. pc[t] # "free" /\ pc'[t] # "free" /\ Fresh(op'[t].ref)
  BY DEF IInv, TypeOK, Start, Goto
<1> QED
  BY <1>1, <1>2, <1>3, <1>4, QuietStep

(* What a lookup finds has an owner. *)
LEMMA MatchesHaveOwners ==
  ASSUME IInv, NEW t \in Threads, NEW s \in Matches(t)
  PROVE  s \in States /\ obj[s].owned > 0
<1>1. s \in States /\ obj[s].listed /\ ~obj[s].closed
  BY DEF Matches
<1> QED
  BY <1>1 DEF IInv, ObjectsAgree, FoundIsOwned

LEMMA LookupStep ==
  ASSUME IInv, NEW t \in Threads, Lookup(t)
  PROVE  IInv'
<1> USE Nones
<1>0. Place(t) /\ TypeOK
  BY DEF IInv, Places
<1>1. Quiet
  BY DEF Lookup, Quiet
<1>2. pc[t] = "lookup" /\ GlobalFree(t)
  BY DEF Lookup
<1>3. CASE \E s \in Matches(t) :
             globalLock' = t /\ Goto(t, "examine") /\ op' = [op EXCEPT ![t].state = s]
  <2>1. PICK s \in Matches(t) :
          globalLock' = t /\ Goto(t, "examine") /\ op' = [op EXCEPT ![t].state = s]
    BY <1>3
  <2>2. s \in States /\ obj[s].owned > 0
    BY MatchesHaveOwners
  <2>3. TypeOK'
    BY <1>0, <2>1, <2>2, StateSet DEF Lookup, TypeOK, Goto, PCs
  <2>4. Others(t)
    BY <1>0, <1>2, <2>1 DEF Others, TypeOK, Goto, GlobalFree
  <2>5. Place(t)'
    BY <1>0, <1>2, <2>1, <2>2
       DEF Lookup, TypeOK, Goto, Place, NoneYet, PendingAgrees, CreatorAgrees, FinderAgrees,
           HolderAgrees, FreerAgrees, Pending, HasFound, Calling, Holding
  <2>6. pc'[t] # "free" /\ op'[t].ref = op[t].ref
    BY <1>0, <2>1, <2>2, StateSet DEF TypeOK, Goto
  <2> QED
    BY <1>1, <1>2, <2>3, <2>4, <2>5, <2>6, QuietStep
<1>4. CASE Matches(t) = {} /\ Creates(t) /\ globalLock' = t /\ Goto(t, "create") /\ op' = op
  <2>1. TypeOK'
    BY <1>0, <1>4 DEF Lookup, TypeOK, Goto, PCs
  <2>2. Others(t)
    BY <1>0, <1>2, <1>4 DEF Others, TypeOK, Goto, GlobalFree
  <2>3. \A s \in States : obj[s].listed /\ ~obj[s].closed => obj[s].name # op[t].want
    BY <1>4 DEF Matches, Creates
  <2>4. Place(t)'
    BY <1>0, <1>2, <1>4, <2>3
       DEF Lookup, TypeOK, Goto, Creates, Place, NoneYet, PendingAgrees, CreatorAgrees,
           FinderAgrees, HolderAgrees, FreerAgrees, Pending, HasFound, Calling, Holding
  <2>5. pc'[t] # "free" /\ op'[t].ref = op[t].ref
    BY <1>0, <1>4 DEF TypeOK, Goto
  <2> QED
    BY <1>1, <1>2, <2>1, <2>2, <2>4, <2>5, QuietStep
<1>5. CASE globalLock' = NoThread /\ Finish(t)
  <2>1. TypeOK' /\ Others(t)
    BY <1>0, <1>2, <1>5, Finished DEF Lookup, TypeOK, Others, GlobalFree
  <2> QED
    BY <1>0, <1>1, <1>2, <1>5, <2>1, Finished, QuietStep
<1> QED
  BY <1>3, <1>4, <1>5 DEF Lookup

LEMMA FoundStep ==
  ASSUME IInv, NEW t \in Threads, pc[t] \in {"examine", "relock"},
         \/ Ready(op[t].state) /\ Take(t, op[t].state)
         \/ Await(t, op[t].state),
         UNCHANGED <<globalLock, ref, op>>
  PROVE  IInv'
<1> DEFINE s == op[t].state
<1>0. Place(t) /\ TypeOK
  BY DEF IInv, Places
<1>1. s \in States /\ obj[s].alloc = "live"
  BY WorkedOnIsLive DEF HasFound
<1>2. obj[s].initialized \/ obj[s].isBusy
  BY <1>1 DEF IInv, ObjectsAgree, SetupIsUnfinished
<1>3. Sleep(t, s) \/ (Take(t, s) /\ obj[s].initialized)
  BY <1>2 DEF Await, Ready
<1>4. \/ stateMutex' = stateMutex /\ Goto(t, "waiting")
      \/ stateMutex' = [stateMutex EXCEPT ![s] = t] /\ Goto(t, "makeref") /\ obj[s].initialized
  BY <1>3 DEF Sleep, Take
<1>5. obj' = obj
  BY <1>2 DEF Await, Ready, Take
<1>6. TypeOK'
  BY <1>0, <1>1, <1>4, <1>5 DEF TypeOK, Goto, PCs
<1>7. Quiet /\ Others(t)
  BY <1>0, <1>4, <1>5 DEF Quiet, Others, TypeOK, Goto
<1>8. Place(t)'
  BY <1>0, <1>1, <1>4, <1>5
     DEF TypeOK, Goto, Place, NoneYet, PendingAgrees, CreatorAgrees, FinderAgrees,
         HolderAgrees, FreerAgrees, Pending, HasFound, Calling, Holding
<1>9. pc'[t] # "free"
  BY <1>0, <1>4 DEF TypeOK, Goto
<1> QED
  BY <1>6, <1>7, <1>8, <1>9, QuietStep

LEMMA CreateFailsStep ==
  ASSUME IInv, NEW t \in Threads, CreateFails(t)
  PROVE  IInv'
<1>1. TypeOK
  BY DEF IInv
<1>2. pc[t] = "create" /\ Finish(t) /\ globalLock' = NoThread /\ GlobalFree(t)
      /\ UNCHANGED <<stateMutex, obj, ref>>
  BY DEF CreateFails
<1>3. TypeOK' /\ Quiet /\ Others(t)
  BY <1>1, <1>2, Finished DEF TypeOK, Quiet, Others, GlobalFree
<1> QED
  BY <1>1, <1>2, <1>3, Finished, QuietStep

(* A find that fails has counted nothing.                                  *)
LEMMA FindFailsStep ==
  ASSUME IInv, NEW t \in Threads, MakeRefFails(t) \/ FindFailed(t)
  PROVE  IInv'
<1>1. TypeOK /\ obj' = obj /\ ref' = ref
  BY DEF IInv, MakeRefFails, FindFailed
<1>2. CASE FindFailed(t)
  <2>1. pc[t] = "failed" /\ Finish(t) /\ UNCHANGED <<globalLock, stateMutex, obj, ref>>
    BY <1>2 DEF FindFailed
  <2>2. TypeOK' /\ Quiet /\ Others(t)
    BY <1>1, <2>1, Finished DEF TypeOK, Quiet, Others
  <2> QED
    BY <1>1, <2>1, <2>2, Finished, QuietStep
<1>3. CASE MakeRefFails(t)
  <2>1. /\ pc[t] = "makeref" /\ globalLock' = NoThread /\ op' = op /\ ~FindsSucceed
        /\ stateMutex' = [stateMutex EXCEPT ![op[t].state] = NoThread]
        /\ pc' = [pc EXCEPT ![t] = "failed"]
    BY <1>3 DEF MakeRefFails, Goto, FindsSucceed
  <2>2. globalLock = t
    BY <2>1 DEF IInv, Places, Place, FinderAgrees, HasFound
  <2>3. /\ pc' \in [Threads -> PCs] /\ pc'[t] = "failed"
        /\ \A u \in Threads \ {t} : op'[u] = op[u] /\ pc'[u] = pc[u]
    BY <1>1, <2>1 DEF TypeOK, PCs
  <2>4. TypeOK' /\ Quiet /\ Others(t)
    BY <1>1, <2>1, <2>2, <2>3, Nones DEF TypeOK, Quiet, Others
  <2>5. Place(t)'
    BY <2>1, <2>3 DEF Place, NoneYet, FindsSucceed, PendingAgrees, CreatorAgrees, FinderAgrees,
                      HolderAgrees, FreerAgrees, Pending, HasFound, Calling, Holding
  <2> QED
    BY <2>1, <2>3, <2>4, <2>5, QuietStep
<1> QED
  BY <1>2, <1>3

-----------------------------------------------------------------------------
(* Steps of setup functions, calls and collections that leave references   *)
(* and counters alone                                                      *)

(* A step of a thread that holds a reference, or gets one that it can use. *)
Holds(t) ==
  LET r == op'[t].ref IN
  /\ r \in Refs /\ IsRef(r) /\ ref[r].holder = t /\ ref[r].state = op'[t].state
  /\ pc'[t] \in {"setup", "require"} => ~obj[ref[r].state].initialized
  /\ pc'[t] = "release" => globalLock' = t /\ ref[r].kind # "native"
  /\ pc'[t] \in Calling => ref[r].kind # "lost"

LEMMA HoldingStep ==
  ASSUME IInv, NEW t \in Threads, TypeOK', Quiet, Others(t),
         pc[t] # "free", pc'[t] \in Holding, Holds(t)
  PROVE  IInv'
<1>1. HolderAgrees(t)'
  BY ReferredIsCounted DEF Holds, HolderAgrees, Quiet, IsRef
<1>2. Place(t)'
  BY <1>1
     DEF Place, NoneYet, PendingAgrees, CreatorAgrees, FinderAgrees,
         FreerAgrees, Pending, HasFound, Calling, Holding
<1>3. pc'[t] # "free"
  BY DEF Holding, Calling
<1>4. IsRef(op'[t].ref)
  BY DEF Holds
<1> QED
  BY <1>2, <1>3, <1>4, QuietStep

LEMMA HolderHolds ==
  ASSUME IInv, NEW t \in Threads, pc[t] \in Holding
  PROVE  /\ op[t].ref \in Refs /\ IsRef(op[t].ref)
         /\ ref[op[t].ref].state = op[t].state /\ ref[op[t].ref].holder = t
         /\ op[t].state \in States /\ obj[op[t].state].alloc = "live"
         /\ pc[t] \in {"setup", "require"} => ~obj[op[t].state].initialized
         /\ pc[t] = "release" => globalLock = t /\ ref[op[t].ref].kind # "native"
         /\ pc[t] \in Calling => ref[op[t].ref].kind # "lost" /\ obj[op[t].state].initialized
<1>1. Place(t)
  BY DEF IInv, Places
<1>2. op[t].state \in States /\ obj[op[t].state].alloc = "live"
  BY WorkedOnIsLive
<1> QED
  BY <1>1, <1>2 DEF Place, HolderAgrees, IInv, ObjectsAgree, SetupIsUnfinished

LEMMA RequireStep ==
  ASSUME IInv, NEW t \in Threads, Require(t)
  PROVE  IInv'
<1>1. TypeOK
  BY DEF IInv
<1>2. TypeOK' /\ Quiet /\ Others(t) /\ pc[t] = "setup" /\ pc'[t] = "require"
  BY <1>1 DEF Require, TypeOK, Quiet, Others, Goto, PCs
<1>3. Holds(t)
  BY <1>2, HolderHolds DEF Require, Holds, Holding, Calling
<1> QED
  BY <1>2, <1>3, HoldingStep DEF Holding

LEMMA RequiredStep ==
  ASSUME IInv, NEW t \in Threads, Required(t)
  PROVE  IInv'
<1>1. TypeOK
  BY DEF IInv
<1>2. op[t].state \in States
  BY HolderHolds DEF Required, Holding
<1>3. TypeOK' /\ Quiet
  BY <1>1, <1>2, LoadedChanged DEF Required, TypeOK, Goto, PCs
<1>4. Others(t) /\ pc[t] = "require" /\ pc'[t] = "setup"
  BY <1>1 DEF Required, TypeOK, Others, Goto
<1>5. Holds(t)
  BY <1>4, HolderHolds DEF Required, Holds, Holding, Calling
<1> QED
  BY <1>3, <1>4, <1>5, HoldingStep DEF Holding

LEMMA SetupFailsStep ==
  ASSUME IInv, NEW t \in Threads, SetupFails(t)
  PROVE  IInv'
<1>1. TypeOK
  BY DEF IInv
<1>2. op[t].state \in States
  BY HolderHolds DEF SetupFails, Holding
<1>3. TypeOK' /\ Quiet
  BY <1>1, <1>2, LoadedChanged, Finished DEF SetupFails, TypeOK
<1>4. Others(t) /\ pc[t] = "setup"
  BY <1>1, Finished DEF SetupFails, Others
<1> QED
  BY <1>1, <1>3, <1>4, Finished, QuietStep DEF SetupFails

LEMMA CollectStep ==
  ASSUME IInv, NEW t \in Threads, NEW r \in Refs, Collect(t, r)
  PROVE  IInv'
<1>1. TypeOK /\ ref[r].state \in States
  BY ReferredIsCounted DEF IInv, Collect
<1>2. Use(t, r, "release") /\ "release" \in PCs
  BY DEF Collect, PCs
<1>3. /\ pc' \in [Threads -> PCs] /\ op' \in [Threads -> Operations]
      /\ pc'[t] = "release" /\ op'[t].state = ref[r].state /\ op'[t].ref = r
      /\ \A u \in Threads \ {t} : op'[u] = op[u] /\ pc'[u] = pc[u]
  BY <1>1, <1>2, Used DEF Use
<1>4. TypeOK' /\ Quiet /\ Others(t) /\ pc[t] = "run"
  BY <1>1, <1>3, Nones DEF Collect, TypeOK, Quiet, Others, GlobalFree
<1>5. Holds(t)
  BY <1>3 DEF Collect, Holds, Calling
<1> QED
  BY <1>3, <1>4, <1>5, HoldingStep DEF Holding

LEMMA CloseStep ==
  ASSUME IInv, NEW t \in Threads, NEW r \in Refs, Close(t, r)
  PROVE  IInv'
<1>1. TypeOK /\ ref[r].state \in States
  BY ReferredIsCounted DEF IInv, Close, Usable
<1>2. Use(t, r, "closing") /\ "closing" \in PCs
  BY DEF Close, PCs
<1>3. /\ pc' \in [Threads -> PCs] /\ op' \in [Threads -> Operations]
      /\ pc'[t] = "closing" /\ op'[t].state = ref[r].state /\ op'[t].ref = r
      /\ \A u \in Threads \ {t} : op'[u] = op[u] /\ pc'[u] = pc[u]
  BY <1>1, <1>2, Used DEF Use
<1>4. TypeOK' /\ Quiet /\ Others(t) /\ pc[t] = "run"
  BY <1>1, <1>3 DEF Close, TypeOK, Quiet, Others
<1>5. Holds(t)
  BY <1>3 DEF Close, Usable, Holds
<1> QED
  BY <1>3, <1>4, <1>5, HoldingStep DEF Holding, Calling

(* What an object keeps when a call or close() changes it *)
Kept(o, n) ==
  /\ n \in Objects /\ n.alloc = o.alloc /\ n.used = o.used /\ n.owned = o.owned
  /\ n.listed = o.listed /\ n.name = o.name /\ n.initialized = o.initialized
  /\ o.closed => n.closed

LEMMA FieldsChanged ==
  ASSUME NEW o \in Objects, NEW b \in BOOLEAN
  PROVE  /\ Kept(o, [o EXCEPT !.isBusy = b]) /\ Kept(o, [o EXCEPT !.L2 = b])
         /\ Kept(o, [o EXCEPT !.loaded = b])
         /\ (o.closed => b) => Kept(o, [o EXCEPT !.closed = b])
<1>1. Kept(o, [o EXCEPT !.isBusy = b])
  BY DEF Kept, Objects
<1>2. Kept(o, [o EXCEPT !.L2 = b])
  BY DEF Kept, Objects
<1>3. Kept(o, [o EXCEPT !.loaded = b])
  BY DEF Kept, Objects
<1>4. (o.closed => b) => Kept(o, [o EXCEPT !.closed = b])
  BY DEF Kept, Objects
<1> QED
  BY <1>1, <1>2, <1>3, <1>4

LEMMA KeptIsTransitive ==
  ASSUME NEW o, NEW n, NEW m, Kept(o, n), Kept(n, m)
  PROVE  Kept(o, m)
BY DEF Kept

LEMMA KeptIsQuiet ==
  ASSUME TypeOK, NEW s \in States, obj[s].initialized, NEW n, Kept(obj[s], n),
         obj' = [obj EXCEPT ![s] = n], ref' = ref
  PROVE  obj' \in [States -> Objects] /\ Quiet
<1>1. obj'[s] = n /\ \A u \in States \ {s} : obj'[u] = obj[u]
  BY DEF TypeOK
<1> QED
  BY <1>1 DEF TypeOK, Quiet, Kept

LEMMA BusyChanged ==
  ASSUME TypeOK, NEW s \in States, obj[s].initialized, NEW b \in BOOLEAN,
         obj' = [obj EXCEPT ![s].isBusy = b], ref' = ref
  PROVE  obj' \in [States -> Objects] /\ Quiet
BY FieldsChanged, KeptIsQuiet DEF TypeOK

LEMMA ClosedChanged ==
  ASSUME TypeOK, NEW s \in States, obj[s].initialized,
         NEW l \in BOOLEAN, NEW d \in BOOLEAN, NEW c \in BOOLEAN, obj[s].closed => c,
         obj' = [obj EXCEPT ![s].L2 = l, ![s].loaded = d, ![s].closed = c], ref' = ref
  PROVE  obj' \in [States -> Objects] /\ Quiet
<1> DEFINE o == obj[s]
           o1 == [o EXCEPT !.L2 = l]
           o2 == [o1 EXCEPT !.loaded = d]
           o3 == [o2 EXCEPT !.closed = c]
<1>1. Kept(o, o1)
  BY FieldsChanged DEF TypeOK
<1>2. Kept(o1, o2)
  <2>1. o1 \in Objects
    BY <1>1 DEF Kept
  <2> HIDE DEF o1
  <2> QED
    BY <2>1, FieldsChanged
<1>3. o2.closed = o.closed
  BY DEF TypeOK, Objects
<1>4. Kept(o2, o3)
  <2> HIDE DEF o2
  <2>1. o2 \in Objects /\ (o2.closed => c)
    BY <1>2, <1>3 DEF Kept
  <2> QED
    BY <2>1, FieldsChanged
<1>5. Kept(o, o3)
  <2> HIDE DEF o, o1, o2, o3
  <2> QED
    BY <1>1, <1>2, <1>4, KeptIsTransitive
<1>6. obj' = [obj EXCEPT ![s] = o3]
  BY DEF TypeOK
<1> HIDE DEF o3
<1> QED
  BY <1>5, <1>6, KeptIsQuiet

LEMMA EndedChanged ==
  ASSUME TypeOK, NEW s \in States, obj[s].initialized,
         NEW b \in BOOLEAN, NEW l \in BOOLEAN, NEW d \in BOOLEAN,
         obj' = [obj EXCEPT ![s].isBusy = b, ![s].L2 = l, ![s].loaded = d], ref' = ref
  PROVE  obj' \in [States -> Objects] /\ Quiet
<1> DEFINE o == obj[s]
           o1 == [o EXCEPT !.isBusy = b]
           o2 == [o1 EXCEPT !.L2 = l]
           o3 == [o2 EXCEPT !.loaded = d]
<1>1. Kept(o, o1)
  BY FieldsChanged DEF TypeOK
<1>2. Kept(o1, o2)
  <2>1. o1 \in Objects
    BY <1>1 DEF Kept
  <2> HIDE DEF o1
  <2> QED
    BY <2>1, FieldsChanged
<1>3. Kept(o2, o3)
  <2> HIDE DEF o2
  <2>1. o2 \in Objects
    BY <1>2 DEF Kept
  <2> QED
    BY <2>1, FieldsChanged
<1>4. Kept(o, o3)
  <2> HIDE DEF o, o1, o2, o3
  <2> QED
    BY <1>1, <1>2, <1>3, KeptIsTransitive
<1>5. obj' = [obj EXCEPT ![s] = o3]
  BY DEF TypeOK
<1> HIDE DEF o3
<1> QED
  BY <1>4, <1>5, KeptIsQuiet

LEMMA ClosedStep ==
  ASSUME IInv, NEW t \in Threads, Closed(t)
  PROVE  IInv'
<1>1. TypeOK
  BY DEF IInv
<1>2. pc[t] = "closing" /\ op[t].state \in States /\ obj[op[t].state].initialized
  BY HolderHolds DEF Closed, Holding, Calling
<1>3. obj' \in [States -> Objects] /\ Quiet
  BY <1>1, <1>2, ClosedChanged DEF Closed
<1>4. TypeOK' /\ Others(t)
  BY <1>1, <1>2, <1>3, Finished DEF Closed, TypeOK, Others
<1> QED
  BY <1>1, <1>2, <1>3, <1>4, Finished, QuietStep DEF Closed

LEMMA CallStep ==
  ASSUME IInv, NEW t \in Threads, NEW r \in Refs, Call(t, r)
  PROVE  IInv'
<1> DEFINE s == ref[r].state
           p == IF obj[s].isBusy THEN "callwait" ELSE "calling"
<1>1. TypeOK /\ s \in States /\ Usable(t, r) /\ obj[s].initialized
  BY ReferredIsCounted DEF IInv, Call, Usable, ObjectsAgree, SetupIsUnfinished
<1>2. Use(t, r, p) /\ p \in PCs /\ p \in Calling
  BY DEF Call, PCs, Calling
<1>3. /\ pc' \in [Threads -> PCs] /\ op' \in [Threads -> Operations]
      /\ pc'[t] = p /\ op'[t].state = s /\ op'[t].ref = r
      /\ \A u \in Threads \ {t} : op'[u] = op[u] /\ pc'[u] = pc[u]
  <2> HIDE DEF p
  <2> QED
    BY <1>1, <1>2, Used DEF Use
<1>4. obj' \in [States -> Objects] /\ Quiet
  BY <1>1, BusyChanged DEF Call
<1>5. TypeOK' /\ Others(t) /\ pc[t] = "run"
  BY <1>1, <1>3, <1>4 DEF Call, TypeOK, Others
<1>6. Holds(t)
  BY <1>1, <1>3 DEF Usable, Holds, Calling
<1> QED
  BY <1>2, <1>3, <1>4, <1>5, <1>6, HoldingStep DEF Holding

LEMMA CallRelockStep ==
  ASSUME IInv, NEW t \in Threads, CallRelock(t)
  PROVE  IInv'
<1>1. TypeOK /\ pc[t] = "callrelock"
  BY DEF IInv, CallRelock
<1>2. op[t].state \in States /\ obj[op[t].state].initialized
  BY <1>1, HolderHolds DEF Holding, Calling
<1>3. obj' \in [States -> Objects] /\ Quiet
  BY <1>1, <1>2, BusyChanged DEF CallRelock
<1>4. pc' \in [Threads -> PCs] /\ pc'[t] \in {"callwait", "calling"} /\ Others(t)
  BY <1>1 DEF CallRelock, TypeOK, Others, Goto, PCs
<1>5. TypeOK'
  BY <1>1, <1>3, <1>4 DEF CallRelock, TypeOK
<1>6. Holds(t)
  BY <1>1, <1>4, HolderHolds DEF CallRelock, Holds, Holding, Calling
<1> QED
  BY <1>1, <1>3, <1>4, <1>5, <1>6, HoldingStep DEF Holding, Calling

LEMMA EndCallStep ==
  ASSUME IInv, NEW t \in Threads, EndCall(t)
  PROVE  IInv'
<1>1. TypeOK /\ pc[t] = "calling" /\ op[t].state \in States
  BY HolderHolds DEF IInv, EndCall, Holding, Calling
<1>2. TypeOK' /\ Quiet /\ Others(t) /\ pc'[t] = "ending"
  BY <1>1 DEF EndCall, TypeOK, Quiet, Others, Goto, PCs
<1>3. Holds(t)
  BY <1>1, <1>2, HolderHolds DEF EndCall, Holds, Holding, Calling
<1> QED
  BY <1>1, <1>2, <1>3, HoldingStep DEF Holding, Calling

LEMMA NoOpPlace ==
  ASSUME NEW t \in Threads, pc'[t] = "run", op'[t] = NoOp
  PROVE  Place(t)'
BY DEF NoOp, Place, NoneYet, PendingAgrees, CreatorAgrees, FinderAgrees,
       HolderAgrees, FreerAgrees, Pending, HasFound, Calling, Holding

LEMMA EndedStep ==
  ASSUME IInv, NEW t \in Threads, Ended(t)
  PROVE  IInv'
<1> DEFINE s == op[t].state
           l == obj[s].L2 /\ ~(obj[s].owned = 0)
           d == obj[s].loaded /\ ~(obj[s].owned = 0)
<1>1. TypeOK /\ pc[t] = "ending"
  BY DEF IInv, Ended
<1>2. s \in States /\ obj[s].initialized
  BY <1>1, HolderHolds DEF Holding, Calling
<1>3. l \in BOOLEAN /\ d \in BOOLEAN
  BY Zenon
<1>4. obj' = [obj EXCEPT ![s].isBusy = FALSE, ![s].L2 = l, ![s].loaded = d] /\ ref' = ref
  BY DEF Ended
<1>5. obj' \in [States -> Objects] /\ Quiet
  <2> HIDE DEF l, d
  <2> QED
    BY <1>1, <1>2, <1>3, <1>4, EndedChanged
<1>6. /\ pc' \in [Threads -> PCs] /\ pc'[t] = "run"
      /\ \A u \in Threads \ {t} :
           \/ pc'[u] = pc[u]
           \/ pc[u] = "waiting" /\ pc'[u] = "relock"
           \/ pc[u] = "callwait" /\ pc'[u] = "callrelock"
  BY <1>1, <1>2, Notified DEF Ended, PCs
<1>7. op' = [op EXCEPT ![t] = NoOp] /\ op'[t] = NoOp /\ op'[t].ref = NoRef
      /\ UNCHANGED <<globalLock, ref>> /\ stateMutex' = [stateMutex EXCEPT ![s] = NoThread]
  BY <1>1 DEF Ended, TypeOK, NoOp
<1>8. TypeOK'
  BY <1>1, <1>2, <1>5, <1>6, <1>7 DEF TypeOK, NoOp, Operations
<1>9. Others(t)
  BY <1>1, <1>6, <1>7 DEF Others, TypeOK
<1> QED
  BY <1>1, <1>5, <1>6, <1>7, <1>8, <1>9, NoOpPlace, QuietStep

LEMMA SpuriousWakeupStep ==
  ASSUME IInv, NEW t \in Threads, SpuriousWakeup(t)
  PROVE  IInv'
<1>1. TypeOK /\ Place(t)
  BY DEF IInv, Places
<1>2. /\ \/ pc[t] = "waiting" /\ pc'[t] = "relock"
         \/ pc[t] = "callwait" /\ pc'[t] = "callrelock"
      /\ op' = op
  BY <1>1 DEF SpuriousWakeup, Goto, Awake, TypeOK
<1>3. TypeOK' /\ Quiet /\ Others(t)
  BY <1>1 DEF SpuriousWakeup, Goto, Awake, TypeOK, Quiet, Others, PCs
<1>4. Place(t)'
  BY <1>1, <1>2 DEF SpuriousWakeup, IsRef, Place, NoneYet, PendingAgrees, CreatorAgrees, FinderAgrees,
       HolderAgrees, FreerAgrees, Pending, HasFound, Calling, Holding
<1> QED
  BY <1>2, <1>3, <1>4, QuietStep

-----------------------------------------------------------------------------
(* Steps that make references *)

One(b) == IF b THEN 1 ELSE 0

LEMMA NewReference ==
  ASSUME TypeOK, NEW r \in Refs, ref[r] = NoRef, NEW v \in References,
         ref' = [ref EXCEPT ![r] = v]
  PROVE  /\ ref' \in [Refs -> References \cup {NoRef}] /\ ref'[r] = v /\ IsRef(r)'
         /\ \A q \in Refs \ {r} : ref'[q] = ref[q]
BY Nones DEF TypeOK, IsRef

LEMMA NewReferences ==
  ASSUME TypeOK, NEW r \in Refs, ref[r] = NoRef, NEW v \in References,
         ref' = [ref EXCEPT ![r] = v], NEW s \in States
  PROVE  /\ r \notin RefsOf(s) /\ r \notin OwnersOf(s)
         /\ RefsOf(s)' = IF s = v.state THEN RefsOf(s) \cup {r} ELSE RefsOf(s)
         /\ OwnersOf(s)' = IF s = v.state /\ v.kind \in {"owner", "lost"}
                           THEN OwnersOf(s) \cup {r} ELSE OwnersOf(s)
<1>1. ref' \in [Refs -> References \cup {NoRef}] /\ ref'[r] = v /\ v # NoRef
      /\ \A q \in Refs \ {r} : ref'[q] = ref[q]
  BY Nones DEF TypeOK
<1> QED
  BY <1>1 DEF RefsOf, OwnersOf, IsRef, IsOwner

LEMMA CountsNew ==
  ASSUME IInv, NEW r \in Refs, ref[r] = NoRef, NEW v \in References,
         ref' = [ref EXCEPT ![r] = v],
         \A s \in States :
           /\ obj'[s].used = obj[s].used + One(s = v.state)
           /\ obj'[s].owned = obj[s].owned + One(s = v.state /\ v.kind \in {"owner", "lost"})
  PROVE  Counts'
<1> SUFFICES ASSUME NEW s \in States
             PROVE  /\ obj'[s].used = Cardinality(RefsOf(s)')
                    /\ obj'[s].owned = Cardinality(OwnersOf(s)')
  BY DEF Counts
<1>1. /\ r \notin RefsOf(s) /\ r \notin OwnersOf(s)
      /\ RefsOf(s)' = IF s = v.state THEN RefsOf(s) \cup {r} ELSE RefsOf(s)
      /\ OwnersOf(s)' = IF s = v.state /\ v.kind \in {"owner", "lost"}
                        THEN OwnersOf(s) \cup {r} ELSE OwnersOf(s)
  BY NewReferences DEF IInv
<1>2. /\ Cardinality(RefsOf(s) \cup {r}) = Cardinality(RefsOf(s)) + 1
      /\ Cardinality(OwnersOf(s) \cup {r}) = Cardinality(OwnersOf(s)) + 1
  BY <1>1, CardinalitiesAreNat, FS_AddElement
<1>3. obj[s].used = Cardinality(RefsOf(s)) /\ obj[s].owned = Cardinality(OwnersOf(s))
  BY DEF IInv, ObjectsAgree, Counts
<1> QED
  BY <1>1, <1>2, <1>3, CardinalitiesAreNat DEF One

LEMMA FieldsAreTyped ==
  ASSUME TypeOK, NEW s \in States
  PROVE  obj[s] \in Objects /\ obj[s].used \in Nat /\ obj[s].owned \in Nat
BY DEF TypeOK, Objects

CountedAs(o, n, b) ==
  /\ n \in Objects /\ n.used = o.used + 1 /\ n.owned = o.owned + One(b)
  /\ n.alloc = o.alloc /\ n.listed = o.listed /\ n.name = o.name
  /\ n.initialized = o.initialized /\ n.closed = o.closed /\ n.isBusy = o.isBusy
  /\ n.L2 = o.L2

LEMMA CountedObject ==
  ASSUME NEW o \in Objects, NEW b \in BOOLEAN
  PROVE  CountedAs(o, Counted(o, b), b)
<1> DEFINE x == o.used + 1
           y == IF b THEN o.owned + 1 ELSE o.owned
<1>1. x \in Nat /\ y \in Nat /\ y = o.owned + One(b)
  BY DEF Objects, One
<1>2. Counted(o, b) = [o EXCEPT !.used = x, !.owned = y]
  BY DEF Counted
<1> HIDE DEF x, y
<1>3. [o EXCEPT !.used = x, !.owned = y] \in Objects
  BY <1>1 DEF Objects
<1>4. x = o.used + 1
  BY DEF x
<1> QED
  BY <1>1, <1>2, <1>3, <1>4 DEF Objects, CountedAs

(* A new reference to an object that has some leaves objects as they are.  *)
LEMMA SharedKeeps ==
  ASSUME IInv, NEW t \in Threads, pc[t] # "free", NEW r \in Refs, ref[r] = NoRef,
         NEW v \in References, ref' = [ref EXCEPT ![r] = v],
         obj[v.state].initialized, obj[v.state].used > 0, Counts',
         \A s \in States :
           /\ obj'[s].alloc = obj[s].alloc /\ obj'[s].listed = obj[s].listed
           /\ obj'[s].initialized = obj[s].initialized /\ obj'[s].closed = obj[s].closed
           /\ obj'[s].isBusy = obj[s].isBusy /\ obj'[s].L2 = obj[s].L2
           /\ s # v.state => obj'[s].used = obj[s].used
           /\ obj[s].owned > 0 => obj'[s].owned > 0,
         \A u \in Threads \ {t} : pc[u] = "free" => pc'[u] = pc[u] /\ op'[u] = op[u]
  PROVE  ObjectsAgree'
<1> USE DEF IInv, ObjectsAgree
<1>1. v.state \in States /\ obj[v.state].alloc = "live"
  BY CountedIsLive DEF References
<1>2. \A q \in Refs : IsRef(q)' => q = r \/ (IsRef(q) /\ ref'[q] = ref[q])
  BY NewReference DEF IsRef
<1>3. ref'[r] = v
  BY NewReference
<1>4. ReferencesAreLive'
  BY <1>1, <1>2, <1>3, ReferredIsCounted DEF ReferencesAreLive
<1>5. NothingLeaks'
  <2> SUFFICES ASSUME NEW s \in States, obj[s].alloc = "live", RefsOf(s)' = {}
               PROVE  \E u \in Threads : pc'[u] = "free" /\ op'[u].state = s
    BY DEF NothingLeaks
  <2>1. RefsOf(s) = {}
    BY NewReferences
  <2>2. PICK u \in Threads : pc[u] = "free" /\ op[u].state = s
    BY <2>1 DEF NothingLeaks
  <2> QED
    BY <2>2
<1>6. FoundIsOwned'
  BY DEF FoundIsOwned
<1>7. SetupIsUnfinished'
  BY <1>1, <1>2, <1>3, ReferredIsCounted DEF SetupIsUnfinished
<1> QED
  BY <1>4, <1>5, <1>6, <1>7

(* Who makes a reference takes nothing from others. *)
LEMMA MakerApart ==
  ASSUME IInv, NEW t \in Threads, NEW r \in Refs, ref[r] = NoRef,
         \A u \in Threads \ {t} : op[u].ref # r,
         NEW v \in References, ref' = [ref EXCEPT ![r] = v], Others(t),
         op'[t].ref \in {r, op[t].ref, NoRef}, pc'[t] # "free",
         \A u \in Threads \ {t} : pc[u] = "free" => op[u].state # v.state,
         \A s \in States : obj[s].alloc = "live" =>
           /\ obj'[s].alloc = "live" /\ obj'[s].initialized = obj[s].initialized
           /\ obj[s].owned > 0 => obj'[s].owned > 0,
         \A u \in Threads \ {t} : globalLock = u => \A s \in States :
           obj'[s].listed /\ ~obj'[s].closed =>
             obj[s].listed /\ ~obj[s].closed /\ obj'[s].name = obj[s].name
  PROVE  Apart(t)
<1> SUFFICES ASSUME NEW u \in Threads \ {t} PROVE
    /\ pc[u] \in Pending => ref'[op[u].ref] = NoRef /\ op'[t].ref # op[u].ref
    /\ pc[u] \in Holding =>
         /\ ref'[op[u].ref] = ref[op[u].ref]
         /\ obj'[op[u].state].initialized = obj[op[u].state].initialized
    /\ pc[u] \in HasFound =>
         /\ obj'[op[u].state].owned > 0
         /\ obj[op[u].state].initialized => obj'[op[u].state].initialized
    /\ pc[u] = "free" =>
         /\ obj'[op[u].state].alloc = "live"
         /\ \A q \in Refs : IsRef(q)' => ref'[q].state # op[u].state
  BY DEF Apart, Others
<1>1. Place(u) /\ TypeOK /\ op'[u] = op[u]
  BY DEF IInv, Places, Others
<1>2. pc[u] \in Pending => ref'[op[u].ref] = NoRef /\ op'[t].ref # op[u].ref
  <2>1. pc[u] \in Pending => /\ op[u].ref \in Refs /\ ref[op[u].ref] = NoRef
                             /\ op[t].ref # op[u].ref
    BY <1>1 DEF Place, PendingAgrees
  <2>2. \A q \in Refs : ref[q] = NoRef /\ q # r => ref'[q] = NoRef
    BY <1>1, NewReference
  <2>3. op[u].ref # r /\ NoRef \notin Refs
    BY Nones
  <2> QED
    BY <2>1, <2>2, <2>3
<1>3. pc[u] \in Holding => ref'[op[u].ref] = ref[op[u].ref]
  BY <1>1, HolderHolds, NewReference DEF IsRef
<1>4. pc[u] \in HasFound \cup Holding =>
         obj'[op[u].state].initialized = obj[op[u].state].initialized
  BY WorkedOnIsLive
<1>5. pc[u] \in HasFound => obj'[op[u].state].owned > 0
  BY <1>1, WorkedOnIsLive DEF Place, FinderAgrees
<1>6. pc[u] = "free" => /\ obj'[op[u].state].alloc = "live"
                       /\ \A q \in Refs : IsRef(q)' => ref'[q].state # op[u].state
  BY <1>1, NewReference DEF Place, FreerAgrees, IsRef
<1> QED
  BY <1>2, <1>3, <1>4, <1>5, <1>6

LEMMA MakeRefStep ==
  ASSUME IInv, NEW t \in Threads, MakeRef(t)
  PROVE  IInv'
<1> DEFINE s == op[t].state
           r == op[t].ref
           owner == op[t].mode = "singleton"
           v == [state |-> s, kind |-> IF owner THEN "owner" ELSE "plain", holder |-> t]
<1>1. TypeOK /\ Place(t) /\ pc[t] = "makeref" /\ Finish(t)
  BY DEF IInv, Places, MakeRef
<1>2. /\ s \in States /\ obj[s].alloc = "live" /\ obj[s].initialized /\ obj[s].owned > 0
      /\ globalLock = t /\ obj[s].used > 0
  BY <1>1, CountedIsLive, WorkedOnIsLive DEF Place, FinderAgrees, HasFound
<1>3. /\ r \in Refs /\ ref[r] = NoRef /\ v \in References /\ ref' = [ref EXCEPT ![r] = v]
      /\ \A u \in Threads \ {t} : op[u].ref # r
  BY <1>1, <1>2 DEF Place, PendingAgrees, Pending, References, MakeRef
<1>4. owner \in BOOLEAN /\ v.state = s /\ (v.kind \in {"owner", "lost"} <=> owner)
  OBVIOUS
<1>5. obj' = [obj EXCEPT ![s] = Counted(@, owner)]
  BY DEF MakeRef
<1> HIDE DEF v, owner
<1>6. /\ obj' \in [States -> Objects] /\ \A u \in States \ {s} : obj'[u] = obj[u]
      /\ obj'[s] = Counted(obj[s], owner)
  BY <1>1, <1>2, <1>4, <1>5, CountedObject DEF TypeOK, CountedAs
<1>7. /\ obj'[s].used = obj[s].used + 1 /\ obj'[s].owned = obj[s].owned + One(owner)
      /\ obj'[s].alloc = obj[s].alloc /\ obj'[s].listed = obj[s].listed
      /\ obj'[s].initialized = obj[s].initialized /\ obj'[s].closed = obj[s].closed
      /\ obj'[s].isBusy = obj[s].isBusy /\ obj'[s].L2 = obj[s].L2
  <2>1. CountedAs(obj[s], obj'[s], owner)
    BY <1>1, <1>2, <1>4, <1>6, CountedObject, FieldsAreTyped
  <2> QED
    BY <2>1 DEF CountedAs
<1>8. TypeOK'
  BY <1>1, <1>2, <1>3, <1>6, Finished, NewReference DEF TypeOK, MakeRef
<1>9. Counts'
  <2>1. \A u \in States :
           /\ obj'[u].used = obj[u].used + One(u = v.state)
           /\ obj'[u].owned = obj[u].owned + One(u = v.state /\ v.kind \in {"owner", "lost"})
    BY <1>1, <1>4, <1>6, <1>7, FieldsAreTyped DEF One
  <2> QED
    BY <1>3, <2>1, CountsNew
<1>10. ObjectsAgree'
  <2>1. \A u \in States : obj[u].owned > 0 => obj'[u].owned > 0
    BY <1>1, <1>6, <1>7, FieldsAreTyped DEF One
  <2>2. \A u \in Threads \ {t} : pc[u] = "free" => pc'[u] = pc[u] /\ op'[u] = op[u]
    BY <1>1, Finished
  <2>3. \A u \in States :
           /\ obj'[u].alloc = obj[u].alloc /\ obj'[u].listed = obj[u].listed
           /\ obj'[u].initialized = obj[u].initialized /\ obj'[u].closed = obj[u].closed
           /\ obj'[u].isBusy = obj[u].isBusy /\ obj'[u].L2 = obj[u].L2
           /\ u # v.state => obj'[u].used = obj[u].used
    BY <1>4, <1>6, <1>7
  <2>4. /\ pc[t] # "free" /\ obj[v.state].initialized /\ obj[v.state].used > 0
        /\ r \in Refs /\ ref[r] = NoRef /\ v \in References /\ ref' = [ref EXCEPT ![r] = v]
    BY <1>1, <1>2, <1>3, <1>4
  <2> QED
    BY <1>9, <2>1, <2>2, <2>3, <2>4, SharedKeeps
<1>11. Others(t) /\ op'[t].ref = NoRef /\ pc'[t] = "run"
  BY <1>1, <1>2, Finished DEF Others
<1>12. \A u \in Threads \ {t} : pc[u] = "free" => op[u].state # s
  BY <1>2, CountedIsLive DEF IInv, Places, Place, FreerAgrees
<1>13. \A u \in States :
         /\ obj'[u].alloc = obj[u].alloc /\ obj'[u].initialized = obj[u].initialized
         /\ obj[u].owned > 0 => obj'[u].owned > 0
  BY <1>1, <1>6, <1>7, FieldsAreTyped DEF One
<1>14. Apart(t)
  <2> HIDE DEF r, s
  <2> QED
    BY <1>2, <1>3, <1>4, <1>11, <1>12, <1>13, MakerApart
<1> QED
  BY <1>1, <1>8, <1>10, <1>14, Finished, ApartKeeps DEF IInv

LEMMA UsedObject ==
  ASSUME NEW o \in Objects
  PROVE  CountedAs(o, [o EXCEPT !.used = @ + 1], FALSE)
<1>1. o.used + 1 \in Nat /\ One(FALSE) = 0 /\ o.owned + 0 = o.owned
  BY DEF Objects, One
<1>2. [o EXCEPT !.used = @ + 1] \in Objects
  BY <1>1 DEF Objects
<1> QED
  BY <1>1, <1>2 DEF CountedAs, Objects

LEMMA RetainStep ==
  ASSUME IInv, NEW t \in Threads, NEW r \in Refs, NEW n \in Refs, NEW u \in Threads,
         Retain(t, r, n, u)
  PROVE  IInv'
<1> DEFINE s == ref[r].state
           v == [state |-> s, kind |-> "native", holder |-> u]
<1>1. /\ TypeOK /\ Place(t) /\ pc[t] = "run" /\ IsRef(r) /\ ref[r].kind # "lost"
      /\ ref[n] = NoRef /\ \A w \in Threads : op[w].ref # n
  BY DEF IInv, Places, Retain, Usable, Fresh
<1>2. s \in States /\ obj[s].alloc = "live" /\ obj[s].used > 0 /\ obj[s].initialized
  BY <1>1, ReferredIsCounted DEF IInv, ObjectsAgree, SetupIsUnfinished
<1>3. v \in References /\ v.state = s /\ v.kind = "native" /\ ref' = [ref EXCEPT ![n] = v]
  BY <1>2 DEF References, Retain
<1>4. UNCHANGED <<globalLock, stateMutex, pc, op>> /\ obj' = [obj EXCEPT ![s].used = @ + 1]
  BY DEF Retain
<1> HIDE DEF v
<1>5. /\ obj' \in [States -> Objects] /\ \A q \in States \ {s} : obj'[q] = obj[q]
      /\ obj'[s] = [obj[s] EXCEPT !.used = @ + 1]
  BY <1>1, <1>2, <1>4 DEF TypeOK, Objects
<1>6. /\ obj'[s].used = obj[s].used + 1 /\ obj'[s].owned = obj[s].owned
      /\ obj'[s].alloc = obj[s].alloc /\ obj'[s].listed = obj[s].listed
      /\ obj'[s].initialized = obj[s].initialized /\ obj'[s].closed = obj[s].closed
      /\ obj'[s].isBusy = obj[s].isBusy /\ obj'[s].L2 = obj[s].L2
      /\ obj'[s].name = obj[s].name
  <2>1. CountedAs(obj[s], obj'[s], FALSE)
    BY <1>1, <1>2, <1>5, UsedObject, FieldsAreTyped
  <2> QED
    BY <1>1, <1>2, <2>1, FieldsAreTyped DEF CountedAs, One
<1>7. TypeOK'
  BY <1>1, <1>3, <1>4, <1>5, NewReference DEF TypeOK
<1>8. Counts'
  <2>1. \A q \in States :
           /\ obj'[q].used = obj[q].used + One(q = v.state)
           /\ obj'[q].owned = obj[q].owned + One(q = v.state /\ v.kind \in {"owner", "lost"})
    <3> TAKE q \in States
    <3>1. obj[q].used \in Nat /\ obj[q].owned \in Nat
      BY <1>1, FieldsAreTyped
    <3>2. CASE q = s
      BY <1>3, <1>6, <3>1, <3>2 DEF One
    <3>3. CASE q # s
      BY <1>3, <1>5, <3>1, <3>3 DEF One
    <3> QED
      BY <3>2, <3>3
  <2> QED
    BY <1>1, <1>3, <2>1, CountsNew
<1>9. \A q \in States :
           /\ obj'[q].alloc = obj[q].alloc /\ obj'[q].listed = obj[q].listed
           /\ obj'[q].initialized = obj[q].initialized /\ obj'[q].closed = obj[q].closed
           /\ obj'[q].isBusy = obj[q].isBusy /\ obj'[q].L2 = obj[q].L2
           /\ q # v.state => obj'[q].used = obj[q].used
           /\ obj[q].owned > 0 => obj'[q].owned > 0
  BY <1>3, <1>5, <1>6
<1>10. ObjectsAgree'
  <2>1. /\ pc[t] # "free" /\ ref[n] = NoRef /\ v \in References
        /\ ref' = [ref EXCEPT ![n] = v]
        /\ obj[v.state].initialized /\ obj[v.state].used > 0
    BY <1>1, <1>2, <1>3
  <2>2. \A w \in Threads \ {t} : pc[w] = "free" => pc'[w] = pc[w] /\ op'[w] = op[w]
    BY <1>4
  <2> QED
    BY <1>8, <1>9, <2>1, <2>2, SharedKeeps
<1>11. Others(t) /\ op'[t].ref = op[t].ref /\ pc'[t] = "run"
  BY <1>1, <1>4 DEF Others
<1>12. \A w \in Threads \ {t} : pc[w] = "free" => op[w].state # s
  BY <1>1 DEF IInv, Places, Place, FreerAgrees
<1>13. Apart(t)
  <2>1. \A w \in Threads \ {t} : op[w].ref # n
    BY <1>1
  <2> HIDE DEF s
  <2>2. \A q \in States :
           obj'[q].listed /\ ~obj'[q].closed =>
             obj[q].listed /\ ~obj[q].closed /\ obj'[q].name = obj[q].name
    BY <1>5, <1>6
  <2> QED
    BY <1>1, <1>3, <1>9, <1>11, <1>12, <2>1, <2>2, MakerApart, ZenonT(40)
<1>14. Place(t)'
  BY <1>1, <1>4 DEF Place, NoneYet, PendingAgrees, CreatorAgrees, FinderAgrees,
       HolderAgrees, FreerAgrees, Pending, HasFound, Calling, Holding
<1> QED
  BY <1>7, <1>10, <1>13, <1>14, ApartKeeps DEF IInv

LEMMA CreateStep ==
  ASSUME IInv, NEW t \in Threads, NEW s \in States, Create(t, s)
  PROVE  IInv'
<1> DEFINE v == [state |-> s, kind |-> "lost", holder |-> t]
<1>1. TypeOK /\ Place(t) /\ pc[t] = "create" /\ GlobalFree(t) /\ obj[s].alloc = "unused"
  BY DEF IInv, Places, Create
<1>0. PICK r \in Refs : r = op[t].ref
  BY <1>1 DEF Place, PendingAgrees, Pending
<1>2. /\ r \in Refs /\ ref[r] = NoRef /\ \A u \in Threads \ {t} : op[u].ref # r
      /\ op[t].want \in Names \cup {NoName} /\ op[t].state = NoState
  BY <1>0, <1>1 DEF Place, PendingAgrees, CreatorAgrees, NoneYet, Pending
<1>3. /\ v \in References /\ v.state = s /\ v.kind = "lost" /\ v.holder = t
      /\ ref' = [ref EXCEPT ![r] = v] /\ globalLock' = NoThread /\ stateMutex' = stateMutex
  BY <1>0 DEF References, Create
<1>4. /\ ~(obj[s].used > 0) /\ ~(obj[s].owned > 0)
      /\ \A q \in Refs : IsRef(q) => ref[q].state # s
  BY <1>1, CountedIsLive, ReferredIsCounted
<1>5. obj[s].used = 0 /\ obj[s].owned = 0
  BY <1>1, <1>4, FieldsAreTyped
<1>6. PICK listed \in BOOLEAN :
        /\ obj' = [obj EXCEPT ![s] =
                    [Unused EXCEPT !.alloc = "live", !.listed = listed,
                                   !.name = op[t].want, !.isBusy = TRUE,
                                   !.used = 1, !.owned = 1]]
        /\ IF listed
           THEN Goto(t, "setup") /\ op' = [op EXCEPT ![t].state = s]
           ELSE Finish(t)
  BY DEF Create
<1> HIDE DEF v
<1>7. /\ \A q \in States \ {s} : obj'[q] = obj[q]
      /\ obj'[s] = [alloc |-> "live", listed |-> listed, name |-> op[t].want,
                    initialized |-> FALSE, closed |-> FALSE, isBusy |-> TRUE,
                    L2 |-> FALSE, loaded |-> FALSE, used |-> 1, owned |-> 1]
  BY <1>1, <1>6 DEF TypeOK, Unused
<1>8. /\ obj'[s] \in Objects /\ obj'[s].alloc = "live" /\ obj'[s].used = 1 /\ obj'[s].owned = 1
      /\ ~obj'[s].initialized /\ obj'[s].isBusy /\ ~obj'[s].L2
  BY <1>2, <1>7 DEF Objects
<1>9. /\ op'[t].ref \in {r, NoRef} /\ pc' \in [Threads -> PCs] /\ op' \in [Threads -> Operations]
      /\ pc'[t] # "free" /\ \A u \in Threads \ {t} : op'[u] = op[u] /\ pc'[u] = pc[u]
  <2>1. CASE listed
    BY <1>0, <1>1, <1>6, <2>1, StateSet DEF TypeOK, Goto, PCs
  <2>2. CASE ~listed
    BY <1>1, <1>6, <2>2, Finished
  <2> QED
    BY <2>1, <2>2
<1>10. Others(t)
  BY <1>1, <1>9, Nones DEF Others, GlobalFree
<1>11. TypeOK'
  <2>1. obj' \in [States -> Objects]
    BY <1>1, <1>6, <1>8 DEF TypeOK
  <2>2. ref' \in [Refs -> References \cup {NoRef}]
    BY <1>1, <1>2, <1>3, NewReference
  <2> QED
    BY <1>1, <1>3, <1>9, <2>1, <2>2 DEF TypeOK
<1>12. Counts'
  <2>1. \A q \in States :
           /\ obj'[q].used = obj[q].used + One(q = v.state)
           /\ obj'[q].owned = obj[q].owned + One(q = v.state /\ v.kind \in {"owner", "lost"})
    BY <1>1, <1>3, <1>5, <1>7, <1>8, FieldsAreTyped DEF One
  <2> QED
    BY <1>2, <1>3, <2>1, CountsNew
<1>13. /\ ref'[r] = v /\ IsRef(r)' /\ ref'[r].state = s
       /\ \A q \in Refs \ {r} : ref'[q] = ref[q]
       /\ \A q \in States : RefsOf(q)' = IF q = s THEN RefsOf(q) \cup {r} ELSE RefsOf(q)
  <2>0. TypeOK /\ r \in Refs /\ ref[r] = NoRef /\ v \in References /\ ref' = [ref EXCEPT ![r] = v]
    BY <1>1, <1>2, <1>3
  <2>1. ref'[r] = v /\ \A q \in Refs \ {r} : ref'[q] = ref[q]
    BY <2>0, NewReference
  <2>2. IsRef(r)'
    BY <2>0, NewReference
  <2>3. ASSUME NEW q \in States
        PROVE  RefsOf(q)' = IF q = v.state THEN RefsOf(q) \cup {r} ELSE RefsOf(q)
    BY <2>0, NewReferences
  <2> QED
    BY <1>3, <2>1, <2>2, <2>3
<1>14. ObjectsAgree'
  <2>1. ReferencesAreLive'
    BY <1>3, <1>7, <1>8, <1>13, ReferredIsCounted DEF ReferencesAreLive, IsRef
  <2>2. NothingLeaks'
    <3> SUFFICES ASSUME NEW q \in States, obj'[q].alloc = "live", RefsOf(q)' = {}
                 PROVE  \E u \in Threads : pc'[u] = "free" /\ op'[u].state = q
      BY DEF NothingLeaks
    <3>1. q # s /\ RefsOf(q) = {} /\ obj[q].alloc = "live"
      BY <1>7, <1>13
    <3>2. PICK u \in Threads : pc[u] = "free" /\ op[u].state = q
      BY <3>1 DEF IInv, ObjectsAgree, NothingLeaks
    <3> QED
      BY <1>1, <1>9, <3>2
  <2>3. FoundIsOwned'
    BY <1>7, <1>8 DEF IInv, ObjectsAgree, FoundIsOwned
  <2>4. SetupIsUnfinished'
    BY <1>3, <1>4, <1>7, <1>8, <1>13, ReferredIsCounted
       DEF IInv, ObjectsAgree, SetupIsUnfinished, IsRef
  <2> QED
    BY <1>12, <2>1, <2>2, <2>3, <2>4 DEF ObjectsAgree
<1>15. Apart(t)
  <2>1. \A u \in Threads \ {t} : pc[u] = "free" => op[u].state # s
    BY <1>1, WorkedOnIsLive
  <2>2. \A q \in States : obj[q].alloc = "live" => obj'[q] = obj[q]
    BY <1>1, <1>7
  <2>3. \A u \in Threads \ {t} : globalLock # u
    BY <1>1, Nones DEF GlobalFree
  <2>4. /\ \A q \in States : obj[q].alloc = "live" =>
             /\ obj'[q].alloc = "live" /\ obj'[q].initialized = obj[q].initialized
             /\ obj[q].owned > 0 => obj'[q].owned > 0
        /\ \A u \in Threads \ {t} : globalLock = u => \A q \in States :
             obj'[q].listed /\ ~obj'[q].closed =>
               obj[q].listed /\ ~obj[q].closed /\ obj'[q].name = obj[q].name
    BY <2>2, <2>3
  <2>5. /\ \A u \in Threads \ {t} : pc[u] = "free" => op[u].state # v.state
        /\ ref[r] = NoRef /\ v \in References /\ ref' = [ref EXCEPT ![r] = v]
        /\ \A u \in Threads \ {t} : op[u].ref # r
        /\ op'[t].ref \in {r, op[t].ref, NoRef} /\ pc'[t] # "free"
    BY <1>2, <1>3, <1>9, <2>1
  <2> QED
    BY <1>10, <2>4, <2>5, MakerApart
<1>16. Place(t)'
  <2>1. CASE listed
    <3>1. pc'[t] = "setup" /\ op'[t].ref = r /\ op'[t].state = s
      BY <1>0, <1>1, <1>6, <2>1, StateSet DEF TypeOK, Goto
    <3>2. HolderAgrees(t)'
      BY <1>2, <1>3, <1>8, <1>13, <3>1 DEF HolderAgrees, Calling
    <3> QED
      BY <3>1, <3>2 DEF Place, NoneYet, PendingAgrees, CreatorAgrees, FinderAgrees,
           FreerAgrees, Pending, HasFound
  <2>2. CASE ~listed
    BY <1>1, <1>6, <2>2, Finished
  <2> QED
    BY <2>1, <2>2
<1> QED
  BY <1>11, <1>14, <1>15, <1>16, ApartKeeps DEF IInv

(* The only reference of an object that counts one *)
LEMMA OnlyReference ==
  ASSUME IInv, NEW s \in States, obj[s].used = 1, NEW r \in RefsOf(s), NEW q \in RefsOf(s)
  PROVE  r = q
<1>1. Cardinality(RefsOf(s)) = 1
  BY DEF IInv, ObjectsAgree, Counts
<1>2. PICK x : RefsOf(s) = {x}
  BY <1>1, CardinalitiesAreNat, FS_Singleton
<1> QED
  BY <1>2

(* The creator's reference becomes an owner that code can use. *)
LEMMA OwnerKept ==
  ASSUME TypeOK, NEW r \in Refs, IsRef(r), ref[r].kind = "lost",
         ref' = [ref EXCEPT ![r].kind = "owner"]
  PROVE  /\ ref' \in [Refs -> References \cup {NoRef}]
         /\ \A q \in Refs \ {r} : ref'[q] = ref[q]
         /\ \A q \in Refs : /\ IsRef(q)' <=> IsRef(q)
                            /\ IsRef(q) => ref'[q].state = ref[q].state
         /\ \A s \in States : RefsOf(s)' = RefsOf(s) /\ OwnersOf(s)' = OwnersOf(s)
<1>1. ref[r] \in References
  BY DEF TypeOK, IsRef
<1>2. /\ ref'[r] = [ref[r] EXCEPT !.kind = "owner"]
      /\ \A q \in Refs \ {r} : ref'[q] = ref[q]
      /\ DOMAIN ref' = Refs /\ ref' = [q \in Refs |-> ref'[q]]
  BY DEF TypeOK
<1>3. ref'[r] \in References /\ ref'[r].state = ref[r].state /\ ref'[r].kind = "owner"
  BY <1>1, <1>2 DEF References
<1>4. ref' \in [Refs -> References \cup {NoRef}]
  BY <1>2, <1>3 DEF TypeOK
<1>5. \A q \in Refs : /\ IsRef(q)' <=> IsRef(q)
                      /\ IsRef(q) => ref'[q].state = ref[q].state
                      /\ IsRef(q) => (IsOwner(q)' <=> IsOwner(q))
  BY <1>2, <1>3, Nones DEF IsRef, IsOwner
<1>6. \A s \in States : RefsOf(s)' = RefsOf(s)
  BY <1>5 DEF RefsOf
<1>7. \A s \in States : OwnersOf(s)' = OwnersOf(s)
  BY <1>5 DEF RefsOf, OwnersOf
<1> QED
  BY <1>2, <1>4, <1>5, <1>6, <1>7

LEMMA InitializeStep ==
  ASSUME IInv, NEW t \in Threads, Initialize(t)
  PROVE  IInv'
<1>1. /\ TypeOK /\ pc[t] = "setup" /\ op[t].ref \in Refs /\ IsRef(op[t].ref)
      /\ ref[op[t].ref].state = op[t].state /\ ref[op[t].ref].holder = t
      /\ op[t].state \in States /\ obj[op[t].state].alloc = "live"
      /\ ~obj[op[t].state].initialized
  BY HolderHolds DEF IInv, Initialize, Holding
<1>2. PICK s \in States, r \in Refs : s = op[t].state /\ r = op[t].ref
  BY <1>1
<1>3. /\ IsRef(r) /\ ref[r].state = s /\ ref[r].holder = t /\ obj[s].alloc = "live"
      /\ ~obj[s].initialized /\ ref[r].kind = "lost" /\ obj[s].used = 1
  BY <1>1, <1>2 DEF IInv, ObjectsAgree, SetupIsUnfinished
<1>4. /\ obj' = [obj EXCEPT ![s].L2 = TRUE, ![s].isBusy = FALSE, ![s].initialized = TRUE]
      /\ ref' = [ref EXCEPT ![r].kind = "owner"]
      /\ Notify(t, s, "run") /\ op' = [op EXCEPT ![t] = NoOp]
      /\ UNCHANGED <<globalLock, stateMutex>>
  BY <1>2 DEF Initialize
<1>5. /\ ref' \in [Refs -> References \cup {NoRef}]
      /\ \A q \in Refs \ {r} : ref'[q] = ref[q]
      /\ \A q \in Refs : /\ IsRef(q)' <=> IsRef(q)
                         /\ IsRef(q) => ref'[q].state = ref[q].state
      /\ \A u \in States : RefsOf(u)' = RefsOf(u) /\ OwnersOf(u)' = OwnersOf(u)
  BY <1>1, <1>3, <1>4, OwnerKept
<1>6. /\ \A u \in States \ {s} : obj'[u] = obj[u]
      /\ obj'[s] = [obj[s] EXCEPT !.L2 = TRUE, !.isBusy = FALSE, !.initialized = TRUE]
  BY <1>1, <1>4 DEF TypeOK
<1>7. /\ obj' \in [States -> Objects] /\ obj'[s].initialized
      /\ \A u \in States :
           /\ obj'[u].alloc = obj[u].alloc /\ obj'[u].listed = obj[u].listed
           /\ obj'[u].name = obj[u].name /\ obj'[u].used = obj[u].used
           /\ obj'[u].owned = obj[u].owned /\ obj'[u].closed = obj[u].closed
           /\ obj[u].initialized => obj'[u].initialized
  <2>1. /\ obj'[s] \in Objects /\ obj'[s].alloc = obj[s].alloc /\ obj'[s].listed = obj[s].listed
        /\ obj'[s].name = obj[s].name /\ obj'[s].used = obj[s].used
        /\ obj'[s].owned = obj[s].owned /\ obj'[s].closed = obj[s].closed
        /\ obj'[s].initialized
    <3>1. obj[s] \in Objects
      BY <1>1, FieldsAreTyped
    <3> QED
      BY <1>6, <3>1 DEF Objects
  <2> QED
    BY <1>1, <1>4, <1>6, <2>1 DEF TypeOK
<1>8. /\ pc' \in [Threads -> PCs] /\ pc'[t] = "run"
      /\ \A u \in Threads \ {t} :
           \/ pc'[u] = pc[u]
           \/ pc[u] = "waiting" /\ pc'[u] = "relock"
           \/ pc[u] = "callwait" /\ pc'[u] = "callrelock"
  BY <1>1, <1>4, Notified DEF PCs
<1>9. op'[t] = NoOp /\ op'[t].ref = NoRef /\ \A u \in Threads \ {t} : op'[u] = op[u]
  BY <1>1, <1>4 DEF TypeOK, NoOp
<1>10. TypeOK'
  BY <1>1, <1>4, <1>5, <1>7, <1>8, Nones DEF TypeOK, NoOp, Operations
<1>11. ObjectsAgree'
  <2>1. Counts'
    BY <1>5, <1>7 DEF IInv, ObjectsAgree, Counts
  <2>2. ReferencesAreLive'
    BY <1>5, <1>7, ReferredIsCounted DEF ReferencesAreLive
  <2>3. NothingLeaks'
    <3> SUFFICES ASSUME NEW q \in States, obj'[q].alloc = "live", RefsOf(q)' = {}
                 PROVE  \E u \in Threads : pc'[u] = "free" /\ op'[u].state = q
      BY DEF NothingLeaks
    <3>1. PICK u \in Threads : pc[u] = "free" /\ op[u].state = q
      BY <1>5, <1>7 DEF IInv, ObjectsAgree, NothingLeaks
    <3> QED
      BY <1>1, <1>8, <1>9, <3>1
  <2>4. FoundIsOwned'
    BY <1>7 DEF IInv, ObjectsAgree, FoundIsOwned
  <2>5. SetupIsUnfinished'
    <3>1. \A u \in States : obj'[u].alloc = "live" /\ ~obj'[u].initialized =>
            obj'[u].isBusy /\ ~obj'[u].L2 /\ obj'[u].used = 1
      <4> SUFFICES ASSUME NEW u \in States, obj'[u].alloc = "live", ~obj'[u].initialized
                   PROVE  obj'[u].isBusy /\ ~obj'[u].L2 /\ obj'[u].used = 1
        OBVIOUS
      <4>1. obj'[u] = obj[u]
        BY <1>6, <1>7
      <4> QED
        BY <4>1 DEF IInv, ObjectsAgree, SetupIsUnfinished
    <3>2. ASSUME NEW q \in Refs, IsRef(q)', ~obj'[ref'[q].state].initialized
          PROVE  ref'[q].kind = "lost"
      <4>1. IsRef(q) /\ ref'[q].state = ref[q].state /\ ref[q].state \in States
        BY <1>5, <3>2, ReferredIsCounted
      <4>2. ref[q].state # s /\ ~obj[ref[q].state].initialized
        BY <1>7, <3>2, <4>1
      <4>3. ref'[q] = ref[q]
        BY <1>3, <1>5, <4>2
      <4> QED
        BY <4>1, <4>2, <4>3 DEF IInv, ObjectsAgree, SetupIsUnfinished
    <3> QED
      BY <3>1, <3>2 DEF SetupIsUnfinished
  <2> QED
    BY <2>1, <2>2, <2>3, <2>4, <2>5 DEF ObjectsAgree
<1>12. Apart(t)
  <2>0. /\ Others(t) /\ pc'[t] # "free"
        /\ \A q \in States : obj'[q].listed /\ ~obj'[q].closed =>
             obj[q].listed /\ ~obj[q].closed /\ obj'[q].name = obj[q].name
    BY <1>4, <1>7, <1>8, <1>9 DEF Others
  <2> SUFFICES ASSUME NEW u \in Threads \ {t} PROVE
        /\ pc[u] \in Pending => ref'[op[u].ref] = NoRef /\ op'[t].ref # op[u].ref
        /\ pc[u] \in Holding =>
             /\ ref'[op[u].ref] = ref[op[u].ref]
             /\ obj'[op[u].state].initialized = obj[op[u].state].initialized
        /\ pc[u] \in HasFound =>
             /\ obj'[op[u].state].owned > 0
             /\ obj[op[u].state].initialized => obj'[op[u].state].initialized
        /\ pc[u] = "free" =>
             /\ obj'[op[u].state].alloc = "live"
             /\ \A q \in Refs : IsRef(q)' => ref'[q].state # op[u].state
    BY <2>0 DEF Apart, Others
  <2>1. Place(u)
    BY DEF IInv, Places
  <2>2. pc[u] \in Pending => ref'[op[u].ref] = NoRef /\ op'[t].ref # op[u].ref
    BY <2>1, <1>3, <1>5, <1>9, Nones DEF Place, PendingAgrees, IsRef
  <2>3. ASSUME pc[u] \in Holding
        PROVE  /\ ref'[op[u].ref] = ref[op[u].ref]
               /\ obj'[op[u].state].initialized = obj[op[u].state].initialized
    <3>1. /\ op[u].ref \in Refs /\ IsRef(op[u].ref) /\ ref[op[u].ref].state = op[u].state
          /\ ref[op[u].ref].holder = u /\ op[u].state \in States
      BY <2>3, HolderHolds
    <3>2. op[u].ref # r
      BY <1>3, <3>1
    <3>3. op[u].state # s
      <4>1. r \in RefsOf(s)
        BY <1>3 DEF RefsOf
      <4>2. op[u].state = s => op[u].ref \in RefsOf(s)
        BY <3>1 DEF RefsOf
      <4> QED
        BY <1>3, <3>2, <4>1, <4>2, OnlyReference
    <3> QED
      BY <1>5, <1>6, <3>1, <3>2, <3>3
  <2>4. pc[u] \in HasFound =>
             /\ obj'[op[u].state].owned > 0
             /\ obj[op[u].state].initialized => obj'[op[u].state].initialized
    BY <2>1, <1>7 DEF Place, FinderAgrees
  <2>5. pc[u] = "free" =>
             /\ obj'[op[u].state].alloc = "live"
             /\ \A q \in Refs : IsRef(q)' => ref'[q].state # op[u].state
    BY <2>1, <1>5, <1>7 DEF Place, FreerAgrees
  <2> QED
    BY <2>2, <2>3, <2>4, <2>5
<1>13. Place(t)'
  BY <1>8, <1>9, NoOpPlace
<1> QED
  BY <1>10, <1>11, <1>12, <1>13, ApartKeeps DEF IInv

-----------------------------------------------------------------------------
(* Steps that take references away *)

LEMMA GoneReference ==
  ASSUME TypeOK, NEW r \in Refs, IsRef(r), ref' = [ref EXCEPT ![r] = NoRef]
  PROVE  /\ ref' \in [Refs -> References \cup {NoRef}] /\ ref'[r] = NoRef
         /\ \A q \in Refs \ {r} : ref'[q] = ref[q]
         /\ \A s \in States :
              /\ RefsOf(s)' = RefsOf(s) \ {r}
              /\ OwnersOf(s)' = OwnersOf(s) \ {r}
              /\ r \in RefsOf(s) <=> s = ref[r].state
              /\ r \in OwnersOf(s) <=> s = ref[r].state /\ IsOwner(r)
<1>1. ref' \in [Refs -> References \cup {NoRef}] /\ ref'[r] = NoRef
      /\ \A q \in Refs \ {r} : ref'[q] = ref[q]
  BY DEF TypeOK
<1> QED
  BY <1>1 DEF RefsOf, OwnersOf, IsRef, IsOwner

LEMMA CountsGone ==
  ASSUME IInv, NEW r \in Refs, IsRef(r), ref' = [ref EXCEPT ![r] = NoRef],
         \A s \in States :
           /\ obj'[s].used = obj[s].used - One(s = ref[r].state)
           /\ obj'[s].owned = obj[s].owned - One(s = ref[r].state /\ IsOwner(r))
  PROVE  Counts'
<1> SUFFICES ASSUME NEW s \in States
             PROVE  /\ obj'[s].used = Cardinality(RefsOf(s)')
                    /\ obj'[s].owned = Cardinality(OwnersOf(s)')
  BY DEF Counts
<1>1. /\ RefsOf(s)' = RefsOf(s) \ {r}
      /\ OwnersOf(s)' = OwnersOf(s) \ {r}
      /\ r \in RefsOf(s) <=> s = ref[r].state
      /\ r \in OwnersOf(s) <=> s = ref[r].state /\ IsOwner(r)
  BY GoneReference DEF IInv
<1>2. /\ Cardinality(RefsOf(s) \ {r}) = IF r \in RefsOf(s) THEN Cardinality(RefsOf(s)) - 1
                                         ELSE Cardinality(RefsOf(s))
      /\ Cardinality(OwnersOf(s) \ {r}) = IF r \in OwnersOf(s) THEN Cardinality(OwnersOf(s)) - 1
                                           ELSE Cardinality(OwnersOf(s))
  BY CardinalitiesAreNat, FS_RemoveElement
<1>3. obj[s].used = Cardinality(RefsOf(s)) /\ obj[s].owned = Cardinality(OwnersOf(s))
  BY DEF IInv, ObjectsAgree, Counts
<1>4. /\ obj'[s].used = obj[s].used - One(s = ref[r].state)
      /\ obj'[s].owned = obj[s].owned - One(s = ref[r].state /\ IsOwner(r))
  OBVIOUS
<1> QED
  BY <1>1, <1>2, <1>3, <1>4, CardinalitiesAreNat DEF One

(* What a release without the count of references makes of an object *)
LEMMA DisownedObject ==
  ASSUME NEW o \in Objects, o.owned > 0
  PROVE  /\ Disowned(o) \in Objects /\ Disowned(o).alloc = o.alloc
         /\ Disowned(o).listed = o.listed /\ Disowned(o).name = o.name
         /\ Disowned(o).initialized = o.initialized /\ Disowned(o).isBusy = o.isBusy
         /\ Disowned(o).used = o.used /\ Disowned(o).owned = o.owned - 1
         /\ o.L2 = FALSE => Disowned(o).L2 = FALSE
         /\ o.closed => Disowned(o).closed
         /\ o.owned = 1 => Disowned(o).closed
<1> DEFINE last == o.owned = 1
           closes == last /\ ~o.isBusy
<1>1. PICK x \in Nat : x = o.owned - 1
  BY DEF Objects
<1>2. PICK c \in BOOLEAN : c = (o.closed \/ last)
  BY Zenon
<1>3. PICK l \in BOOLEAN : l = (o.L2 /\ ~closes)
  BY Zenon
<1>4. PICK d \in BOOLEAN : d = (o.loaded /\ ~closes)
  BY Zenon
<1>5. Disowned(o) = [o EXCEPT !.owned = o.owned - 1, !.closed = o.closed \/ last,
                              !.L2 = o.L2 /\ ~closes, !.loaded = o.loaded /\ ~closes]
  BY DEF Disowned
<1>6. Disowned(o) = [o EXCEPT !.owned = x, !.closed = c, !.L2 = l, !.loaded = d]
  <2> HIDE DEF last, closes
  <2> QED
    BY <1>1, <1>2, <1>3, <1>4, <1>5, Zenon
<1>7. PICK n : n = Disowned(o)
  OBVIOUS
<1>8. /\ n \in Objects /\ n.alloc = o.alloc /\ n.listed = o.listed /\ n.name = o.name
      /\ n.initialized = o.initialized /\ n.isBusy = o.isBusy /\ n.used = o.used
      /\ n.owned = x
  BY <1>6, <1>7 DEF Objects
<1>9. n.closed = c /\ n.L2 = l
  BY <1>6, <1>7 DEF Objects
<1>10. /\ o.L2 = FALSE => n.L2 = FALSE
       /\ o.closed => n.closed
       /\ o.owned = 1 => n.closed
  BY <1>2, <1>3, <1>9, Zenon
<1> QED
  BY <1>1, <1>7, <1>8, <1>10

(* One reference less *)
LessUsed(o, n) ==
  /\ n \in Objects /\ n.used = o.used - 1 /\ n.owned = o.owned
  /\ n.name = o.name /\ n.initialized = o.initialized /\ n.isBusy = o.isBusy
  /\ n.closed = o.closed /\ (~o.L2 => ~n.L2)
  /\ o.used > 1 => n.alloc = o.alloc /\ n.listed = o.listed
  /\ o.used = 1 => n.alloc = "freed" /\ ~n.listed

LEMMA FreedObject ==
  ASSUME NEW o \in Objects
  PROVE  /\ Freed(o) \in Objects /\ Freed(o).alloc = "freed" /\ ~Freed(o).listed
         /\ ~Freed(o).L2 /\ Freed(o).used = 0 /\ Freed(o).owned = o.owned
         /\ Freed(o).name = o.name /\ Freed(o).initialized = o.initialized
         /\ Freed(o).isBusy = o.isBusy /\ Freed(o).closed = o.closed
BY DEF Freed, Objects

LEMMA LessUsedObject ==
  ASSUME NEW o \in Objects, o.used > 0
  PROVE  LessUsed(o, IF o.used = 1 THEN Freed(o) ELSE [o EXCEPT !.used = @ - 1])
<1>1. CASE o.used = 1
  BY <1>1, FreedObject DEF LessUsed
<1>2. CASE o.used # 1
  <2>1. o.used \in Nat /\ o.used > 1 /\ o.used - 1 \in Nat
    BY <1>2 DEF Objects
  <2>2. [o EXCEPT !.used = @ - 1] \in Objects
    BY <2>1 DEF Objects
  <2>3. LessUsed(o, [o EXCEPT !.used = @ - 1])
    BY <2>1, <2>2 DEF LessUsed, Objects
  <2> QED
    BY <1>2, <2>3
<1> QED
  BY <1>1, <1>2

(* What the release of r makes of its object *)
LEMMA ReleasedObject ==
  ASSUME IInv, NEW r \in Refs, IsRef(r), NEW s \in States, s = ref[r].state
  PROVE  LET o == obj[s]
             n == Released(r, obj[s])
         IN  /\ n \in Objects /\ n.used = o.used - 1 /\ n.owned = o.owned - One(IsOwner(r))
             /\ n.name = o.name /\ n.initialized = o.initialized /\ n.isBusy = o.isBusy
             /\ ~o.L2 => ~n.L2
             /\ o.used > 1 => n.alloc = o.alloc /\ n.listed = o.listed
             /\ o.used = 1 => n.alloc = "freed" /\ ~n.listed
             /\ n.listed /\ ~n.closed => n.owned > 0
<1>1. PICK o \in Objects : o = obj[s]
  BY FieldsAreTyped DEF IInv
<1>2. /\ o.used > 0 /\ (IsOwner(r) => o.owned > 0) /\ o.used \in Nat /\ o.owned \in Nat
      /\ o.listed /\ ~o.closed => o.owned > 0
  BY <1>1, ReferredIsCounted, FieldsAreTyped DEF IInv, ObjectsAgree, FoundIsOwned
<1>3. PICK d : d = IF IsOwner(r) THEN Disowned(o) ELSE o
  OBVIOUS
<1>4. /\ d \in Objects /\ d.used = o.used /\ d.owned = o.owned - One(IsOwner(r))
      /\ d.alloc = o.alloc /\ d.listed = o.listed
      /\ d.name = o.name /\ d.initialized = o.initialized /\ d.isBusy = o.isBusy
      /\ ~o.L2 => ~d.L2
      /\ d.listed /\ ~d.closed => d.owned > 0
  <2>1. CASE IsOwner(r)
    <3>1. d = Disowned(o) /\ One(IsOwner(r)) = 1
      BY <1>3, <2>1 DEF One
    <3>2. o.L2 \in BOOLEAN /\ Disowned(o).L2 \in BOOLEAN
      BY <1>2, <2>1, DisownedObject DEF Objects
    <3>3. ~o.L2 => ~d.L2
      BY <1>2, <2>1, <3>1, <3>2, DisownedObject
    <3>4. /\ d \in Objects /\ d.used = o.used /\ d.owned = o.owned - 1
          /\ d.alloc = o.alloc /\ d.listed = o.listed
          /\ d.name = o.name /\ d.initialized = o.initialized /\ d.isBusy = o.isBusy
      BY <1>2, <2>1, <3>1, DisownedObject
    <3>5. o.owned = 1 => d.closed
      BY <1>2, <2>1, <3>1, DisownedObject
    <3>6. ~d.closed => d.owned > 0
      BY <1>2, <2>1, <3>4, <3>5
    <3> QED
      BY <3>1, <3>3, <3>4, <3>6
  <2>2. CASE ~IsOwner(r)
    <3>1. d = o /\ One(IsOwner(r)) = 0 /\ o.owned - 0 = o.owned
      BY <1>2, <1>3, <2>2 DEF One
    <3> QED
      BY <1>2, <3>1
  <2> QED
    BY <2>1, <2>2
<1>5. Released(r, o) = IF d.used = 1 THEN Freed(d) ELSE [d EXCEPT !.used = @ - 1]
  BY <1>3 DEF Released
<1>6. PICK n : n = Released(r, o)
  OBVIOUS
<1>7. LessUsed(d, n)
  BY <1>2, <1>4, <1>5, <1>6, LessUsedObject
<1>8. o.used > 1 \/ o.used = 1
  BY <1>2
<1>9. /\ n \in Objects /\ n.used = o.used - 1 /\ n.owned = o.owned - One(IsOwner(r))
      /\ n.name = o.name /\ n.initialized = o.initialized /\ n.isBusy = o.isBusy
      /\ ~o.L2 => ~n.L2
      /\ o.used > 1 => n.alloc = o.alloc /\ n.listed = o.listed
      /\ o.used = 1 => n.alloc = "freed" /\ ~n.listed
      /\ n.listed /\ ~n.closed => n.owned > 0
  BY <1>4, <1>7, <1>8 DEF LessUsed
<1> QED
  BY <1>1, <1>6, <1>9

(* A reference to s goes, with the object changed as above: by the         *)
(* collector, or by native code.                                           *)
Gone(r, s) ==
  /\ ref' = [ref EXCEPT ![r] = NoRef]
  /\ \A u \in States \ {s} : obj'[u] = obj[u]
  /\ obj'[s].used = obj[s].used - 1 /\ obj'[s].owned = obj[s].owned - One(IsOwner(r))
  /\ obj'[s].initialized = obj[s].initialized /\ obj'[s].isBusy = obj[s].isBusy
  /\ ~obj[s].L2 => ~obj'[s].L2
  /\ obj[s].used > 1 => obj'[s].alloc = obj[s].alloc
  /\ obj'[s].listed /\ ~obj'[s].closed => obj'[s].owned > 0

LEMMA GoneKeeps ==
  ASSUME IInv, NEW t \in Threads, pc[t] # "free", NEW r \in Refs, IsRef(r),
         NEW s \in States, s = ref[r].state, Gone(r, s),
         \A u \in Threads \ {t} : pc[u] = "free" => pc'[u] = pc[u] /\ op'[u] = op[u],
         \/ obj[s].used = 1 => obj'[s].alloc # "live"
         \/ /\ obj[s].initialized /\ obj'[s].alloc = obj[s].alloc
            /\ obj[s].used = 1 => pc'[t] = "free" /\ op'[t].state = s
  PROVE  ObjectsAgree'
<1>0. TypeOK /\ ObjectsAgree /\ ref' = [ref EXCEPT ![r] = NoRef]
  BY DEF IInv, Gone
<1>1. /\ \A q \in Refs : IsRef(q)' => q # r /\ IsRef(q) /\ ref'[q] = ref[q]
      /\ \A u \in States : RefsOf(u)' = RefsOf(u) \ {r}
      /\ \A u \in States : r \in RefsOf(u) <=> u = s
  BY <1>0, GoneReference DEF IsRef
<1>2. /\ obj[s].used \in Nat /\ obj[s].used > 0 /\ obj[s].alloc = "live"
      /\ obj[s].used = 1 \/ obj[s].used > 1
  BY <1>0, ReferredIsCounted, FieldsAreTyped
<1>3. Counts'
  <2>1. \A u \in States :
           /\ obj'[u].used = obj[u].used - One(u = ref[r].state)
           /\ obj'[u].owned = obj[u].owned - One(u = ref[r].state /\ IsOwner(r))
    <3> TAKE u \in States
    <3>1. obj[u].used \in Nat /\ obj[u].owned \in Nat
      BY <1>0, FieldsAreTyped
    <3>2. CASE u = s
      BY <3>1, <3>2 DEF Gone, One
    <3>3. CASE u # s
      BY <3>1, <3>3 DEF Gone, One
    <3> QED
      BY <3>2, <3>3
  <2> QED
    BY <1>0, <2>1, CountsGone
<1>4. ReferencesAreLive'
  <2> SUFFICES ASSUME NEW q \in Refs, IsRef(q)' PROVE obj'[ref'[q].state].alloc = "live"
    BY DEF ReferencesAreLive
  <2>1. q # r /\ IsRef(q) /\ ref'[q] = ref[q] /\ ref[q].state \in States
        /\ obj[ref[q].state].alloc = "live"
    BY <1>1, ReferredIsCounted
  <2>2. CASE ref[q].state = s
    <3>1. q \in RefsOf(s) /\ r \in RefsOf(s)
      BY <2>1, <2>2, <1>1 DEF RefsOf
    <3>2. obj[s].used > 1
      BY <1>2, <2>1, <3>1, OnlyReference
    <3> QED
      BY <1>2, <2>1, <2>2, <3>2 DEF Gone
  <2>3. CASE ref[q].state # s
    BY <2>1, <2>3 DEF Gone
  <2> QED
    BY <2>2, <2>3
<1>5. NothingLeaks'
  <2> SUFFICES ASSUME NEW q \in States, obj'[q].alloc = "live", RefsOf(q)' = {}
               PROVE  \E u \in Threads : pc'[u] = "free" /\ op'[u].state = q
    BY DEF NothingLeaks
  <2>1. CASE q = s
    <3>1. obj'[s].used = 0
      BY <1>3, <2>1, FS_EmptySet DEF Counts
    <3>2. obj[s].used = 1
      BY <1>2, <3>1 DEF Gone
    <3> QED
      BY <2>1, <3>2
  <2>2. CASE q # s
    <3>1. RefsOf(q) = {} /\ obj[q].alloc = "live"
      BY <1>1, <2>2 DEF Gone
    <3>2. PICK u \in Threads : pc[u] = "free" /\ op[u].state = q
      BY <1>0, <3>1 DEF ObjectsAgree, NothingLeaks
    <3> QED
      BY <3>2
  <2> QED
    BY <2>1, <2>2
<1>6. FoundIsOwned'
  BY <1>0 DEF ObjectsAgree, FoundIsOwned, Gone
<1>7. SetupIsUnfinished'
  <2>1. \A u \in States : obj'[u].alloc = "live" /\ ~obj'[u].initialized =>
          obj'[u].isBusy /\ ~obj'[u].L2 /\ obj'[u].used = 1
    <3> SUFFICES ASSUME NEW u \in States, obj'[u].alloc = "live", ~obj'[u].initialized
                 PROVE  obj'[u].isBusy /\ ~obj'[u].L2 /\ obj'[u].used = 1
      OBVIOUS
    <3>1. CASE u = s
      BY <1>0, <1>2, <3>1 DEF ObjectsAgree, SetupIsUnfinished, Gone
    <3>2. CASE u # s
      BY <1>0, <3>2 DEF ObjectsAgree, SetupIsUnfinished, Gone
    <3> QED
      BY <3>1, <3>2
  <2>2. \A q \in Refs : IsRef(q)' /\ ~obj'[ref'[q].state].initialized => ref'[q].kind = "lost"
    BY <1>0, <1>1, ReferredIsCounted DEF ObjectsAgree, SetupIsUnfinished, Gone
  <2> QED
    BY <2>1, <2>2 DEF SetupIsUnfinished
<1> QED
  BY <1>3, <1>4, <1>5, <1>6, <1>7 DEF ObjectsAgree

LEMMA GoneApart ==
  ASSUME IInv, NEW t \in Threads, NEW r \in Refs, IsRef(r), ref[r].holder = t,
         NEW s \in States, s = ref[r].state, Gone(r, s), Others(t),
         op'[t].ref \in {op[t].ref, NoRef}, pc'[t] = "free" => op'[t].state = s,
         \/ globalLock = t
         \/ /\ obj'[s].owned = obj[s].owned
            /\ obj'[s].listed /\ ~obj'[s].closed =>
                 obj[s].listed /\ ~obj[s].closed /\ obj'[s].name = obj[s].name
  PROVE  Apart(t)
<1>0. /\ TypeOK /\ ref'[r] = NoRef /\ \A q \in Refs \ {r} : ref'[q] = ref[q]
      /\ \A q \in Refs : IsRef(q)' => IsRef(q) /\ ref'[q] = ref[q]
  BY GoneReference DEF IInv, Gone, IsRef
<1> SUFFICES ASSUME NEW u \in Threads \ {t} PROVE
    /\ pc[u] \in Pending => ref'[op[u].ref] = NoRef /\ op'[t].ref # op[u].ref
    /\ pc[u] \in Holding =>
         /\ ref'[op[u].ref] = ref[op[u].ref]
         /\ obj'[op[u].state].initialized = obj[op[u].state].initialized
    /\ pc[u] \in HasFound =>
         /\ obj'[op[u].state].owned > 0
         /\ obj[op[u].state].initialized => obj'[op[u].state].initialized
    /\ pc[u] = "free" =>
         /\ obj'[op[u].state].alloc = "live"
         /\ \A q \in Refs : IsRef(q)' => ref'[q].state # op[u].state
         /\ pc'[t] = "free" => op'[t].state # op[u].state
    /\ pc[u] = "create" /\ globalLock = u => \A q \in States :
         obj'[q].listed /\ ~obj'[q].closed =>
           obj[q].listed /\ ~obj[q].closed /\ obj'[q].name = obj[q].name
  BY DEF Apart, Others
<1>1. Place(u)
  BY DEF IInv, Places
<1>2. pc[u] \in Pending => ref'[op[u].ref] = NoRef /\ op'[t].ref # op[u].ref
  <2>1. pc[u] \in Pending => /\ op[u].ref \in Refs /\ ref[op[u].ref] = NoRef
                             /\ op[t].ref # op[u].ref
    BY <1>1 DEF Place, PendingAgrees
  <2> QED
    BY <1>0, <2>1, Nones
<1>3. pc[u] \in Holding => ref'[op[u].ref] = ref[op[u].ref]
  BY <1>0, HolderHolds
<1>4. pc[u] \in HasFound \cup Holding \cup {"free"} => op[u].state \in States
  BY WorkedOnIsLive
<1>5. pc[u] \in HasFound \cup Holding =>
         obj'[op[u].state].initialized = obj[op[u].state].initialized
  BY <1>4 DEF Gone
<1>6. pc[u] \in HasFound => obj'[op[u].state].owned > 0
  BY <1>1, <1>4 DEF Place, FinderAgrees, Gone
<1>7. pc[u] = "free" =>
         /\ obj'[op[u].state].alloc = "live"
         /\ \A q \in Refs : IsRef(q)' => ref'[q].state # op[u].state
         /\ pc'[t] = "free" => op'[t].state # op[u].state
  BY <1>0, <1>1, <1>4 DEF Place, FreerAgrees, Gone
<1>8. pc[u] = "create" /\ globalLock = u => \A q \in States :
         obj'[q].listed /\ ~obj'[q].closed =>
           obj[q].listed /\ ~obj[q].closed /\ obj'[q].name = obj[q].name
  BY DEF Gone
<1> QED
  BY <1>2, <1>3, <1>5, <1>6, <1>7, <1>8

(* MtState_release of r, wherever it is called *)
LEMMA ReleaseGone ==
  ASSUME IInv, NEW r \in Refs, IsRef(r), NEW s \in States, s = ref[r].state, Release(r)
  PROVE  /\ obj' \in [States -> Objects] /\ ref' \in [Refs -> References \cup {NoRef}]
         /\ Gone(r, s) /\ (obj[s].used = 1 => obj'[s].alloc # "live")
<1>0. TypeOK
  BY DEF IInv
<1>1. /\ obj' = [obj EXCEPT ![s] = Released(r, @)] /\ ref' = [ref EXCEPT ![r] = NoRef]
  BY DEF Release
<1>2. obj'[s] = Released(r, obj[s]) /\ \A u \in States \ {s} : obj'[u] = obj[u]
  BY <1>0, <1>1 DEF TypeOK
<1>3. PICK n : n = Released(r, obj[s])
  OBVIOUS
<1>4. /\ n \in Objects /\ n.used = obj[s].used - 1
      /\ n.owned = obj[s].owned - One(IsOwner(r))
      /\ n.initialized = obj[s].initialized /\ n.isBusy = obj[s].isBusy
      /\ ~obj[s].L2 => ~n.L2
      /\ obj[s].used > 1 => n.alloc = obj[s].alloc
      /\ obj[s].used = 1 => n.alloc = "freed"
      /\ n.listed /\ ~n.closed => n.owned > 0
  BY <1>3, ReleasedObject
<1>5. obj' \in [States -> Objects]
  BY <1>0, <1>1, <1>2, <1>3, <1>4 DEF TypeOK
<1>6. ref' \in [Refs -> References \cup {NoRef}]
  BY <1>0, <1>1, GoneReference
<1> QED
  BY <1>1, <1>2, <1>3, <1>4, <1>5, <1>6 DEF Gone

LEMMA CollectedStep ==
  ASSUME IInv, NEW t \in Threads, Collected(t)
  PROVE  IInv'
<1>1. /\ TypeOK /\ pc[t] = "release" /\ op[t].ref \in Refs /\ IsRef(op[t].ref)
      /\ ref[op[t].ref].holder = t /\ ref[op[t].ref].state = op[t].state
      /\ op[t].state \in States /\ globalLock = t
  BY HolderHolds DEF IInv, Collected, Holding
<1>2. PICK s \in States, r \in Refs : s = op[t].state /\ r = op[t].ref
  BY <1>1
<1>3. IsRef(r) /\ ref[r].holder = t /\ s = ref[r].state /\ Release(r) /\ Finish(t)
      /\ globalLock' = NoThread /\ stateMutex' = stateMutex
  BY <1>1, <1>2 DEF Collected
<1>4. /\ obj' \in [States -> Objects] /\ ref' \in [Refs -> References \cup {NoRef}]
      /\ Gone(r, s) /\ (obj[s].used = 1 => obj'[s].alloc # "live")
  BY <1>3, ReleaseGone
<1>5. /\ pc' \in [Threads -> PCs] /\ op' \in [Threads -> Operations] /\ pc'[t] = "run"
      /\ op'[t].ref = NoRef /\ Place(t)'
      /\ \A u \in Threads \ {t} : op'[u] = op[u] /\ pc'[u] = pc[u]
  BY <1>1, <1>3, Finished
<1>6. TypeOK' /\ Others(t)
  BY <1>1, <1>3, <1>4, <1>5 DEF TypeOK, Others
<1>7. ObjectsAgree'
  BY <1>1, <1>3, <1>4, <1>5, GoneKeeps
<1>8. Apart(t)
  BY <1>1, <1>3, <1>4, <1>5, <1>6, GoneApart
<1> QED
  BY <1>5, <1>6, <1>7, <1>8, ApartKeeps DEF IInv

LEMMA CollectInFindStep ==
  ASSUME IInv, SafeCollections, NEW t \in Threads, NEW r \in Refs, CollectInFind(t, r)
  PROVE  IInv'
<1>1. /\ TypeOK /\ Place(t) /\ pc[t] = "makeref" /\ IsRef(r) /\ ref[r].holder = t
      /\ ref[r].state # op[t].state /\ Release(r)
      /\ UNCHANGED <<globalLock, stateMutex, pc, op>>
  BY DEF IInv, Places, CollectInFind, SafeCollections
<1>2. PICK s \in States : s = ref[r].state
  BY <1>1, ReferredIsCounted
<1>3. globalLock = t
  BY <1>1 DEF Place, FinderAgrees, HasFound
<1>4. /\ obj' \in [States -> Objects] /\ ref' \in [Refs -> References \cup {NoRef}]
      /\ Gone(r, s) /\ (obj[s].used = 1 => obj'[s].alloc # "live")
  BY <1>1, <1>2, ReleaseGone
<1>5. TypeOK' /\ Others(t)
  BY <1>1, <1>4 DEF TypeOK, Others
<1>6. ObjectsAgree'
  BY <1>1, <1>2, <1>4, GoneKeeps
<1>7. Apart(t)
  BY <1>1, <1>2, <1>3, <1>4, <1>5, GoneApart
<1>8. Place(t)'
  <2>1. op[t].ref \in Refs /\ ref'[op[t].ref] = NoRef
    BY <1>1, GoneReference DEF Place, PendingAgrees, Pending, Release
  <2>2. obj'[op[t].state] = obj[op[t].state]
    BY <1>1, <1>2, <1>4 DEF Place, FinderAgrees, HasFound, Gone
  <2> QED
    BY <1>1, <2>1, <2>2
       DEF Place, NoneYet, PendingAgrees, CreatorAgrees, FinderAgrees,
           HolderAgrees, FreerAgrees, Pending, HasFound, Calling, Holding
<1> QED
  BY <1>5, <1>6, <1>7, <1>8, ApartKeeps DEF IInv

LEMMA ReleaseNativeStep ==
  ASSUME IInv, NEW t \in Threads, NEW n \in Refs, ReleaseNative(t, n)
  PROVE  IInv'
<1>1. /\ TypeOK /\ Place(t) /\ pc[t] = "run" /\ IsRef(n) /\ ref[n].kind = "native"
      /\ ref[n].holder = t /\ ref' = [ref EXCEPT ![n] = NoRef]
      /\ UNCHANGED <<globalLock, stateMutex>>
  BY DEF IInv, Places, ReleaseNative, Usable
<1>2. PICK s \in States : s = ref[n].state
  BY <1>1, ReferredIsCounted
<1>3. /\ obj' = [obj EXCEPT ![s].used = @ - 1]
      /\ IF obj[s].used = 1 THEN Goto(t, "free") /\ op' = [op EXCEPT ![t].state = s]
         ELSE pc' = pc /\ op' = op
  BY <1>2 DEF ReleaseNative, NativeFrees
<1>4. /\ obj[s].used \in Nat /\ obj[s].used > 0 /\ obj[s].owned \in Nat /\ obj[s].alloc = "live"
      /\ obj[s] \in Objects
  BY <1>1, <1>2, ReferredIsCounted, FieldsAreTyped
<1>5. obj[s].initialized /\ ~IsOwner(n)
  BY <1>1, <1>2 DEF IInv, ObjectsAgree, SetupIsUnfinished, IsOwner
<1>6. /\ obj'[s] = [obj[s] EXCEPT !.used = @ - 1]
      /\ \A u \in States \ {s} : obj'[u] = obj[u]
  BY <1>1, <1>3 DEF TypeOK
<1>7. /\ obj'[s] \in Objects /\ obj'[s].used = obj[s].used - 1 /\ obj'[s].owned = obj[s].owned
      /\ obj'[s].alloc = obj[s].alloc /\ obj'[s].listed = obj[s].listed
      /\ obj'[s].name = obj[s].name /\ obj'[s].closed = obj[s].closed
      /\ obj'[s].initialized = obj[s].initialized /\ obj'[s].isBusy = obj[s].isBusy
      /\ obj'[s].L2 = obj[s].L2
  <2>1. obj[s].used - 1 \in Nat
    BY <1>4
  <2> QED
    BY <1>4, <1>6, <2>1 DEF Objects
<1>8. Gone(n, s)
  <2>1. obj'[s].owned = obj[s].owned - One(IsOwner(n))
    BY <1>4, <1>5, <1>7 DEF One
  <2> QED
    BY <1>1, <1>6, <1>7, <2>1 DEF Gone, IInv, ObjectsAgree, FoundIsOwned
<1>9. /\ pc' \in [Threads -> PCs] /\ op' \in [Threads -> Operations]
      /\ op'[t].ref = op[t].ref
      /\ obj[s].used = 1 => pc'[t] = "free" /\ op'[t].state = s
      /\ obj[s].used # 1 => pc'[t] = pc[t] /\ op'[t] = op[t]
      /\ \A u \in Threads \ {t} : op'[u] = op[u] /\ pc'[u] = pc[u]
  <2>1. CASE obj[s].used = 1
    BY <1>1, <1>3, <2>1, StateSet DEF TypeOK, Goto, PCs
  <2>2. CASE obj[s].used # 1
    BY <1>1, <1>3, <2>2 DEF TypeOK
  <2> QED
    BY <2>1, <2>2
<1>10. TypeOK' /\ Others(t)
  <2>1. obj' \in [States -> Objects]
    BY <1>1, <1>3, <1>6, <1>7 DEF TypeOK
  <2>2. ref' \in [Refs -> References \cup {NoRef}]
    BY <1>1, GoneReference
  <2> QED
    BY <1>1, <1>9, <2>1, <2>2 DEF TypeOK, Others
<1>11. ObjectsAgree'
  BY <1>1, <1>2, <1>5, <1>7, <1>8, <1>9, GoneKeeps
<1>12. Apart(t)
  BY <1>1, <1>2, <1>7, <1>8, <1>9, <1>10, GoneApart
<1>13. Place(t)'
  <2>1. CASE obj[s].used = 1
    <3>1. pc'[t] = "free" /\ op'[t].state = s /\ op'[t].ref = NoRef
      BY <1>1, <1>9, <2>1 DEF Place, NoneYet
    <3>2. \A q \in Refs : IsRef(q)' => ref'[q].state # s
      <4> SUFFICES ASSUME NEW q \in Refs, IsRef(q)', ref'[q].state = s PROVE FALSE
        OBVIOUS
      <4>1. q # n /\ IsRef(q) /\ ref[q].state = s
        BY <1>1, GoneReference DEF IsRef
      <4>2. q \in RefsOf(s) /\ n \in RefsOf(s)
        BY <1>1, <1>2, <4>1 DEF RefsOf
      <4> QED
        BY <2>1, <4>1, <4>2, OnlyReference
    <3>3. \A u \in Threads \ {t} : pc[u] = "free" => op[u].state # s
      BY <1>1, <1>2 DEF IInv, Places, Place, FreerAgrees
    <3>4. FreerAgrees(t)'
      BY <1>4, <1>7, <1>9, <3>1, <3>2, <3>3 DEF FreerAgrees
    <3> QED
      BY <3>1, <3>4
         DEF Place, NoneYet, PendingAgrees, CreatorAgrees, FinderAgrees,
             HolderAgrees, Pending, HasFound, Calling, Holding
  <2>2. CASE obj[s].used # 1
    BY <1>1, <1>9, <2>2
       DEF Place, NoneYet, PendingAgrees, CreatorAgrees, FinderAgrees,
           HolderAgrees, FreerAgrees, Pending, HasFound, Calling, Holding
  <2> QED
    BY <2>1, <2>2
<1> QED
  BY <1>10, <1>11, <1>12, <1>13, ApartKeeps DEF IInv

LEMMA FreeStep ==
  ASSUME IInv, NEW t \in Threads, Free(t)
  PROVE  IInv'
<1>1. /\ TypeOK /\ Place(t) /\ pc[t] = "free" /\ GlobalFree(t) /\ Finish(t)
      /\ UNCHANGED <<globalLock, stateMutex, ref>>
  BY DEF IInv, Places, Free
<1>2. PICK s \in States : s = op[t].state
  BY <1>1 DEF Place, FreerAgrees
<1>3. /\ obj' = [obj EXCEPT ![s] = Freed(@)]
      /\ \A r \in Refs : IsRef(r) => ref[r].state # s
      /\ \A u \in Threads \ {t} : pc[u] = "free" => op[u].state # s
  BY <1>1, <1>2 DEF Free, Place, FreerAgrees
<1>4. obj'[s] = Freed(obj[s]) /\ \A u \in States \ {s} : obj'[u] = obj[u]
  BY <1>1, <1>3 DEF TypeOK
<1>5. /\ obj'[s] \in Objects /\ obj'[s].alloc = "freed" /\ ~obj'[s].listed /\ obj'[s].used = 0
      /\ obj'[s].owned = obj[s].owned /\ obj'[s].initialized = obj[s].initialized
  BY <1>1, <1>4, FreedObject, FieldsAreTyped
<1>6. RefsOf(s) = {} /\ \A u \in States : RefsOf(u)' = RefsOf(u) /\ OwnersOf(u)' = OwnersOf(u)
  BY <1>1, <1>3 DEF RefsOf, OwnersOf, IsRef, IsOwner
<1>7. /\ pc' \in [Threads -> PCs] /\ op' \in [Threads -> Operations] /\ pc'[t] = "run"
      /\ op'[t].ref = NoRef /\ Place(t)'
      /\ \A u \in Threads \ {t} : op'[u] = op[u] /\ pc'[u] = pc[u]
  BY <1>1, Finished
<1>8. TypeOK' /\ Others(t)
  <2>1. obj' \in [States -> Objects]
    BY <1>1, <1>3, <1>4, <1>5 DEF TypeOK
  <2> QED
    BY <1>1, <1>7, <2>1 DEF TypeOK, Others
<1>9. ObjectsAgree'
  <2>1. Counts'
    BY <1>4, <1>5, <1>6, FS_EmptySet DEF IInv, ObjectsAgree, Counts
  <2>2. ReferencesAreLive'
    BY <1>1, <1>3, <1>4, ReferredIsCounted DEF ReferencesAreLive, IsRef
  <2>3. NothingLeaks'
    <3> SUFFICES ASSUME NEW q \in States, obj'[q].alloc = "live", RefsOf(q)' = {}
                 PROVE  \E u \in Threads : pc'[u] = "free" /\ op'[u].state = q
      BY DEF NothingLeaks
    <3>1. q # s /\ RefsOf(q) = {} /\ obj[q].alloc = "live"
      BY <1>4, <1>5, <1>6
    <3>2. PICK u \in Threads : pc[u] = "free" /\ op[u].state = q
      BY <3>1 DEF IInv, ObjectsAgree, NothingLeaks
    <3> QED
      BY <1>2, <1>7, <3>1, <3>2
  <2>4. FoundIsOwned'
    BY <1>4, <1>5 DEF IInv, ObjectsAgree, FoundIsOwned
  <2>5. SetupIsUnfinished'
    BY <1>1, <1>3, <1>4, <1>5, ReferredIsCounted
       DEF IInv, ObjectsAgree, SetupIsUnfinished, IsRef
  <2> QED
    BY <2>1, <2>2, <2>3, <2>4, <2>5 DEF ObjectsAgree
<1>10. Apart(t)
  <2> SUFFICES ASSUME NEW u \in Threads \ {t} PROVE
        /\ pc[u] \in Pending => ref'[op[u].ref] = NoRef /\ op'[t].ref # op[u].ref
        /\ pc[u] \in Holding =>
             obj'[op[u].state].initialized = obj[op[u].state].initialized
        /\ pc[u] \in HasFound =>
             /\ obj'[op[u].state].owned > 0
             /\ obj[op[u].state].initialized => obj'[op[u].state].initialized
        /\ pc[u] = "free" =>
             /\ obj'[op[u].state].alloc = "live"
             /\ \A q \in Refs : IsRef(q)' => ref'[q].state # op[u].state
        /\ \A q \in States : obj'[q].listed /\ ~obj'[q].closed =>
             obj[q].listed /\ ~obj[q].closed /\ obj'[q].name = obj[q].name
    BY <1>1, <1>7, <1>8 DEF Apart, Others
  <2>1. Place(u) /\ (pc[u] \in HasFound \cup Holding \cup {"free"} => op[u].state \in States)
    BY WorkedOnIsLive DEF IInv, Places
  <2>2. pc[u] \in Pending => ref'[op[u].ref] = NoRef /\ op'[t].ref # op[u].ref
    BY <1>1, <1>7, <2>1, Nones DEF Place, PendingAgrees
  <2>3. \A q \in States : obj'[q].initialized = obj[q].initialized /\ obj'[q].owned = obj[q].owned
    BY <1>4, <1>5
  <2>4. pc[u] \in HasFound => obj'[op[u].state].owned > 0
    BY <2>1, <2>3 DEF Place, FinderAgrees
  <2>5. pc[u] = "free" =>
             /\ obj'[op[u].state].alloc = "live"
             /\ \A q \in Refs : IsRef(q)' => ref'[q].state # op[u].state
    BY <1>1, <1>3, <1>4, <2>1 DEF Place, FreerAgrees, IsRef
  <2>6. \A q \in States : obj'[q].listed /\ ~obj'[q].closed =>
             obj[q].listed /\ ~obj[q].closed /\ obj'[q].name = obj[q].name
    BY <1>4, <1>5
  <2> QED
    BY <2>1, <2>2, <2>3, <2>4, <2>5, <2>6
<1> QED
  BY <1>7, <1>8, <1>9, <1>10, ApartKeeps DEF IInv

-----------------------------------------------------------------------------

LEMMA NextIInv ==
  ASSUME SafeCollections, IInv, [Next]_vars
  PROVE  IInv'
<1>1. ASSUME NEW t \in Threads, Request(t) PROVE IInv'
  <2>1. ASSUME NEW m \in Modes, NEW w \in Names \cup States \cup {NoName}, NEW r \in Refs,
               Start(t, m, w, r)
        PROVE  IInv'
    BY <2>1, StartStep
  <2>2. ASSUME NEW r \in Refs, Collect(t, r) PROVE IInv'
    BY <2>2, CollectStep
  <2>3. ASSUME NEW r \in Refs, CollectInFind(t, r) PROVE IInv'
    BY <2>3, CollectInFindStep
  <2>4. ASSUME NEW r \in Refs, NEW n \in Refs, NEW u \in Threads, Retain(t, r, n, u) PROVE IInv'
    BY <2>4, RetainStep
  <2>5. ASSUME NEW r \in Refs, ReleaseNative(t, r) PROVE IInv'
    BY <2>5, ReleaseNativeStep
  <2>6. ASSUME NEW r \in Refs, Close(t, r) PROVE IInv'
    BY <2>6, CloseStep
  <2>7. ASSUME NEW r \in Refs, Call(t, r) PROVE IInv'
    BY <2>7, CallStep
  <2>8. CASE CollectInCall(t)
    BY <2>8 DEF CollectInCall, SafeCollections
  <2>9. CASE Require(t)
    BY <2>9, RequireStep
  <2>10. CASE SetupFails(t)
    BY <2>10, SetupFailsStep
  <2>11. CASE SpuriousWakeup(t)
    BY <2>11, SpuriousWakeupStep
  <2>12. CASE MakeRefFails(t)
    BY <2>12, FindFailsStep
  <2> QED
    BY <1>1, <2>1, <2>2, <2>3, <2>4, <2>5, <2>6, <2>7, <2>8, <2>9, <2>10, <2>11, <2>12 DEF Request
<1>2. ASSUME NEW t \in Threads, Step(t) PROVE IInv'
  <2>1. CASE Lookup(t)
    BY <2>1, LookupStep
  <2>2. CASE Examine(t)
    <3>1. /\ pc[t] \in {"examine", "relock"} /\ UNCHANGED <<globalLock, ref, op>>
          /\ (Ready(op[t].state) /\ Take(t, op[t].state)) \/ Await(t, op[t].state)
      BY <2>2 DEF Examine
    <3> QED
      BY <3>1, FoundStep
  <2>3. CASE Relock(t)
    <3>1. /\ pc[t] \in {"examine", "relock"} /\ UNCHANGED <<globalLock, ref, op>>
          /\ Await(t, op[t].state)
      BY <2>3 DEF Relock
    <3> QED
      BY <3>1, FoundStep
  <2>4. CASE MakeRef(t)
    BY <2>4, MakeRefStep
  <2>5. CASE CreateFails(t)
    BY <2>5, CreateFailsStep
  <2>6. CASE \E s \in States : Create(t, s)
    BY <2>6, CreateStep
  <2>7. CASE Required(t)
    BY <2>7, RequiredStep
  <2>8. CASE Initialize(t)
    BY <2>8, InitializeStep
  <2>9. CASE Collected(t)
    BY <2>9, CollectedStep
  <2>10. CASE Free(t)
    BY <2>10, FreeStep
  <2>11. CASE Closed(t)
    BY <2>11, ClosedStep
  <2>12. CASE CallRelock(t)
    BY <2>12, CallRelockStep
  <2>13. CASE EndCall(t)
    BY <2>13, EndCallStep
  <2>14. CASE Ended(t)
    BY <2>14, EndedStep
  <2>15. CASE FindFailed(t)
    BY <2>15, FindFailsStep
  <2> QED
    BY <1>2, <2>1, <2>2, <2>3, <2>4, <2>5, <2>6, <2>7, <2>8, <2>9, <2>10, <2>11, <2>12,
       <2>13, <2>14, <2>15 DEF Step
<1>3. CASE UNCHANGED vars
  <2>1. globalLock' = globalLock /\ stateMutex' = stateMutex /\ obj' = obj /\ ref' = ref
        /\ pc' = pc /\ op' = op
    BY <1>3 DEF vars
  <2>2. TypeOK'
    BY <2>1 DEF IInv, TypeOK
  <2>3. Places'
    BY <2>1 DEF IInv, Places, Place, NoneYet, PendingAgrees, CreatorAgrees, FinderAgrees,
                HolderAgrees, FreerAgrees, IsRef
  <2>4. \A s \in States : RefsOf(s)' = RefsOf(s) /\ OwnersOf(s)' = OwnersOf(s)
    BY <2>1 DEF RefsOf, OwnersOf, IsRef, IsOwner
  <2>5. ObjectsAgree'
    BY <2>1, <2>4 DEF IInv, ObjectsAgree, Counts, ReferencesAreLive, NothingLeaks,
                      FoundIsOwned, SetupIsUnfinished, IsRef
  <2> QED
    BY <2>2, <2>3, <2>5 DEF IInv
<1> QED
  BY <1>1, <1>2, <1>3 DEF Next

LEMMA AlwaysIInv ==
  ASSUME SafeCollections
  PROVE  Spec => []IInv
BY InitIInv, NextIInv, PTL DEF Spec

(* The variables of newstate(), state(), singleton(), the reference counts *)
(* and the calls in src/state.c keep their types.                          *)
THEOREM TypeCorrect == ASSUME SafeCollections PROVE Spec => []TypeOK
<1>1. IInv => TypeOK
  BY DEF IInv
<1> QED
  BY <1>1, AlwaysIInv, PTL

(* MtState.used and MtState.owned are the numbers of references and of     *)
(* owning references, whatever finds, retains and releases them.           *)
THEOREM CountsAreKept == ASSUME SafeCollections PROVE Spec => []CountsAreExact
<1>1. IInv => CountsAreExact
  BY DEF IInv, ObjectsAgree, Counts, CountsAreExact, OwnersOf
<1> QED
  BY <1>1, AlwaysIInv, PTL

(* No userdata and no native handle is left behind by MtState_free().      *)
THEOREM ReferencesOutlived == ASSUME SafeCollections PROVE Spec => []ReferencesAreLive
<1>1. IInv => ReferencesAreLive
  BY DEF IInv, ObjectsAgree
<1> QED
  BY <1>1, AlwaysIInv, PTL

(* No function of src/state.c works on an object after it was freed, if    *)
(* memory does not run short between 541 and 543: a find that fails there  *)
(* writes to the object at 415 without a reference to it.                  *)
THEOREM WorkIsSafe ==
  ASSUME SafeCollections, FindsSucceed
  PROVE  Spec => []WorkIsOnLiveObjects
<1>1. IInv => WorkIsOnLiveObjects
  <2> SUFFICES ASSUME IInv, NEW t \in Threads, op[t].state # NoState
               PROVE  obj[op[t].state].alloc = "live"
    BY DEF WorkIsOnLiveObjects
  <2>1. pc[t] \in PCs /\ pc[t] \notin {"run", "lookup", "create", "failed"}
    BY DEF IInv, TypeOK, Places, Place, NoneYet
  <2>2. pc[t] \in HasFound \cup Holding \cup {"free"}
    BY <2>1 DEF PCs, HasFound, Holding, Calling
  <2> QED
    BY <2>2, WorkedOnIsLive
<1> QED
  BY <1>1, AlwaysIInv, PTL

(* An object whose last reference went is freed by the thread that took    *)
(* it, or has been.                                                        *)
THEOREM NothingLeaksEver == ASSUME SafeCollections PROVE Spec => []NothingLeaks
<1>1. IInv => NothingLeaks
  BY DEF IInv, ObjectsAgree
<1> QED
  BY <1>1, AlwaysIInv, PTL

(* What findStateWithName() and findStateWithId() return has an owner.     *)
THEOREM FoundHasOwner == ASSUME SafeCollections PROVE Spec => []FoundIsOwned
<1>1. IInv => FoundIsOwned
  BY DEF IInv, ObjectsAgree
<1> QED
  BY <1>1, AlwaysIInv, PTL

(* Until its setup function has returned a state is busy, without an       *)
(* interpreter that could be called, and known to its creator alone.       *)
THEOREM SetupStaysPrivate == ASSUME SafeCollections PROVE Spec => []SetupIsPrivate
<1>1. IInv => SetupIsPrivate
  BY DEF IInv, ObjectsAgree, Counts, SetupIsUnfinished, SetupIsPrivate
<1> QED
  BY <1>1, AlwaysIInv, PTL

-----------------------------------------------------------------------------
(* Names of singletons *)

(* A step that creates no object brings no name into the registry. *)
NoNewNames ==
  \A s \in States : obj'[s].listed /\ ~obj'[s].closed =>
    obj[s].listed /\ ~obj[s].closed /\ obj'[s].name = obj[s].name

LEMMA ReleasedNames ==
  ASSUME IInv, NEW r \in Refs, IsRef(r), Release(r)
  PROVE  NoNewNames
<1>1. PICK s \in States : s = ref[r].state
  BY ReferredIsCounted
<1>2. obj'[s] = Released(r, obj[s]) /\ \A u \in States \ {s} : obj'[u] = obj[u]
  BY <1>1 DEF IInv, TypeOK, Release
<1>3. /\ obj'[s].listed => obj[s].listed
      /\ obj[s].closed /\ obj'[s].listed => obj'[s].closed
      /\ obj'[s].name = obj[s].name
  <2>1. PICK d : d = IF IsOwner(r) THEN Disowned(obj[s]) ELSE obj[s]
    OBVIOUS
  <2>2. obj[s] \in Objects /\ obj[s].used > 0 /\ (IsOwner(r) => obj[s].owned > 0)
    BY <1>1, FieldsAreTyped, ReferredIsCounted DEF IInv
  <2>3. /\ d \in Objects /\ d.listed = obj[s].listed /\ d.name = obj[s].name
        /\ d.used = obj[s].used /\ (obj[s].closed => d.closed)
    BY <2>1, <2>2, DisownedObject
  <2>4. LessUsed(d, IF d.used = 1 THEN Freed(d) ELSE [d EXCEPT !.used = @ - 1])
    BY <2>2, <2>3, LessUsedObject
  <2>5. LessUsed(d, obj'[s])
    BY <1>2, <2>1, <2>4 DEF Released
  <2>6. d.used = 1 \/ d.used > 1
    BY <2>2, <2>3 DEF Objects
  <2> QED
    BY <2>3, <2>5, <2>6 DEF LessUsed
<1> QED
  BY <1>2, <1>3 DEF NoNewNames

LEMMA OldNames ==
  ASSUME IInv, SafeCollections, NEW t \in Threads,
         Request(t) \/ Step(t), ~ \E s \in States : Create(t, s)
  PROVE  NoNewNames
<1>1. TypeOK
  BY DEF IInv
<1>2. obj' = obj => NoNewNames
  BY DEF NoNewNames
<1>3. CASE \/ \E m \in Modes, w \in Names \cup States \cup {NoName}, r \in Refs :
                Start(t, m, w, r)
           \/ \E r \in Refs : Collect(t, r) \/ Close(t, r)
           \/ Require(t) \/ SpuriousWakeup(t) \/ Lookup(t) \/ CreateFails(t) \/ EndCall(t)
           \/ MakeRefFails(t) \/ FindFailed(t)
  <2>1. obj' = obj
    BY <1>3 DEF Start, Collect, Close, Require, SpuriousWakeup, Lookup, CreateFails, EndCall,
                MakeRefFails, FindFailed
  <2> QED
    BY <1>2, <2>1
<1>4. ASSUME NEW r \in Refs, CollectInFind(t, r) PROVE NoNewNames
  BY <1>4, ReleasedNames DEF CollectInFind
<1>5. ASSUME NEW r \in Refs, NEW n \in Refs, NEW u \in Threads, Retain(t, r, n, u)
      PROVE  NoNewNames
  BY <1>1, <1>5 DEF Retain, NoNewNames, TypeOK, Objects
<1>6. ASSUME NEW r \in Refs, ReleaseNative(t, r) PROVE NoNewNames
  BY <1>1, <1>6 DEF ReleaseNative, NoNewNames, TypeOK, Objects
<1>7. ASSUME NEW r \in Refs, Call(t, r) PROVE NoNewNames
  BY <1>1, <1>7 DEF Call, NoNewNames, TypeOK, Objects
<1>8. CASE CollectInCall(t)
  BY <1>8 DEF CollectInCall, SafeCollections
<1>9. CASE SetupFails(t)
  BY <1>1, <1>9 DEF SetupFails, NoNewNames, TypeOK, Objects
<1>10. CASE Examine(t) \/ Relock(t)
  <2>1. /\ pc[t] \in HasFound
        /\ (Ready(op[t].state) /\ Take(t, op[t].state)) \/ Await(t, op[t].state)
    BY <1>10 DEF Examine, Relock, HasFound
  <2>2. op[t].state \in States /\ obj[op[t].state].alloc = "live"
    BY <2>1, WorkedOnIsLive
  <2>3. obj[op[t].state].initialized \/ obj[op[t].state].isBusy
    BY <2>2 DEF IInv, ObjectsAgree, SetupIsUnfinished
  <2>4. obj' = obj
    BY <2>1, <2>3 DEF Await, Ready, Take
  <2> QED
    BY <1>2, <2>4
<1>11. CASE MakeRef(t)
  <2>1. PICK s \in States : s = op[t].state
    BY <1>11, WorkedOnIsLive DEF MakeRef, HasFound
  <2>2. obj'[s] = Counted(obj[s], op[t].mode = "singleton")
        /\ \A u \in States \ {s} : obj'[u] = obj[u]
    BY <1>1, <1>11, <2>1 DEF MakeRef, TypeOK
  <2>3. PICK b \in BOOLEAN : b = (op[t].mode = "singleton")
    OBVIOUS
  <2>4. CountedAs(obj[s], obj'[s], b)
    BY <1>1, <2>2, <2>3, CountedObject, FieldsAreTyped
  <2> QED
    BY <2>2, <2>4 DEF CountedAs, NoNewNames
<1>12. CASE Required(t)
  BY <1>1, <1>12 DEF Required, NoNewNames, TypeOK, Objects
<1>13. CASE Initialize(t)
  <2>1. obj' = [obj EXCEPT ![op[t].state].L2 = TRUE, ![op[t].state].isBusy = FALSE,
                           ![op[t].state].initialized = TRUE]
    BY <1>13 DEF Initialize
  <2> QED
    BY <1>1, <2>1 DEF NoNewNames, TypeOK, Objects
<1>14. CASE Collected(t)
  <2>1. op[t].ref \in Refs /\ IsRef(op[t].ref) /\ Release(op[t].ref)
    BY <1>14, HolderHolds DEF Collected, Holding
  <2> QED
    BY <2>1, ReleasedNames
<1>15. CASE Free(t)
  BY <1>1, <1>15 DEF Free, Freed, NoNewNames, TypeOK, Objects
<1>16. CASE Closed(t)
  <2>1. obj' = [obj EXCEPT ![op[t].state].L2 = FALSE, ![op[t].state].loaded = FALSE,
                           ![op[t].state].closed = TRUE]
    BY <1>16 DEF Closed
  <2> QED
    BY <1>1, <2>1 DEF NoNewNames, TypeOK, Objects
<1>17. CASE CallRelock(t)
  BY <1>1, <1>17 DEF CallRelock, NoNewNames, TypeOK, Objects
<1>18. CASE Ended(t)
  <2> DEFINE s == op[t].state
  <2>1. PICK l \in BOOLEAN, d \in BOOLEAN :
          /\ l = (obj[s].L2 /\ ~(obj[s].owned = 0))
          /\ d = (obj[s].loaded /\ ~(obj[s].owned = 0))
    BY Zenon
  <2>2. obj' = [obj EXCEPT ![s].isBusy = FALSE, ![s].L2 = l, ![s].loaded = d] /\ ref' = ref
    BY <1>18, <2>1 DEF Ended
  <2>3. s \in States /\ obj[s].initialized
    BY <1>18, HolderHolds DEF Ended, Holding, Calling
  <2>4. Quiet
    BY <1>1, <2>2, <2>3, EndedChanged
  <2> QED
    BY <2>4 DEF Quiet, NoNewNames
<1>19. CASE Request(t)
  BY <1>3, <1>4, <1>5, <1>6, <1>7, <1>8, <1>9, <1>19 DEF Request
<1>20. CASE Step(t)
  BY <1>3, <1>10, <1>11, <1>12, <1>13, <1>14, <1>15, <1>16, <1>17, <1>18, <1>20 DEF Step
<1> QED
  BY <1>19, <1>20

LEMMA SingletonsStayUnique ==
  ASSUME IInv, SafeCollections, "new" \notin Modes, SingletonIsUnique, [Next]_vars
  PROVE  SingletonIsUnique'
<1>1. NoNewNames => SingletonIsUnique'
  BY DEF NoNewNames, SingletonIsUnique
<1>2. CASE UNCHANGED vars
  BY <1>1, <1>2 DEF vars, NoNewNames
<1>3. ASSUME NEW t \in Threads, NEW s \in States, Create(t, s) PROVE SingletonIsUnique'
  <2>1. \A u \in States : obj[u].listed /\ ~obj[u].closed => obj[u].name # op[t].want
    BY <1>3 DEF IInv, Places, Place, CreatorAgrees, Create
  <2>2. /\ \A u \in States \ {s} : obj'[u] = obj[u]
        /\ obj'[s].name = op[t].want
    BY <1>3 DEF IInv, TypeOK, Create, Unused
  <2> QED
    BY <2>1, <2>2 DEF SingletonIsUnique
<1> QED
  BY <1>1, <1>2, <1>3, OldNames DEF Next

(* mtstates.singleton() never makes a second state of a name that a state  *)
(* has which can be found, where newstate() is not used.                   *)
THEOREM SingletonsAreUnique ==
  ASSUME SafeCollections, "new" \notin Modes
  PROVE  Spec => []SingletonIsUnique
<1>1. Init => SingletonIsUnique
  BY DEF Init, Unused, SingletonIsUnique
<1> QED
  BY <1>1, AlwaysIInv, SingletonsStayUnique, PTL DEF Spec

-----------------------------------------------------------------------------
(* Notifications.  singleton() sleeps among the callers of a state and     *)
(* does not pass a notification on, which is right only where it sleeps    *)
(* alone: the state has one reference, and native code has no other way    *)
(* to it.                                                                  *)

FinderSleeps == {"waiting", "relock"}
CallerSleeps == {"callwait", "callrelock"}
Running == {"calling", "ending"}

BusyHasRunner ==
  \A s \in States : obj[s].isBusy /\ obj[s].initialized =>
    \E t \in Threads : pc[t] \in Running /\ op[t].state = s

FinderIsAlone ==
  \A t \in Threads : pc[t] \in FinderSleeps =>
    /\ obj[op[t].state].used = 1
    /\ \A u \in Threads : pc[u] \in CallerSleeps => op[u].state # op[t].state

WakeInv == BusyHasRunner /\ FinderIsAlone /\ NoLostWakeup

(* A step of a thread that does not sleep in a condition variable nor runs *)
(* in a state, before it and after it.                                     *)
Calm(t) ==
  /\ \A u \in Threads \ {t} : pc'[u] = pc[u] /\ op'[u] = op[u]
  /\ {pc[t], pc'[t]} \cap (FinderSleeps \cup CallerSleeps \cup Running) = {}
  /\ \A s \in States : /\ ~obj'[s].isBusy => ~obj[s].isBusy
                       /\ obj'[s].isBusy /\ obj'[s].initialized =>
                            obj[s].isBusy /\ obj[s].initialized
  /\ \A u \in Threads : pc[u] \in FinderSleeps =>
       obj'[op[u].state].used = obj[op[u].state].used

LEMMA CalmKeeps ==
  ASSUME WakeInv, NEW t \in Threads, Calm(t)
  PROVE  WakeInv'
<1>1. /\ \A u \in Threads \ {t} : pc'[u] = pc[u] /\ op'[u] = op[u]
      /\ pc[t] \notin FinderSleeps \cup CallerSleeps \cup Running
      /\ pc'[t] \notin FinderSleeps \cup CallerSleeps \cup Running
      /\ \A s \in States : /\ ~obj'[s].isBusy => ~obj[s].isBusy
                           /\ obj'[s].isBusy /\ obj'[s].initialized =>
                                obj[s].isBusy /\ obj[s].initialized
      /\ \A u \in Threads : pc[u] \in FinderSleeps =>
           obj'[op[u].state].used = obj[op[u].state].used
  BY DEF Calm
<1>2. BusyHasRunner'
  BY <1>1 DEF WakeInv, BusyHasRunner
<1>3. FinderIsAlone'
  BY <1>1 DEF WakeInv, FinderIsAlone
<1>4. NoLostWakeup'
  <2> SUFFICES ASSUME NEW s \in States, NEW w \in Waiting(s)', ~obj'[s].isBusy
               PROVE  \E u \in Threads : op'[u].state = s /\ pc'[u] \in {"relock", "callrelock"}
    BY DEF NoLostWakeup
  <2>1. w \in Waiting(s)
    BY <1>1 DEF Waiting, FinderSleeps, CallerSleeps
  <2>2. PICK u \in Threads : op[u].state = s /\ pc[u] \in {"relock", "callrelock"}
    BY <1>1, <2>1 DEF WakeInv, NoLostWakeup
  <2>3. u # t
    BY <1>1, <2>2 DEF FinderSleeps, CallerSleeps
  <2> QED
    BY <1>1, <2>2, <2>3
<1> QED
  BY <1>2, <1>3, <1>4 DEF WakeInv

(* Nobody sleeps in singleton() when another thread has the global lock or *)
(* can get it.                                                             *)
LEMMA NoFinder ==
  ASSUME IInv, NEW t \in Threads, GlobalFree(t), NEW u \in Threads \ {t}
  PROVE  pc[u] \notin FinderSleeps
<1>1. pc[u] \in HasFound => globalLock = u
  BY DEF IInv, Places, Place, FinderAgrees
<1> QED
  BY <1>1, Nones DEF GlobalFree, HasFound, FinderSleeps

(* What singleton() waits for is referred to by an owner alone. *)
LEMMA FinderSeesOwner ==
  ASSUME IInv, FinderIsAlone, NEW u \in Threads, pc[u] \in FinderSleeps,
         NEW r \in Refs, IsRef(r), ref[r].state = op[u].state
  PROVE  IsOwner(r)
<1>1. op[u].state \in States /\ obj[op[u].state].owned > 0 /\ obj[op[u].state].used = 1
  BY DEF IInv, Places, Place, FinderAgrees, HasFound, FinderIsAlone, FinderSleeps
<1>2. PICK s \in States : s = op[u].state
  BY <1>1
<1>3. PICK q \in OwnersOf(s) : TRUE
  BY <1>1, <1>2, FS_EmptySet DEF IInv, ObjectsAgree, Counts
<1>4. q \in RefsOf(s) /\ IsOwner(q) /\ r \in RefsOf(s)
  BY <1>2, <1>3 DEF OwnersOf, RefsOf
<1> QED
  BY <1>1, <1>2, <1>4, OnlyReference

Sleepless == {"run", "lookup", "examine", "makeref", "failed", "create", "setup", "require",
              "release", "free", "closing"}

LEMMA CalmStep ==
  ASSUME IInv, NEW t \in Threads, pc[t] \in Sleepless, pc'[t] \in Sleepless,
         \A u \in Threads \ {t} : pc'[u] = pc[u] /\ op'[u] = op[u],
         \A s \in States : obj'[s].isBusy = obj[s].isBusy
                           /\ obj'[s].initialized = obj[s].initialized,
         GlobalFree(t) \/ (\A s \in States : obj'[s].used = obj[s].used)
  PROVE  Calm(t)
<1>1. \A u \in Threads : pc[u] \in FinderSleeps =>
        obj'[op[u].state].used = obj[op[u].state].used
  <2> SUFFICES ASSUME NEW u \in Threads, pc[u] \in FinderSleeps
               PROVE  obj'[op[u].state].used = obj[op[u].state].used
    OBVIOUS
  <2>1. u # t
    BY DEF Sleepless, FinderSleeps
  <2>2. op[u].state \in States
    BY WorkedOnIsLive DEF FinderSleeps, HasFound
  <2> QED
    BY <2>1, <2>2, NoFinder
<1> QED
  BY <1>1 DEF Calm, Sleepless, FinderSleeps, CallerSleeps, Running

LEMMA CalmRequests ==
  ASSUME IInv, WakeInv, SafeCollections, NEW t \in Threads,
         \/ \E m \in Modes, w \in Names \cup States \cup {NoName}, r \in Refs : Start(t, m, w, r)
         \/ \E r \in Refs : Collect(t, r) \/ Close(t, r)
         \/ Require(t) \/ Lookup(t) \/ CreateFails(t) \/ MakeRefFails(t) \/ FindFailed(t)
  PROVE  Calm(t)
<1>1. TypeOK
  BY DEF IInv
<1>2. obj' = obj
  BY DEF Start, Collect, Close, Require, Lookup, CreateFails, MakeRefFails, FindFailed
<1>3. \A u \in Threads \ {t} : pc'[u] = pc[u] /\ op'[u] = op[u]
  <2>1. CASE Lookup(t)
    BY <1>1, <2>1, Finished DEF Lookup, Goto, TypeOK
  <2>2. CASE \/ \E m \in Modes, w \in Names \cup States \cup {NoName}, r \in Refs :
                  Start(t, m, w, r)
             \/ \E r \in Refs : Collect(t, r) \/ Close(t, r)
             \/ Require(t) \/ CreateFails(t) \/ MakeRefFails(t) \/ FindFailed(t)
    BY <1>1, <2>2, Finished DEF Start, Collect, Close, Require, CreateFails, MakeRefFails,
                                FindFailed, Use, Goto, TypeOK
  <2> QED
    BY <2>1, <2>2
<1>4. pc[t] \in Sleepless
  BY DEF Start, Collect, Close, Require, Lookup, CreateFails, MakeRefFails, FindFailed, Sleepless
<1>5. pc'[t] \in Sleepless
  <2>1. CASE Lookup(t)
    BY <1>1, <2>1, Finished DEF Lookup, Goto, TypeOK, Sleepless
  <2>2. CASE \/ \E m \in Modes, w \in Names \cup States \cup {NoName}, r \in Refs :
                  Start(t, m, w, r)
             \/ \E r \in Refs : Collect(t, r) \/ Close(t, r)
             \/ Require(t) \/ CreateFails(t) \/ MakeRefFails(t) \/ FindFailed(t)
    BY <1>1, <2>2, Finished
       DEF Start, Collect, Close, Require, CreateFails, MakeRefFails, FindFailed, Use, Goto,
           TypeOK, Sleepless
  <2> QED
    BY <2>1, <2>2
<1> QED
  BY <1>2, <1>3, <1>4, <1>5, CalmStep

LEMMA CalmReleases ==
  ASSUME IInv, SafeCollections, NEW t \in Threads,
         (\E r \in Refs : CollectInFind(t, r)) \/ Collected(t)
  PROVE  Calm(t)
<1>1. TypeOK /\ Place(t)
  BY DEF IInv, Places
<1>2. PICK r \in Refs : IsRef(r) /\ Release(r)
  BY HolderHolds DEF CollectInFind, Collected, Holding
<1>3. PICK s \in States : s = ref[r].state
  BY <1>2, ReferredIsCounted
<1>4. \A u \in States : obj'[u].isBusy = obj[u].isBusy
                        /\ obj'[u].initialized = obj[u].initialized
  BY <1>2, <1>3, ReleaseGone DEF Gone
<1>5. globalLock = t
  BY <1>1, HolderHolds DEF CollectInFind, Collected, Holding, Place, FinderAgrees, HasFound
<1>6. /\ \A u \in Threads \ {t} : pc'[u] = pc[u] /\ op'[u] = op[u]
      /\ pc[t] \in Sleepless /\ pc'[t] \in Sleepless
  BY <1>1, Finished DEF CollectInFind, Collected, Sleepless
<1> QED
  BY <1>4, <1>5, <1>6, CalmStep DEF GlobalFree

LEMMA CalmReleaseNative ==
  ASSUME IInv, WakeInv, NEW t \in Threads, NEW n \in Refs, ReleaseNative(t, n)
  PROVE  Calm(t)
<1>1. /\ TypeOK /\ pc[t] = "run" /\ IsRef(n) /\ ref[n].kind = "native"
  BY DEF IInv, ReleaseNative, Usable
<1>2. PICK s \in States : s = ref[n].state
  BY <1>1, ReferredIsCounted
<1>3. /\ obj' = [obj EXCEPT ![s].used = @ - 1]
      /\ IF obj[s].used = 1 THEN Goto(t, "free") /\ op' = [op EXCEPT ![t].state = s]
         ELSE pc' = pc /\ op' = op
  BY <1>2 DEF ReleaseNative, NativeFrees
<1>4. /\ \A u \in Threads \ {t} : pc'[u] = pc[u] /\ op'[u] = op[u]
      /\ pc'[t] \in {"run", "free"}
  BY <1>1, <1>3 DEF Goto, TypeOK
<1>5. /\ \A u \in States : obj'[u].isBusy = obj[u].isBusy
                           /\ obj'[u].initialized = obj[u].initialized
      /\ \A u \in States \ {s} : obj'[u] = obj[u]
  BY <1>1, <1>3 DEF TypeOK, Objects
<1>6. ASSUME NEW u \in Threads, pc[u] \in FinderSleeps
      PROVE  obj'[op[u].state].used = obj[op[u].state].used
  <2>1. op[u].state \in States
    BY <1>6, WorkedOnIsLive DEF FinderSleeps, HasFound
  <2>2. op[u].state # s
    BY <1>1, <1>2, <1>6, FinderSeesOwner DEF WakeInv, IsOwner
  <2> QED
    BY <1>5, <2>1, <2>2
<1> QED
  BY <1>1, <1>4, <1>5, <1>6 DEF Calm, FinderSleeps, CallerSleeps, Running

LEMMA CalmSetups ==
  ASSUME IInv, NEW t \in Threads,
         SetupFails(t) \/ Required(t) \/ Closed(t) \/ Free(t)
  PROVE  Calm(t)
<1>1. TypeOK
  BY DEF IInv
<1>2. CASE SetupFails(t)
  <2>1. /\ obj' = [obj EXCEPT ![op[t].state].loaded = FALSE] /\ pc[t] = "setup" /\ Finish(t)
    BY <1>2 DEF SetupFails
  <2>2. \A s \in States : /\ obj'[s].isBusy = obj[s].isBusy
                          /\ obj'[s].initialized = obj[s].initialized
                          /\ obj'[s].used = obj[s].used
    BY <1>1, <2>1 DEF TypeOK, Objects
  <2> QED
    BY <1>1, <2>1, <2>2, Finished, CalmStep DEF Sleepless
<1>3. CASE Required(t)
  <2>1. /\ obj' = [obj EXCEPT ![op[t].state].loaded = TRUE] /\ pc[t] = "require"
        /\ pc'[t] = "setup" /\ \A u \in Threads \ {t} : pc'[u] = pc[u] /\ op'[u] = op[u]
    BY <1>1, <1>3 DEF Required, Goto, TypeOK
  <2>2. \A s \in States : /\ obj'[s].isBusy = obj[s].isBusy
                          /\ obj'[s].initialized = obj[s].initialized
                          /\ obj'[s].used = obj[s].used
    BY <1>1, <2>1 DEF TypeOK, Objects
  <2> QED
    BY <1>1, <2>1, <2>2, CalmStep DEF Sleepless
<1>4. CASE Closed(t)
  <2>1. /\ obj' = [obj EXCEPT ![op[t].state].L2 = FALSE, ![op[t].state].loaded = FALSE,
                              ![op[t].state].closed = TRUE]
        /\ pc[t] = "closing" /\ Finish(t)
    BY <1>4 DEF Closed
  <2>2. \A s \in States : /\ obj'[s].isBusy = obj[s].isBusy
                          /\ obj'[s].initialized = obj[s].initialized
                          /\ obj'[s].used = obj[s].used
    BY <1>1, <2>1 DEF TypeOK, Objects
  <2> QED
    BY <1>1, <2>1, <2>2, Finished, CalmStep DEF Sleepless
<1>5. CASE Free(t)
  <2>1. /\ obj' = [obj EXCEPT ![op[t].state] = Freed(@)] /\ pc[t] = "free" /\ Finish(t)
        /\ GlobalFree(t)
    BY <1>5 DEF Free
  <2>2. \A s \in States : /\ obj'[s].isBusy = obj[s].isBusy
                          /\ obj'[s].initialized = obj[s].initialized
    BY <1>1, <2>1, FreedObject DEF TypeOK
  <2> QED
    BY <1>1, <2>1, <2>2, Finished, CalmStep DEF Sleepless
<1> QED
  BY <1>2, <1>3, <1>4, <1>5

LEMMA CalmMakers ==
  ASSUME IInv, NEW t \in Threads, MakeRef(t) \/ (\E s \in States : Create(t, s))
  PROVE  Calm(t)
<1>1. TypeOK /\ Place(t)
  BY DEF IInv, Places
<1>2. CASE MakeRef(t)
  <2>1. pc[t] = "makeref" /\ Finish(t)
    BY <1>2 DEF MakeRef
  <2>2. PICK s \in States : s = op[t].state
    BY <2>1, WorkedOnIsLive DEF HasFound
  <2>3. obj'[s] = Counted(obj[s], op[t].mode = "singleton")
        /\ \A u \in States \ {s} : obj'[u] = obj[u]
    BY <1>1, <1>2, <2>2 DEF MakeRef, TypeOK
  <2>4. PICK b \in BOOLEAN : b = (op[t].mode = "singleton")
    OBVIOUS
  <2>5. CountedAs(obj[s], obj'[s], b)
    BY <1>1, <2>3, <2>4, CountedObject, FieldsAreTyped
  <2>6. \A u \in States : obj'[u].isBusy = obj[u].isBusy
                          /\ obj'[u].initialized = obj[u].initialized
    BY <2>3, <2>5 DEF CountedAs
  <2>7. globalLock = t
    BY <1>1, <2>1 DEF Place, FinderAgrees, HasFound
  <2> QED
    BY <1>1, <2>1, <2>6, <2>7, Finished, CalmStep DEF Sleepless, GlobalFree
<1>3. ASSUME NEW s \in States, Create(t, s) PROVE Calm(t)
  <2>1. /\ pc[t] = "create" /\ GlobalFree(t)
        /\ \E listed \in BOOLEAN :
             IF listed
             THEN Goto(t, "setup") /\ op' = [op EXCEPT ![t].state = s]
             ELSE Finish(t)
    BY <1>3 DEF Create
  <2>2. /\ \A u \in Threads \ {t} : pc'[u] = pc[u] /\ op'[u] = op[u]
        /\ pc'[t] \in {"setup", "run"}
    BY <1>1, <2>1, Finished DEF Goto, TypeOK
  <2>3. /\ \A u \in States \ {s} : obj'[u] = obj[u]
        /\ obj'[s].isBusy /\ ~obj'[s].initialized
    <3>1. PICK listed \in BOOLEAN :
            obj' = [obj EXCEPT ![s] =
                     [Unused EXCEPT !.alloc = "live", !.listed = listed,
                                    !.name = op[t].want, !.isBusy = TRUE,
                                    !.used = 1, !.owned = 1]]
      BY <1>3 DEF Create
    <3> QED
      BY <1>1, <3>1 DEF Unused, TypeOK
  <2>4. \A u \in Threads \ {t} : pc[u] \notin FinderSleeps
    BY <2>1, NoFinder
  <2>5. \A u \in States : /\ ~obj'[u].isBusy => ~obj[u].isBusy
                          /\ obj'[u].isBusy /\ obj'[u].initialized =>
                               obj[u].isBusy /\ obj[u].initialized
    BY <2>3
  <2>6. \A u \in Threads : pc[u] \notin FinderSleeps
    BY <2>1, <2>4 DEF FinderSleeps
  <2>7. {pc[t], pc'[t]} \cap (FinderSleeps \cup CallerSleeps \cup Running) = {}
    BY <2>1, <2>2 DEF FinderSleeps, CallerSleeps, Running
  <2> QED
    BY <2>2, <2>5, <2>6, <2>7 DEF Calm
<1> QED
  BY <1>2, <1>3

(* A finder sleeps while the state is set up, when its creator alone has a *)
(* reference and nobody calls it, and what it finds ready is its own.      *)
LEMMA FoundWakes ==
  ASSUME IInv, WakeInv, NEW t \in Threads, Examine(t) \/ Relock(t)
  PROVE  WakeInv'
<1>1. TypeOK /\ Place(t) /\ pc[t] \in {"examine", "relock"}
  BY DEF IInv, Places, Examine, Relock
<1>2. op[t].state \in States /\ obj[op[t].state].alloc = "live" /\ globalLock = t
  BY <1>1, WorkedOnIsLive DEF HasFound, Place, FinderAgrees
<1>3. PICK s \in States : s = op[t].state
  BY <1>2
<1>4. obj[s].initialized \/ (obj[s].isBusy /\ obj[s].used = 1)
  BY <1>2, <1>3 DEF IInv, ObjectsAgree, SetupIsUnfinished
<1>5. /\ obj' = obj /\ op' = op
      /\ \/ Goto(t, "waiting") /\ obj[s].isBusy /\ (pc[t] = "relock" \/ ~obj[s].initialized)
         \/ Goto(t, "makeref")
  BY <1>3, <1>4 DEF Examine, Relock, Ready, Await, Sleep, Take
<1>6. /\ \A u \in Threads \ {t} : pc'[u] = pc[u]
      /\ \/ pc'[t] = "waiting" /\ obj[s].isBusy /\ (pc[t] = "relock" \/ ~obj[s].initialized)
         \/ pc'[t] = "makeref"
  BY <1>1, <1>5 DEF Goto, TypeOK
<1>7. \A u \in Threads \ {t} : pc[u] \notin FinderSleeps
  BY <1>2, NoFinder DEF GlobalFree
<1>8. BusyHasRunner'
  BY <1>1, <1>5, <1>6 DEF WakeInv, BusyHasRunner, Running
<1>9. FinderIsAlone'
  <2> SUFFICES ASSUME pc'[t] = "waiting"
               PROVE  /\ obj[s].used = 1
                      /\ \A u \in Threads : pc'[u] \in CallerSleeps => op[u].state # s
    BY <1>3, <1>5, <1>6, <1>7 DEF FinderIsAlone, FinderSleeps
  <2>1. CASE pc[t] = "relock"
    BY <1>3, <1>6, <2>1 DEF WakeInv, FinderIsAlone, FinderSleeps, CallerSleeps
  <2>2. CASE ~obj[s].initialized
    <3>1. \A u \in Threads : pc[u] \in CallerSleeps => obj[op[u].state].initialized
      BY HolderHolds DEF CallerSleeps, Calling, Holding
    <3> QED
      BY <1>4, <1>6, <2>2, <3>1 DEF CallerSleeps
  <2> QED
    BY <1>6, <2>1, <2>2
<1>10. NoLostWakeup'
  <2> SUFFICES ASSUME NEW x \in States, NEW w \in Waiting(x)', ~obj[x].isBusy
               PROVE  \E u \in Threads : op[u].state = x /\ pc'[u] \in {"relock", "callrelock"}
    BY <1>5 DEF NoLostWakeup
  <2>1. w # t
    BY <1>3, <1>5, <1>6 DEF Waiting
  <2>2. w \in Waiting(x) /\ pc[w] = "callwait" /\ op[w].state = x
    BY <1>5, <1>6, <1>7, <2>1 DEF Waiting, FinderSleeps
  <2>3. PICK u \in Threads : op[u].state = x /\ pc[u] \in {"relock", "callrelock"}
    BY <2>2 DEF WakeInv, NoLostWakeup
  <2>4. u # t
    BY <1>1, <2>2, <2>3 DEF Waiting, WakeInv, FinderIsAlone, FinderSleeps, CallerSleeps
  <2> QED
    BY <1>6, <2>3, <2>4
<1> QED
  BY <1>8, <1>9, <1>10 DEF WakeInv

(* Who calls a state that a finder waits for is the only one with a        *)
(* reference to it, so nobody runs in it.                                  *)
LEMMA CallWakes ==
  ASSUME IInv, WakeInv, NEW t \in Threads, NEW r \in Refs, Call(t, r)
  PROVE  WakeInv'
<1>1. /\ TypeOK /\ pc[t] = "run" /\ IsRef(r) /\ ref[r].holder = t
      /\ ref[r].state \in States /\ obj[ref[r].state].alloc = "live"
      /\ obj[ref[r].state].L2
  BY ReferredIsCounted DEF IInv, Call, Usable
<1>2. PICK s \in States : s = ref[r].state
  BY <1>1
<1>3. obj[s].initialized /\ r \in RefsOf(s)
  BY <1>1, <1>2 DEF IInv, ObjectsAgree, SetupIsUnfinished, RefsOf
<1>4. PICK p \in {"callwait", "calling"} :
        /\ p = IF obj[s].isBusy THEN "callwait" ELSE "calling"
        /\ Goto(t, p) /\ op' = [op EXCEPT ![t].state = s, ![t].ref = r]
        /\ obj' = [obj EXCEPT ![s].isBusy = TRUE]
  BY <1>2 DEF Call, Use
<1>5. /\ pc'[t] = p /\ op'[t].state = s
      /\ \A u \in Threads \ {t} : op'[u] = op[u] /\ pc'[u] = pc[u]
  BY <1>1, <1>4, Used DEF PCs
<1>6. /\ \A u \in States \ {s} : obj'[u] = obj[u]
      /\ obj'[s].isBusy /\ \A u \in States : obj'[u].used = obj[u].used
  BY <1>1, <1>4 DEF TypeOK, Objects
<1>7. BusyHasRunner'
  <2> SUFFICES ASSUME NEW x \in States, obj'[x].isBusy, obj'[x].initialized
               PROVE  \E u \in Threads : pc'[u] \in Running /\ op'[u].state = x
    BY DEF BusyHasRunner
  <2>1. CASE x = s /\ ~obj[s].isBusy
    BY <1>4, <1>5, <2>1 DEF Running
  <2>2. CASE x # s \/ obj[s].isBusy
    <3>1. PICK u \in Threads : pc[u] \in Running /\ op[u].state = x
      BY <1>3, <1>6, <2>2 DEF WakeInv, BusyHasRunner
    <3> QED
      BY <1>1, <1>5, <3>1 DEF Running
  <2> QED
    BY <2>1, <2>2
<1>8. FinderIsAlone'
  <2> SUFFICES ASSUME NEW f \in Threads, pc'[f] \in FinderSleeps
               PROVE  /\ obj'[op'[f].state].used = 1
                      /\ \A u \in Threads : pc'[u] \in CallerSleeps => op'[u].state # op'[f].state
    BY DEF FinderIsAlone
  <2>1. f # t /\ pc[f] \in FinderSleeps /\ op'[f] = op[f]
    BY <1>4, <1>5 DEF FinderSleeps
  <2>2. op[f].state \in States
    BY <2>1, WorkedOnIsLive DEF FinderSleeps, HasFound
  <2>3. /\ obj[op[f].state].used = 1
        /\ \A u \in Threads : pc[u] \in CallerSleeps => op[u].state # op[f].state
    BY <2>1 DEF WakeInv, FinderIsAlone
  <2>4. ~ (op[f].state = s /\ obj[s].isBusy)
    <3> SUFFICES ASSUME op[f].state = s, obj[s].isBusy PROVE FALSE
      OBVIOUS
    <3>1. PICK v \in Threads : pc[v] \in Running /\ op[v].state = s
      BY <1>3 DEF WakeInv, BusyHasRunner
    <3>2. op[v].ref \in RefsOf(s) /\ ref[op[v].ref].holder = v
      BY <3>1, HolderHolds DEF Running, Calling, Holding, RefsOf
    <3>3. op[v].ref = r
      BY <1>3, <2>3, <3>2, OnlyReference
    <3> QED
      BY <1>1, <3>1, <3>2, <3>3 DEF Running
  <2>5. ASSUME NEW u \in Threads, pc'[u] \in CallerSleeps
        PROVE  op'[u].state # op[f].state
    <3>1. CASE u = t
      BY <1>4, <1>5, <2>4, <2>5, <3>1 DEF CallerSleeps
    <3>2. CASE u # t
      BY <1>5, <2>3, <2>5, <3>2
    <3> QED
      BY <3>1, <3>2
  <2>6. obj'[op[f].state].used = 1
    BY <1>6, <2>2, <2>3
  <2> QED
    BY <2>1, <2>5, <2>6
<1>9. NoLostWakeup'
  <2> SUFFICES ASSUME NEW x \in States, NEW w \in Waiting(x)', ~obj'[x].isBusy
               PROVE  \E u \in Threads : op'[u].state = x /\ pc'[u] \in {"relock", "callrelock"}
    BY DEF NoLostWakeup
  <2>1. x # s /\ w # t
    BY <1>5, <1>6 DEF Waiting
  <2>2. w \in Waiting(x) /\ ~obj[x].isBusy
    BY <1>5, <1>6, <2>1 DEF Waiting
  <2>3. PICK u \in Threads : op[u].state = x /\ pc[u] \in {"relock", "callrelock"}
    BY <2>2 DEF WakeInv, NoLostWakeup
  <2> QED
    BY <1>1, <1>5, <2>3
<1> QED
  BY <1>7, <1>8, <1>9 DEF WakeInv

LEMMA CallRelockWakes ==
  ASSUME IInv, WakeInv, NEW t \in Threads, CallRelock(t)
  PROVE  WakeInv'
<1>1. TypeOK /\ pc[t] = "callrelock" /\ op[t].state \in States
  BY HolderHolds DEF IInv, CallRelock, Calling, Holding
<1>2. PICK s \in States : s = op[t].state
  BY <1>1
<1>3. /\ \A u \in Threads \ {t} : pc'[u] = pc[u]
      /\ pc'[t] = IF obj[s].isBusy THEN "callwait" ELSE "calling"
      /\ op' = op /\ obj' = [obj EXCEPT ![s].isBusy = TRUE]
  BY <1>1, <1>2 DEF CallRelock, Goto, TypeOK
<1>4. /\ \A u \in States \ {s} : obj'[u] = obj[u]
      /\ obj'[s].isBusy /\ obj'[s].initialized = obj[s].initialized
      /\ \A u \in States : obj'[u].used = obj[u].used
  BY <1>1, <1>3 DEF TypeOK, Objects
<1>5. BusyHasRunner'
  <2> SUFFICES ASSUME NEW x \in States, obj'[x].isBusy, obj'[x].initialized
               PROVE  \E u \in Threads : pc'[u] \in Running /\ op[u].state = x
    BY <1>3 DEF BusyHasRunner
  <2>1. CASE x = s /\ ~obj[s].isBusy
    BY <1>2, <1>3, <2>1 DEF Running
  <2>2. CASE x # s \/ obj[s].isBusy
    <3>1. PICK u \in Threads : pc[u] \in Running /\ op[u].state = x
      BY <1>4, <2>2 DEF WakeInv, BusyHasRunner
    <3> QED
      BY <1>1, <1>3, <3>1 DEF Running
  <2> QED
    BY <2>1, <2>2
<1>6. FinderIsAlone'
  <2> SUFFICES ASSUME NEW f \in Threads, pc'[f] \in FinderSleeps
               PROVE  /\ obj'[op[f].state].used = 1
                      /\ \A u \in Threads : pc'[u] \in CallerSleeps => op[u].state # op[f].state
    BY <1>3 DEF FinderIsAlone
  <2>1. pc[f] \in FinderSleeps
    BY <1>3 DEF FinderSleeps
  <2>2. op[f].state \in States
    BY <2>1, WorkedOnIsLive DEF FinderSleeps, HasFound
  <2>3. \A u \in Threads : pc'[u] \in CallerSleeps => pc[u] \in CallerSleeps
    BY <1>1, <1>3 DEF CallerSleeps
  <2> QED
    BY <1>4, <2>1, <2>2, <2>3 DEF WakeInv, FinderIsAlone
<1>7. NoLostWakeup'
  <2> SUFFICES ASSUME NEW x \in States, NEW w \in Waiting(x)', ~obj'[x].isBusy
               PROVE  \E u \in Threads : op[u].state = x /\ pc'[u] \in {"relock", "callrelock"}
    BY <1>3 DEF NoLostWakeup
  <2>1. x # s /\ w # t
    BY <1>2, <1>3, <1>4 DEF Waiting
  <2>2. w \in Waiting(x) /\ ~obj[x].isBusy
    BY <1>3, <1>4, <2>1 DEF Waiting
  <2>3. PICK u \in Threads : op[u].state = x /\ pc[u] \in {"relock", "callrelock"}
    BY <2>2 DEF WakeInv, NoLostWakeup
  <2> QED
    BY <1>2, <1>3, <2>1, <2>3
<1> QED
  BY <1>5, <1>6, <1>7 DEF WakeInv

LEMMA EndCallWakes ==
  ASSUME IInv, WakeInv, NEW t \in Threads, EndCall(t)
  PROVE  WakeInv'
<1>1. /\ pc[t] = "calling" /\ pc'[t] = "ending" /\ op' = op /\ obj' = obj
      /\ \A u \in Threads \ {t} : pc'[u] = pc[u]
  BY DEF EndCall, Goto, IInv, TypeOK
<1>2. \A u \in Threads : /\ pc'[u] \in Running <=> pc[u] \in Running
                         /\ pc'[u] \in FinderSleeps <=> pc[u] \in FinderSleeps
                         /\ pc'[u] \in CallerSleeps <=> pc[u] \in CallerSleeps
  BY <1>1 DEF Running, FinderSleeps, CallerSleeps
<1>3. BusyHasRunner' /\ FinderIsAlone'
  BY <1>1, <1>2 DEF WakeInv, BusyHasRunner, FinderIsAlone
<1>4. NoLostWakeup'
  BY <1>1 DEF WakeInv, NoLostWakeup, Waiting
<1> QED
  BY <1>3, <1>4 DEF WakeInv

LEMMA SpuriousWakes ==
  ASSUME IInv, WakeInv, NEW t \in Threads, SpuriousWakeup(t)
  PROVE  WakeInv'
<1>1. /\ op' = op /\ obj' = obj /\ \A u \in Threads \ {t} : pc'[u] = pc[u]
      /\ \/ pc[t] = "waiting" /\ pc'[t] = "relock"
         \/ pc[t] = "callwait" /\ pc'[t] = "callrelock"
  BY DEF SpuriousWakeup, Goto, Awake, IInv, TypeOK
<1>2. \A u \in Threads : /\ pc'[u] \in Running <=> pc[u] \in Running
                         /\ pc'[u] \in FinderSleeps <=> pc[u] \in FinderSleeps
                         /\ pc'[u] \in CallerSleeps <=> pc[u] \in CallerSleeps
  BY <1>1 DEF Running, FinderSleeps, CallerSleeps
<1>3. BusyHasRunner' /\ FinderIsAlone'
  BY <1>1, <1>2 DEF WakeInv, BusyHasRunner, FinderIsAlone
<1>4. NoLostWakeup'
  <2> SUFFICES ASSUME NEW x \in States, NEW w \in Waiting(x)', ~obj[x].isBusy
               PROVE  \E u \in Threads : op[u].state = x /\ pc'[u] \in {"relock", "callrelock"}
    BY <1>1 DEF NoLostWakeup
  <2>1. w \in Waiting(x)
    BY <1>1 DEF Waiting
  <2>2. PICK u \in Threads : op[u].state = x /\ pc[u] \in {"relock", "callrelock"}
    BY <2>1 DEF WakeInv, NoLostWakeup
  <2> QED
    BY <1>1, <2>2
<1> QED
  BY <1>3, <1>4 DEF WakeInv

(* Setups and calls end with a notification, which reaches one of those    *)
(* who sleep, whoever that is.                                             *)
LEMMA NotificationWakes ==
  ASSUME IInv, WakeInv, NEW t \in Threads, Initialize(t) \/ Ended(t)
  PROVE  WakeInv'
<1>1. TypeOK /\ pc[t] \in {"setup", "ending"} /\ op[t].state \in States
  BY HolderHolds DEF IInv, Initialize, Ended, Calling, Holding
<1>2. PICK s \in States : s = op[t].state
  BY <1>1
<1>3. Notify(t, s, "run") /\ op' = [op EXCEPT ![t] = NoOp]
  BY <1>2 DEF Initialize, Ended
<1>4. /\ \A u \in States \ {s} : obj'[u] = obj[u]
      /\ ~obj'[s].isBusy /\ \A u \in States : obj'[u].used = obj[u].used
  <2>1. CASE Initialize(t)
    BY <1>1, <1>2, <2>1 DEF Initialize, TypeOK, Objects
  <2>2. CASE Ended(t)
    <3>1. PICK l \in BOOLEAN, d \in BOOLEAN :
            obj' = [obj EXCEPT ![s].isBusy = FALSE, ![s].L2 = l, ![s].loaded = d]
      <4>1. /\ (obj[s].L2 /\ ~(obj[s].owned = 0)) \in BOOLEAN
            /\ (obj[s].loaded /\ ~(obj[s].owned = 0)) \in BOOLEAN
        BY Zenon
      <4> QED
        BY <1>2, <2>2, <4>1 DEF Ended
    <3> QED
      BY <1>1, <3>1 DEF TypeOK, Objects
  <2> QED
    BY <2>1, <2>2
<1>5. /\ pc'[t] = "run" /\ \A u \in Threads \ {t} : op'[u] = op[u]
      /\ \A u \in Threads \ {t} :
           \/ pc'[u] = pc[u]
           \/ pc[u] = "waiting" /\ pc'[u] = "relock"
           \/ pc[u] = "callwait" /\ pc'[u] = "callrelock"
  BY <1>1, <1>3, Notified DEF PCs, TypeOK
<1>6. \A u \in Threads \ {t} : /\ pc'[u] \in Running <=> pc[u] \in Running
                               /\ pc'[u] \in FinderSleeps <=> pc[u] \in FinderSleeps
                               /\ pc'[u] \in CallerSleeps <=> pc[u] \in CallerSleeps
  BY <1>5 DEF Running, FinderSleeps, CallerSleeps
<1>7. pc'[t] \notin Running \cup FinderSleeps \cup CallerSleeps
  BY <1>5 DEF Running, FinderSleeps, CallerSleeps
<1>8. BusyHasRunner'
  <2> SUFFICES ASSUME NEW x \in States, obj'[x].isBusy, obj'[x].initialized
               PROVE  \E u \in Threads : pc'[u] \in Running /\ op'[u].state = x
    BY DEF BusyHasRunner
  <2>1. x # s /\ obj[x].isBusy /\ obj[x].initialized
    BY <1>4
  <2>2. PICK u \in Threads : pc[u] \in Running /\ op[u].state = x
    BY <2>1 DEF WakeInv, BusyHasRunner
  <2> QED
    BY <1>2, <1>5, <1>6, <2>1, <2>2
<1>9. FinderIsAlone'
  <2> SUFFICES ASSUME NEW f \in Threads, pc'[f] \in FinderSleeps
               PROVE  /\ obj'[op'[f].state].used = 1
                      /\ \A u \in Threads : pc'[u] \in CallerSleeps => op'[u].state # op'[f].state
    BY DEF FinderIsAlone
  <2>1. f # t /\ pc[f] \in FinderSleeps /\ op'[f] = op[f]
    BY <1>5, <1>6, <1>7
  <2>2. op[f].state \in States
    BY <2>1, WorkedOnIsLive DEF FinderSleeps, HasFound
  <2> QED
    BY <1>4, <1>5, <1>6, <1>7, <2>1, <2>2 DEF WakeInv, FinderIsAlone
<1>10. NoLostWakeup'
  <2> SUFFICES ASSUME NEW x \in States, NEW w \in Waiting(x)', ~obj'[x].isBusy
               PROVE  \E u \in Threads : op'[u].state = x /\ pc'[u] \in {"relock", "callrelock"}
    BY DEF NoLostWakeup
  <2>1. w # t /\ w \in Waiting(x)
    BY <1>5 DEF Waiting
  <2>2. CASE x = s
    <3>1. PICK v \in Waiting(s) : pc' = [pc EXCEPT ![t] = "run", ![v] = Awake(v)]
      BY <1>3, <2>1, <2>2 DEF Notify
    <3>2. v # t /\ op[v].state = s
      BY <1>1, <3>1 DEF Waiting
    <3> QED
      BY <1>1, <1>5, <2>2, <3>1, <3>2 DEF TypeOK, Awake, Waiting
  <2>3. CASE x # s
    <3>1. PICK u \in Threads : op[u].state = x /\ pc[u] \in {"relock", "callrelock"}
      BY <1>4, <2>1, <2>3 DEF WakeInv, NoLostWakeup
    <3> QED
      BY <1>2, <1>5, <2>3, <3>1
  <2> QED
    BY <2>2, <2>3
<1> QED
  BY <1>8, <1>9, <1>10 DEF WakeInv

LEMMA NextWakes ==
  ASSUME SafeCollections, "retain" \notin Features, IInv, WakeInv, [Next]_vars
  PROVE  WakeInv'
<1>1. ASSUME NEW t \in Threads, Request(t) PROVE WakeInv'
  <2>1. CASE \/ \E m \in Modes, w \in Names \cup States \cup {NoName}, r \in Refs :
                  Start(t, m, w, r)
             \/ \E r \in Refs : Collect(t, r) \/ Close(t, r)
             \/ Require(t) \/ MakeRefFails(t)
    BY <2>1, CalmRequests, CalmKeeps
  <2>2. CASE \E r \in Refs : CollectInFind(t, r)
    BY <2>2, CalmReleases, CalmKeeps
  <2>3. CASE \E r \in Refs, n \in Refs, u \in Threads : Retain(t, r, n, u)
    BY <2>3 DEF Retain
  <2>4. CASE \E r \in Refs : ReleaseNative(t, r)
    BY <2>4, CalmReleaseNative, CalmKeeps
  <2>5. CASE \E r \in Refs : Call(t, r)
    BY <2>5, CallWakes
  <2>6. CASE CollectInCall(t)
    BY <2>6 DEF CollectInCall, SafeCollections
  <2>7. CASE SetupFails(t)
    BY <2>7, CalmSetups, CalmKeeps
  <2>8. CASE SpuriousWakeup(t)
    BY <2>8, SpuriousWakes
  <2> QED
    BY <1>1, <2>1, <2>2, <2>3, <2>4, <2>5, <2>6, <2>7, <2>8 DEF Request
<1>2. ASSUME NEW t \in Threads, Step(t) PROVE WakeInv'
  <2>1. CASE Lookup(t) \/ CreateFails(t) \/ FindFailed(t)
    BY <2>1, CalmRequests, CalmKeeps
  <2>2. CASE Examine(t) \/ Relock(t)
    BY <2>2, FoundWakes
  <2>3. CASE MakeRef(t) \/ \E s \in States : Create(t, s)
    BY <2>3, CalmMakers, CalmKeeps
  <2>4. CASE Required(t) \/ Free(t) \/ Closed(t)
    BY <2>4, CalmSetups, CalmKeeps
  <2>5. CASE Collected(t)
    BY <2>5, CalmReleases, CalmKeeps
  <2>6. CASE Initialize(t) \/ Ended(t)
    BY <2>6, NotificationWakes
  <2>7. CASE CallRelock(t)
    BY <2>7, CallRelockWakes
  <2>8. CASE EndCall(t)
    BY <2>8, EndCallWakes
  <2> QED
    BY <1>2, <2>1, <2>2, <2>3, <2>4, <2>5, <2>6, <2>7, <2>8 DEF Step
<1>3. CASE UNCHANGED vars
  <2>1. obj' = obj /\ pc' = pc /\ op' = op
    BY <1>3 DEF vars
  <2> QED
    BY <2>1 DEF WakeInv, BusyHasRunner, FinderIsAlone, NoLostWakeup, Waiting
<1> QED
  BY <1>1, <1>2, <1>3 DEF Next

(* The notification at the end of a setup or of a call is not lost, for    *)
(* any number of callers and of singleton() calls that sleep on one        *)
(* condition variable (src/state.c 522, 800, 1078, 1105), provided that    *)
(* native code retains no handles: singleton() does not pass it on.        *)
THEOREM WakeupsArePassed ==
  ASSUME SafeCollections, "retain" \notin Features
  PROVE  Spec => []NoLostWakeup
<1>1. Init => WakeInv
  BY DEF Init, Unused, WakeInv, BusyHasRunner, FinderIsAlone, NoLostWakeup, Waiting, FinderSleeps
<1>2. WakeInv => NoLostWakeup
  BY DEF WakeInv
<1> QED
  BY <1>1, <1>2, AlwaysIInv, NextWakes, PTL DEF Spec

=============================================================================
