------------------------------- MODULE Buckets -------------------------------
(***************************************************************************)
(* The hash table of MtState objects (src/state.c), whose chains are       *)
(* linked through the objects: nextState points to the next object,        *)
(* prevStatePtr to the pointer that points to this one, in the bucket or   *)
(* in an object.  All operations run under the global lock, but that lock  *)
(* is recursive, and MtState_free() closes an interpreter in its middle:   *)
(* finalizers may free and create other objects there.  StateRegistry uses *)
(* the table as a set, its field listed.                                   *)
(***************************************************************************)
EXTENDS Integers, FiniteSets, SequencesExt

CONSTANTS
  MaxId,          \* bound on the ids that the counter has given away
  InitialBuckets, \* 64
  MaxLoad,        \* 4 objects per bucket before the table grows
  MaxUsage,       \* 30, the longest chain before it grows
  MinLoad,        \* 10 buckets per object before it shrinks
  Null

ASSUME BucketsAssumption ==
  /\ MaxId \in Nat /\ {InitialBuckets, MaxLoad, MaxUsage, MinLoad} \subseteq Nat \ {0}
  /\ Null \notin Int \cup [in : {"bucket", "state"}, of : Int]

VARIABLES
  alive,  \* the MtState objects, by id
  lastId, \* mtstates_id_counter
  table,  \* the bucket list with its counters and the links of the objects
  closing \* the calls of MtState_free() that are in lua_close(), each with
          \* its wasInBucket, the innermost last

vars == <<alive, lastId, table, closing>>

Ids == 1 .. MaxId

(* the pointers that a prevStatePtr can point to *)
BucketPtr(i) == [in |-> "bucket", of |-> i]
NextPtr(s) == [in |-> "state", of |-> s]

NoTable == [buckets |-> 0, first |-> <<>>, count |-> <<>>, usage |-> 0, counter |-> 0,
            next |-> [s \in Ids |-> Null], prev |-> [s \in Ids |-> Null]]

-----------------------------------------------------------------------------
(* toBuckets and newBuckets *)

(* the bucket of s in a list of n *)
IndexOld(s, n) == s % (IF table.buckets = 0 THEN n ELSE table.buckets)
Index(s, n) == s % n

UsageKept(tab, n) == tab.usage
Usage(tab, n) == IF n > tab.usage THEN n ELSE tab.usage

(* s becomes the first of its chain *)
ToBuckets(tab, s) ==
  LET i == Index(s, tab.buckets)
      second == tab.first[i]
      n == tab.count[i] + 1
  IN [tab EXCEPT !.prev = [x \in Ids |-> CASE x = s -> BucketPtr(i)
                                           [] x = second -> NextPtr(s)
                                           [] OTHER -> @[x]],
                 !.next[s] = second,
                 !.first[i] = s,
                 !.count[i] = n,
                 !.usage = Usage(tab, n)]

(* the objects from s on *)
Chain(tab, s) ==
  LET from[x \in Ids \cup {Null}] ==
        IF x = Null THEN <<>> ELSE <<x>> \o from[tab.next[x]]
  IN  from[s]

(* the objects in the order in which all chains are walked *)
WalkFirsts(tab) ==
  SelectSeq([i \in 1 .. tab.buckets |-> tab.first[i - 1]], LAMBDA x : x # Null)
Walk(tab) ==
  LET walked[i \in 0 .. tab.buckets] ==
        IF i = 0 THEN <<>> ELSE walked[i - 1] \o Chain(tab, tab.first[i - 1])
  IN  walked[tab.buckets]

(* a list of n buckets takes over the objects, walked as they were linked *)
EmptyList(tab, n) ==
  [tab EXCEPT !.buckets = n, !.usage = 0,
              !.first = [i \in 0 .. n - 1 |-> Null],
              !.count = [i \in 0 .. n - 1 |-> 0]]
NewBuckets(tab, n) ==
  LET walk == Walk(tab)
      moved[k \in 0 .. Len(walk)] ==
        IF k = 0 THEN EmptyList(tab, n) ELSE ToBuckets(moved[k - 1], walk[k])
  IN  moved[Len(walk)]

-----------------------------------------------------------------------------
(* a new object enters the table *)

MustGrow(tab) ==
  tab.counter + 1 > tab.buckets * MaxLoad \/ tab.usage > MaxUsage

(* calloc() of a list of n buckets may fail *)
Resized(tab, n) == {tab, NewBuckets(tab, n)}

Grown(tab) ==
  IF MustGrow(tab)
  THEN Resized(tab, IF tab.buckets = 0 THEN InitialBuckets ELSE 2 * tab.buckets)
  ELSE {tab}

(* without memory for its name, or without any bucket, the object stays    *)
(* outside of the table until it is collected                              *)
Inserted(s) ==
  {[ToBuckets(tab, s) EXCEPT !.counter = @ + 1] :
     tab \in {tab \in Grown(table) : tab.buckets > 0}}

NewState ==
  /\ lastId < MaxId
  /\ lastId' = lastId + 1
  /\ alive' = alive \cup {lastId'}
  /\ table' \in Inserted(lastId') \cup {table}
  /\ UNCHANGED closing

-----------------------------------------------------------------------------
(* MtState_free *)

InBucket(tab, s) == tab.prev[s] # Null

(* s leaves its chain, the count of its bucket stays *)
UnlinkedForward(tab, s) ==
  LET p == tab.prev[s]
      t == IF p.in = "bucket" THEN [tab EXCEPT !.first[p.of] = tab.next[s]]
           ELSE [tab EXCEPT !.next[p.of] = tab.next[s]]
  IN  [t EXCEPT !.next[s] = Null, !.prev[s] = Null]
Unlinked(tab, s) ==
  LET p == tab.prev[s]
      n == tab.next[s]
      t == IF p.in = "bucket" THEN [tab EXCEPT !.first[p.of] = n]
           ELSE [tab EXCEPT !.next[p.of] = n]
  IN  [t EXCEPT !.prev = [x \in Ids |-> IF x = n THEN p ELSE IF x = s THEN Null ELSE @[x]],
                !.next[s] = Null]

CounterKept(tab) == tab.counter
CounterAfterFree(tab) == tab.counter - 1

EmptiedKept(tab) == [NoTable EXCEPT !.buckets = tab.buckets]
Emptied(tab) == NoTable

(* an empty table gives its list back, one with few objects shrinks *)
Shrunk(tab) ==
  LET c == CounterAfterFree(tab)
      rest == [tab EXCEPT !.counter = c]
  IN  IF c = 0 THEN {Emptied(tab)}
      ELSE IF c * MinLoad < tab.buckets /\ 2 * c > InitialBuckets
      THEN Resized(rest, 2 * c)
      ELSE {rest}

Unlink(s) ==
  /\ s \in alive
  /\ alive' = alive \ {s}
  /\ table' = IF InBucket(table, s) THEN Unlinked(table, s) ELSE table
  /\ closing' = Append(closing, InBucket(table, s))
  /\ UNCHANGED lastId

Freed ==
  /\ closing # <<>>
  /\ closing' = Front(closing)
  /\ table' \in IF Last(closing) THEN Shrunk(table) ELSE {table}
  /\ UNCHANGED <<alive, lastId>>

-----------------------------------------------------------------------------
(* findStateWithId, which skips objects by their flags elsewhere *)

Found(id) ==
  IF table.buckets = 0 THEN {}
  ELSE {id} \cap ToSet(Chain(table, table.first[Index(id, table.buckets)]))

-----------------------------------------------------------------------------

Init == alive = {} /\ lastId = 0 /\ table = NoTable /\ closing = <<>>

Next == NewState \/ Freed \/ \E s \in Ids : Unlink(s)

Spec == Init /\ [][Next]_vars

-----------------------------------------------------------------------------

Buckets == 0 .. table.buckets - 1
Pointers == [in : {"bucket"}, of : Buckets] \cup [in : {"state"}, of : Ids]

(* The variables have their types, prevStatePtr points into the list that  *)
(* is in use.                                                              *)
TypeOK ==
  /\ alive \subseteq Ids /\ lastId \in Nat /\ closing \in Seq(BOOLEAN)
  /\ table.buckets \in Nat /\ table.usage \in Nat /\ table.counter \in Nat
  /\ table.first \in [Buckets -> Ids \cup {Null}]
  /\ table.count \in [Buckets -> Nat]
  /\ table.next \in [Ids -> Ids \cup {Null}]
  /\ table.prev \in [Ids -> Pointers \cup {Null}]

Listed == {s \in Ids : InBucket(table, s)}

(* The pointer that prevStatePtr points to points back, also to the object *)
(* that has become the neighbour of another one, or has moved to a new     *)
(* list: an object can leave the table through it.                         *)
PointersAgree ==
  \A s \in Listed :
    LET p == table.prev[s] IN
    s = IF p.in = "bucket" THEN table.first[p.of] ELSE table.next[p.of]

(* The chains have the objects that entered the table and were not freed,  *)
(* each of them once: no walk comes to memory that was freed.              *)
ChainsAreListed ==
  /\ ToSet(Walk(table)) = Listed /\ Listed \subseteq alive
  /\ Len(Walk(table)) = Cardinality(Listed)

(* An object is found by its id, however the table has grown and shrunk.   *)
ListedAreFound == \A s \in Listed : Found(s) = {s}

(* state_counter counts the objects in the table and those that have left  *)
(* it while their interpreters are closed: a finalizer that frees another  *)
(* object does not take the list away from them, and the last one does.    *)
CounterIsExact ==
  /\ table.counter = Cardinality(Listed) + Cardinality({k \in DOMAIN closing : closing[k]})
  /\ table.buckets = 0 <=> table.counter = 0

(* bucket_usage is no less than the longest chain, so a long chain makes   *)
(* the table grow.                                                         *)
UsageCoversChains ==
  \A i \in Buckets : /\ Len(Chain(table, table.first[i])) <= table.count[i]
                     /\ table.count[i] <= table.usage

=============================================================================
