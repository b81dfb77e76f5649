---------------------------- MODULE BucketsProofs ----------------------------
(***************************************************************************)
(* Proofs about Buckets, for any number of objects and any limits.  The    *)
(* links of the objects are read as sequences, one for each bucket: L[i]   *)
(* is the chain of bucket i.                                               *)
(***************************************************************************)
EXTENDS Buckets, NumberInduction, SequenceTheorems, FiniteSetTheorems

-----------------------------------------------------------------------------
(* Tables and their chains *)

AnyPointer == [in : {"bucket"}, of : Nat] \cup [in : {"state"}, of : Ids]

Tables(n) ==
  [buckets : {n}, first : [0 .. n - 1 -> Ids \cup {Null}], count : [0 .. n - 1 -> Nat],
   usage : Nat, counter : Nat,
   next : [Ids -> Ids \cup {Null}], prev : [Ids -> AnyPointer \cup {Null}]]

(* what follows position k of a chain c, and the pointer that points to    *)
(* the object there                                                        *)
After(c, k) == IF k < Len(c) THEN c[k + 1] ELSE Null
PtrTo(i, c, k) == IF k = 1 THEN BucketPtr(i) ELSE NextPtr(c[k - 1])

(* The links of the objects of c make it the chain of bucket i. *)
Linked(tab, i, c) ==
  /\ tab.first[i] = After(c, 0)
  /\ \A k \in 1 .. Len(c) : tab.next[c[k]] = After(c, k) /\ tab.prev[c[k]] = PtrTo(i, c, k)

(* A chain has some objects of S, those of its bucket, each of them once. *)
ChainOf(n, S, i, c) ==
  /\ c \in Seq(Ids)
  /\ \A k \in 1 .. Len(c) : c[k] \in S /\ c[k] % n = i
  /\ \A j, k \in 1 .. Len(c) : c[j] = c[k] => j = k

InChain(c, s) == \E k \in 1 .. Len(c) : c[k] = s

Counted(tab, i, c) == Len(c) <= tab.count[i] /\ tab.count[i] <= tab.usage

(* A table of n buckets has the objects of S in the chains L. *)
Structured(tab, n, S, L) ==
  /\ S \subseteq Ids /\ n \in Nat /\ tab \in Tables(n)
  /\ L \in [0 .. n - 1 -> Seq(Ids)]
  /\ \A i \in 0 .. n - 1 : ChainOf(n, S, i, L[i]) /\ Linked(tab, i, L[i]) /\ Counted(tab, i, L[i])
  /\ \A s \in S : n # 0 /\ InChain(L[s % n], s)

(* Outside of S two tables have the same links, and the same counter. *)
SameBut(tab, t, S) ==
  /\ t.counter = tab.counter
  /\ \A x \in Ids \ S : t.next[x] = tab.next[x] /\ t.prev[x] = tab.prev[x]

Unlisted(t, s) == t.next[s] = Null /\ t.prev[s] = Null

LEMMA NullIsOther ==
  /\ Null \notin Ids /\ Null \notin AnyPointer
  /\ \A i \in Int : Null # BucketPtr(i) /\ Null # NextPtr(i)
<1>1. Ids \subseteq Int /\ Null \notin Int
  BY BucketsAssumption DEF Ids
<1>2. AnyPointer \subseteq [in : {"bucket", "state"}, of : Int]
  <2> SUFFICES ASSUME NEW p \in AnyPointer PROVE p \in [in : {"bucket", "state"}, of : Int]
    OBVIOUS
  <2>1. CASE p \in [in : {"bucket"}, of : Nat]
    BY <2>1
  <2>2. CASE p \in [in : {"state"}, of : Ids]
    BY <2>2, <1>1
  <2> QED
    BY <2>1, <2>2 DEF AnyPointer
<1>3. \A i \in Int : BucketPtr(i) \in [in : {"bucket", "state"}, of : Int]
                     /\ NextPtr(i) \in [in : {"bucket", "state"}, of : Int]
  BY DEF BucketPtr, NextPtr
<1> QED
  BY <1>1, <1>2, <1>3, BucketsAssumption

LEMMA IndexIn ==
  ASSUME NEW n \in Nat \ {0}, NEW s \in Ids
  PROVE  Index(s, n) = s % n /\ s % n \in 0 .. n - 1 /\ s \in Int
BY DEF Ids, Index

-----------------------------------------------------------------------------
(* The operations on typed tables, field by field *)

(* what becomes of a table tab when s enters bucket i *)
Entered(tab, n, s, i, t) ==
  /\ t \in Tables(n) /\ t.counter = tab.counter
  /\ t.first = [tab.first EXCEPT ![i] = s]
  /\ t.count = [tab.count EXCEPT ![i] = tab.count[i] + 1]
  /\ t.usage = Usage(tab, tab.count[i] + 1)
  /\ t.next = [tab.next EXCEPT ![s] = tab.first[i]]
  /\ t.prev = [x \in Ids |-> CASE x = s -> BucketPtr(i)
                               [] x = tab.first[i] -> NextPtr(s)
                               [] OTHER -> tab.prev[x]]

LEMMA ToBucketsFields ==
  ASSUME NEW n \in Nat \ {0}, NEW tab \in Tables(n), NEW s \in Ids
  PROVE  Entered(tab, n, s, s % n, ToBuckets(tab, s))
<1> DEFINE i == s % n
           second == tab.first[i]
           m == tab.count[i] + 1
           P == [x \in Ids |-> CASE x = s -> BucketPtr(i)
                                 [] x = second -> NextPtr(s)
                                 [] OTHER -> tab.prev[x]]
           t == [tab EXCEPT !.prev = P, !.next[s] = second, !.first[i] = s, !.count[i] = m,
                            !.usage = Usage(tab, m)]
<1>1. tab.buckets = n /\ tab.first \in [0 .. n - 1 -> Ids \cup {Null}] /\ tab.count \in [0 .. n - 1 -> Nat]
      /\ tab.usage \in Nat /\ tab.counter \in Nat /\ tab.next \in [Ids -> Ids \cup {Null}]
      /\ tab.prev \in [Ids -> AnyPointer \cup {Null}]
  BY DEF Tables
<1>2. i \in 0 .. n - 1 /\ i \in Nat /\ Index(s, n) = i
  BY IndexIn
<1>3. ToBuckets(tab, s) = t
  BY <1>1, <1>2 DEF ToBuckets
<1>4. m \in Nat /\ Usage(tab, m) \in Nat /\ second \in Ids \cup {Null}
  BY <1>1, <1>2 DEF Usage
<1>5. BucketPtr(i) \in AnyPointer /\ NextPtr(s) \in AnyPointer
  BY <1>2 DEF BucketPtr, NextPtr, AnyPointer
<1>6. P \in [Ids -> AnyPointer \cup {Null}]
  BY <1>1, <1>5
<1> HIDE DEF P, second, m, i
<1>8. [tab.first EXCEPT ![i] = s] \in [0 .. n - 1 -> Ids \cup {Null}]
      /\ [tab.count EXCEPT ![i] = m] \in [0 .. n - 1 -> Nat]
      /\ [tab.next EXCEPT ![s] = second] \in [Ids -> Ids \cup {Null}]
  BY <1>1, <1>2, <1>4
<1>9. t \in Tables(n)
  BY <1>1, <1>4, <1>6, <1>8 DEF Tables
<1>7. /\ t.counter = tab.counter /\ t.first = [tab.first EXCEPT ![i] = s]
      /\ t.count = [tab.count EXCEPT ![i] = m] /\ t.usage = Usage(tab, m)
      /\ t.next = [tab.next EXCEPT ![s] = second] /\ t.prev = P
  BY DEF Tables
<1> HIDE DEF t
<1> QED
  BY <1>3, <1>7, <1>9 DEF i, second, m, P, Entered

-----------------------------------------------------------------------------
(* An object enters its chain *)

LEMMA Prefixed ==
  ASSUME NEW c \in Seq(Ids), NEW s \in Ids
  PROVE  /\ <<s>> \o c \in Seq(Ids) /\ Len(<<s>> \o c) = Len(c) + 1 /\ Len(c) \in Nat
         /\ (<<s>> \o c)[1] = s
         /\ \A k \in 1 .. Len(c) : (<<s>> \o c)[k + 1] = c[k]
<1>1. <<s>> \in Seq(Ids) /\ Len(<<s>>) = 1 /\ <<s>>[1] = s
  OBVIOUS
<1>2. Len(c) \in Nat
  BY LenProperties
<1> DEFINE d == <<s>> \o c
<1>3. d \in Seq(Ids) /\ Len(d) = 1 + Len(c)
      /\ \A k \in 1 .. 1 + Len(c) : d[k] = IF k <= 1 THEN <<s>>[k] ELSE c[k - 1]
  BY <1>1, ConcatProperties
<1>4. d[1] = s
  BY <1>1, <1>2, <1>3
<1>5. ASSUME NEW k \in 1 .. Len(c) PROVE d[k + 1] = c[k]
  <2>1. k + 1 \in 1 .. 1 + Len(c) /\ ~(k + 1 <= 1) /\ (k + 1) - 1 = k
    BY <1>2
  <2> QED
    BY <1>3, <2>1
<1> QED
  BY <1>2, <1>3, <1>4, <1>5

LEMMA Insertion ==
  ASSUME NEW n \in Nat \ {0}, NEW tab, NEW S, NEW L, NEW s \in Ids \ S, Structured(tab, n, S, L)
  PROVE  /\ \E M : Structured(ToBuckets(tab, s), n, S \cup {s}, M)
         /\ SameBut(tab, ToBuckets(tab, s), S \cup {s})
<1>1. PICK i \in 0 .. n - 1 : i = s % n
  BY IndexIn
<1>2. PICK c \in Seq(Ids) : c = L[i]
  BY <1>1 DEF Structured
<1>3. ChainOf(n, S, i, c) /\ Linked(tab, i, c) /\ Counted(tab, i, c)
  BY <1>1, <1>2 DEF Structured
<1>4. PICK d \in Seq(Ids) : /\ d = <<s>> \o c
                            /\ Len(d) = Len(c) + 1 /\ Len(c) \in Nat /\ d[1] = s
                            /\ \A k \in 1 .. Len(c) : d[k + 1] = c[k]
  BY Prefixed
<1>5. PICK t : t = ToBuckets(tab, s)
  OBVIOUS
<1>6. tab \in Tables(n)
  BY DEF Structured
<1>7. PICK second : second = tab.first[i] /\ second = After(c, 0)
  BY <1>3 DEF Linked
<1>8. Entered(tab, n, s, i, t)
  BY <1>1, <1>5, <1>6, ToBucketsFields
<1>9. tab.first \in [0 .. n - 1 -> Ids \cup {Null}] /\ tab.count \in [0 .. n - 1 -> Nat]
      /\ tab.usage \in Nat /\ tab.next \in [Ids -> Ids \cup {Null}]
      /\ tab.prev \in [Ids -> AnyPointer \cup {Null}]
  BY <1>6 DEF Tables
<1>12. /\ second = (IF Len(c) = 0 THEN Null ELSE c[1])
       /\ Len(c) > 0 => second \in S /\ second % n = i
       /\ second # s
  <2>1. second = (IF Len(c) = 0 THEN Null ELSE c[1])
    BY <1>4, <1>7 DEF After
  <2>2. Len(c) > 0 => second \in S /\ second % n = i
    BY <1>3, <1>4, <2>1 DEF ChainOf
  <2> QED
    BY <1>4, <2>1, <2>2, NullIsOther
<1>10. t.next[s] = second /\ t.prev[s] = BucketPtr(i)
  BY <1>7, <1>8, <1>9, <1>12 DEF Entered
<1>11. \A x \in Ids \ {s} : t.next[x] = tab.next[x] /\ (x # second => t.prev[x] = tab.prev[x])
                            /\ (x = second => t.prev[x] = NextPtr(s))
  BY <1>7, <1>8, <1>9 DEF Entered
<1>13. PICK M : M = [L EXCEPT ![i] = d]
  OBVIOUS
<1>14. L \in [0 .. n - 1 -> Seq(Ids)] /\ M \in [0 .. n - 1 -> Seq(Ids)] /\ M[i] = d
       /\ \A j \in 0 .. n - 1 : j # i => M[j] = L[j]
  BY <1>13 DEF Structured
<1>15. ChainOf(n, S \cup {s}, i, d)
  <2>1. \A k \in 1 .. Len(c) : c[k] \in S /\ c[k] % n = i
    BY <1>3 DEF ChainOf
  <2>2. \A k \in 1 .. Len(d) : k = 1 \/ (k - 1 \in 1 .. Len(c) /\ d[k] = c[k - 1])
    BY <1>4
  <2>3. \A k \in 1 .. Len(d) : d[k] \in S \cup {s} /\ d[k] % n = i
    BY <1>1, <1>4, <2>1, <2>2
  <2>4. ASSUME NEW j \in 1 .. Len(d), NEW k \in 1 .. Len(d), d[j] = d[k] PROVE j = k
    <3>1. CASE j = 1 \/ k = 1
      BY <1>4, <2>1, <2>2, <2>4, <3>1
    <3>2. CASE j # 1 /\ k # 1
      <4>1. j - 1 \in 1 .. Len(c) /\ k - 1 \in 1 .. Len(c) /\ c[j - 1] = c[k - 1]
        BY <2>2, <2>4, <3>2
      <4>2. j - 1 = k - 1
        BY <1>3, <4>1 DEF ChainOf
      <4> QED
        BY <4>2
    <3> QED
      BY <3>1, <3>2
  <2> QED
    BY <2>3, <2>4 DEF ChainOf
<1>16. Linked(t, i, d)
  <2>1. t.first[i] = After(d, 0)
    BY <1>4, <1>8, <1>9 DEF After, Entered
  <2>2. ASSUME NEW k \in 1 .. Len(d) PROVE t.next[d[k]] = After(d, k) /\ t.prev[d[k]] = PtrTo(i, d, k)
    <3>1. CASE k = 1
      <4>1. After(d, k) = second
        BY <1>4, <1>12, <3>1 DEF After
      <4> QED
        BY <1>4, <1>10, <3>1, <4>1 DEF PtrTo
    <3>2. CASE k # 1
      <4>1. PICK j \in 1 .. Len(c) : k = j + 1 /\ j = k - 1
        <5>1. k - 1 \in 1 .. Len(c)
          BY <1>4, <3>2
        <5> QED
          BY <5>1
      <4>2. d[k] = c[j] /\ c[j] \in S /\ c[j] \in Ids \ {s} /\ d[k - 1] = d[j]
        BY <1>3, <1>4, <4>1 DEF ChainOf, Structured
      <4>3. t.next[d[k]] = After(c, j)
        BY <1>3, <1>11, <4>2 DEF Linked
      <4>4. After(c, j) = After(d, k)
        <5>1. CASE j < Len(c)
          <6>1. j + 1 \in 1 .. Len(c)
            BY <1>4, <5>1
          <6>2. d[k + 1] = c[j + 1]
            BY <1>4, <4>1, <6>1
          <6> QED
            BY <1>4, <4>1, <5>1, <6>2 DEF After
        <5>2. CASE ~(j < Len(c))
          BY <1>4, <4>1, <5>2 DEF After
        <5> QED
          BY <5>1, <5>2
      <4>5. t.prev[d[k]] = PtrTo(i, d, k)
        <5>1. PtrTo(i, d, k) = NextPtr(d[j])
          BY <3>2, <4>2 DEF PtrTo
        <5>2. CASE j = 1
          BY <1>4, <1>11, <1>12, <4>2, <5>1, <5>2
        <5>3. CASE j # 1
          <6>1. j - 1 \in 1 .. Len(c) /\ (j - 1) + 1 = j
            BY <1>4, <5>3
          <6>2. d[j] = c[j - 1]
            BY <1>4, <6>1
          <6>3. c[j] # c[1] /\ c[j] # Null
            BY <1>3, <1>4, <4>2, <5>3, NullIsOther DEF ChainOf
          <6>4. t.prev[d[k]] = tab.prev[c[j]]
            BY <1>11, <1>12, <4>2, <6>3
          <6>5. tab.prev[c[j]] = NextPtr(c[j - 1])
            BY <1>3, <5>3 DEF Linked, PtrTo
          <6> QED
            BY <5>1, <6>2, <6>4, <6>5
        <5> QED
          BY <5>2, <5>3
      <4> QED
        BY <4>3, <4>4, <4>5
    <3> QED
      BY <3>1, <3>2
  <2> QED
    BY <2>1, <2>2 DEF Linked
<1>17. Counted(t, i, d)
  BY <1>3, <1>4, <1>8, <1>9 DEF Counted, Usage, Entered
<1>18. ASSUME NEW j \in 0 .. n - 1, j # i
       PROVE  ChainOf(n, S \cup {s}, j, L[j]) /\ Linked(t, j, L[j]) /\ Counted(t, j, L[j])
  <2>1. ChainOf(n, S, j, L[j]) /\ Linked(tab, j, L[j]) /\ Counted(tab, j, L[j])
    BY DEF Structured
  <2>2. t.first[j] = tab.first[j] /\ t.count[j] = tab.count[j]
    BY <1>8, <1>9, <1>18 DEF Entered
  <2>3. t.usage >= tab.usage /\ t.usage \in Nat
    BY <1>3, <1>8, <1>9 DEF Usage, Counted, Entered
  <2>4. \A k \in 1 .. Len(L[j]) : t.next[L[j][k]] = tab.next[L[j][k]] /\ t.prev[L[j][k]] = tab.prev[L[j][k]]
    <3> SUFFICES ASSUME NEW k \in 1 .. Len(L[j]), NEW x, x = L[j][k]
                 PROVE  t.next[x] = tab.next[x] /\ t.prev[x] = tab.prev[x]
      OBVIOUS
    <3>1. x \in S /\ x % n = j
      BY <2>1 DEF ChainOf
    <3>2. x \in Ids \ {s} /\ x # second
      BY <1>12, <1>18, <3>1, NullIsOther DEF Structured
    <3> QED
      BY <1>11, <3>2
  <2>5. Linked(t, j, L[j])
    BY <2>1, <2>2, <2>4 DEF Linked
  <2>6. Counted(t, j, L[j])
    <3>1. tab.count[j] \in Nat /\ Len(L[j]) \in Nat
      BY <1>9, <1>14, LenProperties
    <3> QED
      BY <1>9, <2>1, <2>2, <2>3, <3>1 DEF Counted
  <2>7. ChainOf(n, S \cup {s}, j, L[j])
    BY <2>1 DEF ChainOf
  <2> QED
    BY <2>5, <2>6, <2>7
<1>19. ASSUME NEW x \in S \cup {s} PROVE InChain(M[x % n], x)
  <2>1. CASE x = s
    <3>1. 1 \in 1 .. Len(d)
      BY <1>4
    <3> QED
      BY <1>1, <1>4, <1>14, <2>1, <3>1 DEF InChain
  <2>2. CASE x \in S /\ x % n = i
    <3>1. PICK k \in 1 .. Len(c) : c[k] = x
      BY <1>2, <2>2 DEF Structured, InChain
    <3>2. k + 1 \in 1 .. Len(d) /\ d[k + 1] = x
      BY <1>4, <3>1
    <3> QED
      BY <1>14, <2>2, <3>2 DEF InChain
  <2>3. CASE x \in S /\ x % n # i
    <3>1. x % n \in 0 .. n - 1 /\ InChain(L[x % n], x)
      BY <2>3, IndexIn DEF Structured
    <3> QED
      BY <1>14, <2>3, <3>1
  <2> QED
    BY <2>1, <2>2, <2>3
<1>20. Structured(t, n, S \cup {s}, M)
  <2>1. \A j \in 0 .. n - 1 : ChainOf(n, S \cup {s}, j, M[j]) /\ Linked(t, j, M[j]) /\ Counted(t, j, M[j])
    BY <1>14, <1>15, <1>16, <1>17, <1>18
  <2>2. S \cup {s} \subseteq Ids
    BY DEF Structured
  <2> QED
    BY <1>8, <1>14, <1>19, <2>1, <2>2 DEF Structured, Entered
<1>21. \A x \in Ids \ (S \cup {s}) : t.next[x] = tab.next[x] /\ t.prev[x] = tab.prev[x]
  BY <1>11, <1>12, NullIsOther
<1> QED
  BY <1>5, <1>8, <1>20, <1>21 DEF Entered, SameBut

-----------------------------------------------------------------------------
(* An object leaves its chain *)

(* what becomes of a table tab when s leaves it *)
Left(tab, n, s, t) ==
  LET p == tab.prev[s]
      after == tab.next[s]
  IN  /\ t \in Tables(n) /\ t.counter = tab.counter /\ t.count = tab.count /\ t.usage = tab.usage
      /\ p.in = "bucket" => /\ t.first = [tab.first EXCEPT ![p.of] = after]
                            /\ t.next = [tab.next EXCEPT ![s] = Null]
      /\ p.in = "state" => /\ t.first = tab.first
                           /\ t.next = [tab.next EXCEPT ![p.of] = after, ![s] = Null]
      /\ t.prev = [x \in Ids |-> IF x = after THEN p ELSE IF x = s THEN Null ELSE tab.prev[x]]

LEMMA UnlinkedFields ==
  ASSUME NEW n \in Nat \ {0}, NEW tab \in Tables(n), NEW s \in Ids,
         \/ \E i \in 0 .. n - 1 : tab.prev[s] = BucketPtr(i)
         \/ \E x \in Ids : tab.prev[s] = NextPtr(x)
  PROVE  Left(tab, n, s, Unlinked(tab, s))
<1>1. tab.buckets = n /\ tab.first \in [0 .. n - 1 -> Ids \cup {Null}] /\ tab.count \in [0 .. n - 1 -> Nat]
      /\ tab.usage \in Nat /\ tab.counter \in Nat /\ tab.next \in [Ids -> Ids \cup {Null}]
      /\ tab.prev \in [Ids -> AnyPointer \cup {Null}]
  BY DEF Tables
<1> DEFINE p == tab.prev[s]
           after == tab.next[s]
           P == [x \in Ids |-> IF x = after THEN p ELSE IF x = s THEN Null ELSE tab.prev[x]]
<1>2. p \in AnyPointer /\ after \in Ids \cup {Null}
  <2>1. \A i \in 0 .. n - 1 : BucketPtr(i) \in AnyPointer
    BY DEF BucketPtr, AnyPointer
  <2>2. \A x \in Ids : NextPtr(x) \in AnyPointer
    BY DEF NextPtr, AnyPointer
  <2> QED
    BY <1>1, <2>1, <2>2
<1>3. P \in [Ids -> AnyPointer \cup {Null}]
  BY <1>1, <1>2
<1>4. CASE \E i \in 0 .. n - 1 : p = BucketPtr(i)
  <2>1. p.in = "bucket" /\ p.of \in 0 .. n - 1
    BY <1>4 DEF BucketPtr
  <2> DEFINE t == [tab EXCEPT !.first[p.of] = after, !.prev = P, !.next[s] = Null]
  <2>2. Unlinked(tab, s) = t
    BY <1>1, <2>1 DEF Unlinked
  <2> HIDE DEF P, after, p
  <2>3. [tab.first EXCEPT ![p.of] = after] \in [0 .. n - 1 -> Ids \cup {Null}]
        /\ [tab.next EXCEPT ![s] = Null] \in [Ids -> Ids \cup {Null}]
    BY <1>1, <1>2, <2>1
  <2>4. t \in Tables(n)
    BY <1>1, <1>3, <2>3 DEF Tables
  <2>5. /\ t.counter = tab.counter /\ t.count = tab.count /\ t.usage = tab.usage
        /\ t.first = [tab.first EXCEPT ![p.of] = after] /\ t.next = [tab.next EXCEPT ![s] = Null]
        /\ t.prev = P
    BY DEF Tables
  <2> HIDE DEF t
  <2> QED
    BY <2>1, <2>2, <2>4, <2>5 DEF Left, P, after, p
<1>5. CASE \E x \in Ids : p = NextPtr(x)
  <2>1. p.in = "state" /\ p.of \in Ids
    BY <1>5 DEF NextPtr
  <2> DEFINE t == [tab EXCEPT !.next[p.of] = after, !.prev = P, !.next[s] = Null]
  <2>2. Unlinked(tab, s) = t
    BY <1>1, <2>1 DEF Unlinked
  <2> HIDE DEF P, after, p
  <2>3. [tab.next EXCEPT ![p.of] = after, ![s] = Null] \in [Ids -> Ids \cup {Null}]
    BY <1>1, <1>2, <2>1
  <2>4. t \in Tables(n)
    BY <1>1, <1>3, <2>3 DEF Tables
  <2>5. /\ t.counter = tab.counter /\ t.count = tab.count /\ t.usage = tab.usage
        /\ t.first = tab.first /\ t.next = [tab.next EXCEPT ![p.of] = after, ![s] = Null]
        /\ t.prev = P
    BY DEF Tables
  <2> HIDE DEF t
  <2> QED
    BY <2>1, <2>2, <2>4, <2>5 DEF Left, P, after, p
<1> QED
  BY <1>4, <1>5

(* a chain without the object at position k *)
Without(c, k) == [j \in 1 .. Len(c) - 1 |-> IF j < k THEN c[j] ELSE c[j + 1]]

LEMMA WithoutIs ==
  ASSUME NEW c \in Seq(Ids), NEW k \in 1 .. Len(c)
  PROVE  /\ Without(c, k) \in Seq(Ids) /\ Len(Without(c, k)) = Len(c) - 1 /\ Len(c) \in Nat
         /\ \A j \in 1 .. Len(c) - 1 : Without(c, k)[j] = IF j < k THEN c[j] ELSE c[j + 1]
<1>1. Len(c) \in Nat /\ Len(c) - 1 \in Nat /\ k \in Nat
  BY LenProperties
<1>2. \A j \in 1 .. Len(c) - 1 : (IF j < k THEN c[j] ELSE c[j + 1]) \in Ids
  <2> SUFFICES ASSUME NEW j \in 1 .. Len(c) - 1 PROVE c[j] \in Ids /\ c[j + 1] \in Ids
    OBVIOUS
  <2>1. j \in 1 .. Len(c) /\ j + 1 \in 1 .. Len(c)
    BY <1>1
  <2> QED
    BY <2>1, ElementOfSeq
<1>3. Without(c, k) \in [1 .. Len(c) - 1 -> Ids]
  BY <1>2 DEF Without
<1>4. Without(c, k) \in Seq(Ids) /\ Len(Without(c, k)) = Len(c) - 1
  BY <1>1, <1>3
<1> QED
  BY <1>1, <1>4 DEF Without


LEMMA Removal ==
  ASSUME NEW n \in Nat, NEW tab, NEW S, NEW L, NEW s \in S, Structured(tab, n, S, L)
  PROVE  /\ \E M : Structured(Unlinked(tab, s), n, S \ {s}, M)
         /\ SameBut(tab, Unlinked(tab, s), S)
         /\ Unlisted(Unlinked(tab, s), s)
<1>0. n \in Nat \ {0} /\ s \in Ids
  BY DEF Structured
<1>1. PICK i \in 0 .. n - 1 : i = s % n
  BY <1>0, IndexIn
<1>2. PICK c \in Seq(Ids) : c = L[i]
  BY <1>1 DEF Structured
<1>3. ChainOf(n, S, i, c) /\ Linked(tab, i, c) /\ Counted(tab, i, c)
  BY <1>1, <1>2 DEF Structured
<1>4. PICK k \in 1 .. Len(c) : c[k] = s
  BY <1>1, <1>2 DEF Structured, InChain
<1>5. PICK d \in Seq(Ids) : /\ Len(d) = Len(c) - 1 /\ Len(c) \in Nat
                            /\ \A j \in 1 .. Len(c) - 1 : d[j] = IF j < k THEN c[j] ELSE c[j + 1]
  BY WithoutIs
<1>6. PICK t : t = Unlinked(tab, s)
  OBVIOUS
<1>7. tab \in Tables(n)
  BY DEF Structured
<1>8. tab.first \in [0 .. n - 1 -> Ids \cup {Null}] /\ tab.count \in [0 .. n - 1 -> Nat]
      /\ tab.usage \in Nat /\ tab.next \in [Ids -> Ids \cup {Null}]
      /\ tab.prev \in [Ids -> AnyPointer \cup {Null}]
  BY <1>7 DEF Tables
<1>9. PICK p, after : p = tab.prev[s] /\ after = tab.next[s]
  OBVIOUS
<1>10. p = PtrTo(i, c, k) /\ after = After(c, k)
  BY <1>3, <1>4, <1>9 DEF Linked
<1>11. \A j \in 1 .. Len(c) : c[j] \in S /\ c[j] \in Ids /\ c[j] % n = i /\ c[j] # Null
  BY <1>3, NullIsOther DEF ChainOf, Structured
<1>12. /\ k = 1 => p = BucketPtr(i)
       /\ k > 1 => p = NextPtr(c[k - 1]) /\ k - 1 \in 1 .. Len(c)
       /\ k < Len(c) => after = c[k + 1] /\ k + 1 \in 1 .. Len(c)
       /\ k = Len(c) => after = Null
  BY <1>5, <1>10 DEF PtrTo, After
<1>13. Left(tab, n, s, t)
  BY <1>0, <1>4, <1>5, <1>6, <1>7, <1>9, <1>11, <1>12, UnlinkedFields
<1>14. /\ t \in Tables(n) /\ t.counter = tab.counter /\ t.count = tab.count /\ t.usage = tab.usage
       /\ t.next[s] = Null /\ (s # after => t.prev[s] = Null)
  BY <1>0, <1>5, <1>8, <1>9, <1>12, <1>13 DEF Left, BucketPtr, NextPtr
<1>15. s # after
  <2>1. CASE k < Len(c)
    <3>1. after = c[k + 1] /\ k + 1 \in 1 .. Len(c) /\ k + 1 # k
      BY <1>12, <2>1
    <3> QED
      BY <1>3, <1>4, <3>1 DEF ChainOf
  <2>2. CASE k = Len(c)
    BY <1>0, <1>12, <2>2, NullIsOther
  <2> QED
    BY <1>5, <2>1, <2>2
<1>16. /\ after \in S \cup {Null} /\ (after # Null => after % n = i)
       /\ \A x \in Ids \ {s} : t.prev[x] = IF x = after THEN p ELSE tab.prev[x]
  BY <1>5, <1>8, <1>9, <1>11, <1>12, <1>13 DEF Left
<1>17. /\ t.first[i] = IF k = 1 THEN after ELSE tab.first[i]
       /\ \A j \in 0 .. n - 1 : j # i => t.first[j] = tab.first[j]
       /\ \A x \in Ids \ {s} : t.next[x] = IF k > 1 /\ x = c[k - 1] THEN after ELSE tab.next[x]
  <2>1. CASE k = 1
    <3>1. t.first = [tab.first EXCEPT ![i] = after] /\ t.next = [tab.next EXCEPT ![s] = Null]
      BY <1>9, <1>12, <1>13, <2>1 DEF Left, BucketPtr
    <3> QED
      BY <1>8, <2>1, <3>1
  <2>2. CASE k > 1
    <3>1. PICK x \in Ids : x = c[k - 1] /\ p = NextPtr(x)
      BY <1>11, <1>12, <2>2
    <3>2. t.first = tab.first /\ t.next = [tab.next EXCEPT ![x] = after, ![s] = Null]
      BY <1>9, <1>13, <3>1 DEF Left, NextPtr
    <3> QED
      BY <1>8, <2>2, <3>1, <3>2
  <2> QED
    BY <1>5, <2>1, <2>2
<1>18. PICK M : M = [L EXCEPT ![i] = d]
  OBVIOUS
<1>19. L \in [0 .. n - 1 -> Seq(Ids)] /\ M \in [0 .. n - 1 -> Seq(Ids)] /\ M[i] = d
       /\ \A j \in 0 .. n - 1 : j # i => M[j] = L[j]
  BY <1>18 DEF Structured
<1>20. \A j \in 1 .. Len(d) : /\ j < k => j \in 1 .. Len(c) /\ d[j] = c[j]
                              /\ j >= k => j + 1 \in 1 .. Len(c) /\ d[j] = c[j + 1]
  BY <1>5
<1>21. ChainOf(n, S \ {s}, i, d)
  <2>1. \A j \in 1 .. Len(c) : j # k => c[j] # s
    BY <1>3, <1>4 DEF ChainOf
  <2>2. \A j \in 1 .. Len(d) : d[j] \in S \ {s} /\ d[j] % n = i
    BY <1>11, <1>20, <2>1
  <2>3. ASSUME NEW j \in 1 .. Len(d), NEW m \in 1 .. Len(d), d[j] = d[m] PROVE j = m
    <3>1. PICK a \in 1 .. Len(c) : d[j] = c[a] /\ a = IF j < k THEN j ELSE j + 1
      BY <1>20
    <3>2. PICK b \in 1 .. Len(c) : d[m] = c[b] /\ b = IF m < k THEN m ELSE m + 1
      BY <1>20
    <3>3. a = b
      BY <1>3, <2>3, <3>1, <3>2 DEF ChainOf
    <3> QED
      BY <3>1, <3>2, <3>3
  <2> QED
    BY <2>2, <2>3 DEF ChainOf
<1>22. Linked(t, i, d)
  <2>1. t.first[i] = After(d, 0)
    <3>1. tab.first[i] = c[1]
      BY <1>3, <1>5 DEF Linked, After
    <3>2. CASE k > 1
      <4>1. 1 \in 1 .. Len(d) /\ d[1] = c[1]
        BY <1>5, <1>20, <3>2
      <4> QED
        BY <1>17, <3>1, <3>2, <4>1 DEF After
    <3>3. CASE k = 1 /\ Len(c) > 1
      <4>1. 1 \in 1 .. Len(d) /\ d[1] = c[2]
        BY <1>5, <1>20, <3>3
      <4> QED
        BY <1>12, <1>17, <3>3, <4>1 DEF After
    <3>4. CASE k = 1 /\ Len(c) = 1
      BY <1>5, <1>12, <1>17, <3>4 DEF After
    <3> QED
      BY <1>5, <3>2, <3>3, <3>4
  <2>2. ASSUME NEW j \in 1 .. Len(d) PROVE t.next[d[j]] = After(d, j) /\ t.prev[d[j]] = PtrTo(i, d, j)
    <3>0. d[j] \in Ids \ {s}
      BY <1>21 DEF ChainOf, Structured
    <3>1. CASE j < k
      <4>1. j \in 1 .. Len(c) /\ d[j] = c[j] /\ j < Len(c)
        BY <1>5, <1>20, <3>1
      <4>2. tab.next[c[j]] = c[j + 1] /\ tab.prev[c[j]] = PtrTo(i, c, j)
        BY <1>3, <4>1 DEF Linked, After
      <4>3. t.next[d[j]] = After(d, j)
        <5>1. CASE j = k - 1
          <6>1. t.next[d[j]] = after
            BY <1>17, <3>0, <4>1, <5>1
          <6>2. j < Len(d) => d[j + 1] = c[k + 1] /\ k < Len(c)
            BY <1>5, <1>20, <5>1
          <6>3. ~(j < Len(d)) => k = Len(c)
            BY <1>5, <5>1
          <6> QED
            BY <1>12, <6>1, <6>2, <6>3 DEF After
        <5>2. CASE j < k - 1
          <6>1. c[j] # c[k - 1]
            BY <1>3, <1>12, <4>1, <5>2 DEF ChainOf
          <6>2. t.next[d[j]] = c[j + 1]
            BY <1>17, <3>0, <4>1, <4>2, <6>1
          <6>3. j + 1 \in 1 .. Len(d) /\ d[j + 1] = c[j + 1] /\ j < Len(d)
            BY <1>5, <1>20, <5>2
          <6> QED
            BY <6>2, <6>3 DEF After
        <5> QED
          BY <3>1, <5>1, <5>2
      <4>4. t.prev[d[j]] = PtrTo(i, d, j)
        <5>1. c[j] # after
          <6>1. k < Len(c) => c[j] # c[k + 1]
            BY <1>3, <1>12, <3>1, <4>1 DEF ChainOf
          <6> QED
            BY <1>5, <1>11, <1>12, <4>1, <6>1
        <5>2. t.prev[d[j]] = PtrTo(i, c, j)
          BY <1>16, <3>0, <4>1, <4>2, <5>1
        <5>3. j # 1 => j - 1 \in 1 .. Len(d) /\ d[j - 1] = c[j - 1]
          BY <1>5, <1>20, <3>1
        <5> QED
          BY <5>2, <5>3 DEF PtrTo
      <4> QED
        BY <4>3, <4>4
    <3>2. CASE j >= k
      <4>1. PICK m \in 1 .. Len(c) : m = j + 1 /\ d[j] = c[m] /\ m > k /\ m > 1 /\ m - 1 = j
        BY <1>5, <1>20, <3>2
      <4>2. tab.next[c[m]] = After(c, m) /\ tab.prev[c[m]] = NextPtr(c[j])
        BY <1>3, <4>1 DEF Linked, PtrTo
      <4>3. t.next[d[j]] = After(d, j)
        <5>1. k > 1 => c[m] # c[k - 1]
          BY <1>3, <1>12, <4>1 DEF ChainOf
        <5>2. t.next[d[j]] = After(c, m)
          BY <1>17, <3>0, <4>1, <4>2, <5>1
        <5>3. j < Len(d) <=> m < Len(c)
          BY <1>5, <4>1
        <5>4. j < Len(d) => d[j + 1] = c[m + 1]
          BY <1>5, <1>20, <3>2, <4>1
        <5> QED
          BY <5>2, <5>3, <5>4 DEF After
      <4>4. t.prev[d[j]] = PtrTo(i, d, j)
        <5>1. CASE j = k
          <6>1. c[m] = after /\ t.prev[d[j]] = p
            BY <1>5, <1>12, <1>16, <3>0, <4>1, <5>1
          <6>2. k > 1 => d[k - 1] = c[k - 1]
            BY <1>5, <1>20, <5>1
          <6> QED
            BY <1>5, <1>12, <5>1, <6>1, <6>2 DEF PtrTo
        <5>2. CASE j > k
          <6>1. k < Len(c) /\ after = c[k + 1] /\ k + 1 \in 1 .. Len(c) /\ k + 1 # m
            BY <1>5, <1>12, <4>1, <5>2
          <6>2. c[m] # after
            BY <1>3, <6>1 DEF ChainOf
          <6>3. t.prev[d[j]] = NextPtr(c[j])
            BY <1>16, <3>0, <4>1, <4>2, <6>2
          <6>4. j # 1 /\ d[j - 1] = c[j]
            BY <1>5, <1>20, <4>1, <5>2
          <6> QED
            BY <6>3, <6>4 DEF PtrTo
        <5> QED
          BY <3>2, <5>1, <5>2
      <4> QED
        BY <4>3, <4>4
    <3> QED
      BY <1>5, <3>1, <3>2
  <2> QED
    BY <2>1, <2>2 DEF Linked
<1>23. Counted(t, i, d)
  BY <1>3, <1>5, <1>8, <1>14 DEF Counted
<1>24. ASSUME NEW j \in 0 .. n - 1, j # i
       PROVE  ChainOf(n, S \ {s}, j, L[j]) /\ Linked(t, j, L[j]) /\ Counted(t, j, L[j])
  <2>1. ChainOf(n, S, j, L[j]) /\ Linked(tab, j, L[j]) /\ Counted(tab, j, L[j])
    BY DEF Structured
  <2>2. \A m \in 1 .. Len(L[j]) : /\ L[j][m] \in S \ {s}
                                  /\ t.next[L[j][m]] = tab.next[L[j][m]]
                                  /\ t.prev[L[j][m]] = tab.prev[L[j][m]]
    <3> SUFFICES ASSUME NEW m \in 1 .. Len(L[j]), NEW x, x = L[j][m]
                 PROVE  x \in S \ {s} /\ t.next[x] = tab.next[x] /\ t.prev[x] = tab.prev[x]
      OBVIOUS
    <3>1. x \in S /\ x % n = j
      BY <2>1 DEF ChainOf
    <3>2. x \in Ids \ {s} /\ x # after
      BY <1>1, <1>16, <1>24, <3>1, NullIsOther DEF Structured
    <3>3. k > 1 => x # c[k - 1]
      BY <1>11, <1>12, <1>24, <3>1
    <3> QED
      BY <1>16, <1>17, <3>1, <3>2, <3>3
  <2>3. Linked(t, j, L[j])
    BY <1>17, <1>24, <2>1, <2>2 DEF Linked
  <2>4. Counted(t, j, L[j])
    BY <1>14, <2>1 DEF Counted
  <2>5. ChainOf(n, S \ {s}, j, L[j])
    BY <2>1, <2>2 DEF ChainOf
  <2> QED
    BY <2>3, <2>4, <2>5
<1>25. ASSUME NEW x \in S \ {s} PROVE InChain(M[x % n], x)
  <2>1. x \in S /\ x # s /\ x \in Ids /\ x % n \in 0 .. n - 1
    BY <1>0, IndexIn DEF Structured
  <2>2. CASE x % n = i
    <3>1. PICK m \in 1 .. Len(c) : c[m] = x /\ m # k
      BY <1>2, <1>4, <2>1, <2>2 DEF Structured, InChain
    <3>2. CASE m < k
      <4>1. m \in 1 .. Len(d) /\ d[m] = x
        BY <1>5, <1>20, <3>1, <3>2
      <4> QED
        BY <1>19, <2>2, <4>1 DEF InChain
    <3>3. CASE m > k
      <4>1. m - 1 \in 1 .. Len(d) /\ d[m - 1] = x
        BY <1>5, <1>20, <3>1, <3>3
      <4> QED
        BY <1>19, <2>2, <4>1 DEF InChain
    <3> QED
      BY <3>1, <3>2, <3>3
  <2>3. CASE x % n # i
    <3>1. InChain(L[x % n], x)
      BY <2>1 DEF Structured
    <3> QED
      BY <1>19, <2>1, <2>3, <3>1
  <2> QED
    BY <2>2, <2>3
<1>26. Structured(t, n, S \ {s}, M)
  <2>1. \A j \in 0 .. n - 1 : ChainOf(n, S \ {s}, j, M[j]) /\ Linked(t, j, M[j]) /\ Counted(t, j, M[j])
    BY <1>19, <1>21, <1>22, <1>23, <1>24
  <2>2. S \ {s} \subseteq Ids
    BY DEF Structured
  <2> QED
    BY <1>0, <1>14, <1>19, <1>25, <2>1, <2>2 DEF Structured
<1>27. \A x \in Ids \ S : t.next[x] = tab.next[x] /\ t.prev[x] = tab.prev[x]
  <2> SUFFICES ASSUME NEW x \in Ids \ S PROVE t.next[x] = tab.next[x] /\ t.prev[x] = tab.prev[x]
    OBVIOUS
  <2>1. x \in Ids \ {s} /\ x # after /\ (k > 1 => x # c[k - 1])
    BY <1>11, <1>12, <1>16, NullIsOther
  <2> QED
    BY <1>16, <1>17, <2>1
<1> QED
  BY <1>6, <1>14, <1>15, <1>26, <1>27 DEF SameBut, Unlisted

-----------------------------------------------------------------------------
(* Following the links *)

(* c[k] and what is linked to it, to the end, is c from k on. *)
LEMMA ChainIs ==
  ASSUME NEW n \in Nat, NEW tab, NEW S, NEW L, Structured(tab, n, S, L),
         \A x \in Ids \ S : tab.next[x] = Null
  PROVE  \A i \in 0 .. n - 1 : Chain(tab, tab.first[i]) = L[i]
<1> DEFINE E(f) == [x \in Ids \cup {Null} |-> IF x = Null THEN <<>> ELSE <<x>> \o f[tab.next[x]]]
           at(x) == CHOOSE k \in 1 .. Len(L[x % n]) : L[x % n][k] = x
           F == [x \in Ids \cup {Null} |->
                   IF x = Null THEN <<>>
                   ELSE IF x \in S THEN SubSeq(L[x % n], at(x), Len(L[x % n])) ELSE <<x>>]
           from == CHOOSE f : f = E(f)
<1>0. S \subseteq Ids /\ Null \notin Ids /\ tab.next \in [Ids -> Ids \cup {Null}]
  BY NullIsOther DEF Structured, Tables
<1>1. \A x \in S : /\ x % n \in 0 .. n - 1 /\ n # 0
                   /\ at(x) \in 1 .. Len(L[x % n]) /\ L[x % n][at(x)] = x
  <2> SUFFICES ASSUME NEW x \in S
               PROVE  /\ x % n \in 0 .. n - 1 /\ n # 0
                      /\ at(x) \in 1 .. Len(L[x % n]) /\ L[x % n][at(x)] = x
    OBVIOUS
  <2>1. n # 0 /\ InChain(L[x % n], x)
    BY DEF Structured
  <2>2. x % n \in 0 .. n - 1
    BY <1>0, <2>1, IndexIn
  <2> QED
    BY <2>1, <2>2 DEF InChain
<1> HIDE DEF at
<1>2. ASSUME NEW x \in S
      PROVE  F[x] = <<x>> \o F[tab.next[x]]
  <2>1. PICK i \in 0 .. n - 1 : i = x % n
    BY <1>1
  <2>2. PICK c \in Seq(Ids) : c = L[i]
    BY DEF Structured
  <2>3. PICK k \in 1 .. Len(c) : k = at(x) /\ c[k] = x
    BY <1>1, <2>1, <2>2
  <2>4. ChainOf(n, S, i, c) /\ Linked(tab, i, c)
    BY <2>2 DEF Structured
  <2>5. PICK m \in Nat : m = Len(c)
    BY LenProperties
  <2>6. F[x] = SubSeq(c, k, m)
    BY <1>0, <2>1, <2>2, <2>3, <2>5
  <2>7. SubSeq(c, k, m) = <<x>> \o SubSeq(c, k + 1, m)
    <3>1. m \in k .. Len(c)
      BY <2>5
    <3>2. SubSeq(c, k, m) = <<c[k]>> \o SubSeq(c, k + 1, m)
      BY <3>1, SubSeqRecursiveFirst
    <3> QED
      BY <2>3, <3>2
  <2>8. tab.next[x] = After(c, k)
    BY <2>3, <2>4 DEF Linked
  <2>9. F[After(c, k)] = SubSeq(c, k + 1, m)
    <3>1. CASE k < m
      <4>1. PICK y : y = c[k + 1] /\ y = After(c, k)
        BY <2>5, <3>1 DEF After
      <4>2. k + 1 \in 1 .. Len(c)
        BY <2>5, <3>1
      <4>3. y \in S /\ y % n = i
        BY <2>4, <4>1, <4>2 DEF ChainOf
      <4>4. at(y) = k + 1
        <5>1. at(y) \in 1 .. Len(c) /\ c[at(y)] = c[k + 1]
          BY <1>1, <2>2, <4>1, <4>3
        <5> QED
          BY <2>4, <4>2, <5>1 DEF ChainOf
      <4> QED
        BY <1>0, <2>2, <2>5, <4>1, <4>3, <4>4
    <3>2. CASE ~(k < m)
      <4>1. After(c, k) = Null /\ m < k + 1
        BY <2>5, <3>2 DEF After
      <4>2. SubSeq(c, k + 1, m) = <<>>
        BY <2>5, <4>1, SubSeqEmpty
      <4> QED
        BY <4>1, <4>2
    <3> QED
      BY <3>1, <3>2
  <2> HIDE DEF F
  <2> QED
    BY <2>6, <2>7, <2>8, <2>9
<1>3. ASSUME NEW x \in Ids \ S
      PROVE  F[x] = <<x>> \o F[tab.next[x]]
  <2>1. F[x] = <<x>> /\ F[tab.next[x]] = <<>>
    BY <1>0
  <2>2. <<x>> \o <<>> = <<x>>
    <3>1. <<x>> \in Seq(Ids)
      OBVIOUS
    <3> QED
      BY <3>1, ConcatEmptySeq
  <2> QED
    BY <2>1, <2>2
<1>4. F = E(F)
  <2>1. F[Null] = <<>>
    OBVIOUS
  <2>2. \A x \in Ids : F[x] = <<x>> \o F[tab.next[x]]
    BY <1>2, <1>3
  <2>3. F = [x \in Ids \cup {Null} |-> F[x]]
    OBVIOUS
  <2> HIDE DEF F
  <2> QED
    BY <1>0, <2>1, <2>2, <2>3
<1>5. from = E(from)
  <2> HIDE DEF E, F
  <2> QED
    BY <1>4
<1>6. \A s : Chain(tab, s) = from[s]
  BY DEF Chain
<1> HIDE DEF from
<1>7. from[Null] = <<>> /\ \A x \in Ids : from[x] = <<x>> \o from[tab.next[x]]
  BY <1>0, <1>5
<1> SUFFICES ASSUME NEW i \in 0 .. n - 1 PROVE from[tab.first[i]] = L[i]
  BY <1>6
<1>8. PICK c \in Seq(Ids) : c = L[i]
  BY DEF Structured
<1>9. ChainOf(n, S, i, c) /\ Linked(tab, i, c)
  BY <1>8 DEF Structured
<1>10. PICK m \in Nat : m = Len(c)
  BY LenProperties
<1> DEFINE T == {d \in Nat : d <= m => from[After(c, m - d)] = SubSeq(c, (m - d) + 1, m)}
<1>11. 0 \in T
  <2>1. After(c, m) = Null
    BY <1>10 DEF After
  <2>2. SubSeq(c, m + 1, m) = <<>>
    BY SubSeqEmpty
  <2>3. m - 0 = m
    OBVIOUS
  <2> QED
    BY <1>7, <2>1, <2>2, <2>3
<1>12. \A d \in Nat : d \in T => d + 1 \in T
  <2> SUFFICES ASSUME NEW d \in Nat, d \in T, d + 1 <= m
               PROVE  from[After(c, m - (d + 1))] = SubSeq(c, (m - (d + 1)) + 1, m)
    OBVIOUS
  <2>1. PICK k \in 1 .. Len(c) : k = m - d /\ m - (d + 1) = k - 1 /\ (k - 1) + 1 = k
    <3>1. m - d \in 1 .. Len(c)
      BY <1>10
    <3> QED
      BY <3>1
  <2>2. After(c, k - 1) = c[k] /\ c[k] \in Ids
    <3>1. c[k] \in Ids
      BY ElementOfSeq
    <3> QED
      BY <1>10, <2>1, <3>1 DEF After
  <2>3. from[c[k]] = <<c[k]>> \o from[After(c, k)]
    BY <1>7, <1>9, <2>2 DEF Linked
  <2>4. from[After(c, k)] = SubSeq(c, k + 1, m)
    BY <2>1
  <2>5. SubSeq(c, k, m) = <<c[k]>> \o SubSeq(c, k + 1, m)
    <3>1. m \in k .. Len(c)
      BY <1>10
    <3> QED
      BY <3>1, SubSeqRecursiveFirst
  <2> QED
    BY <2>1, <2>2, <2>3, <2>4, <2>5
<1>13. m \in T
  <2> HIDE DEF T
  <2> QED
    BY <1>11, <1>12, Induction
<1>14. from[After(c, 0)] = SubSeq(c, 1, m)
  <2>1. m - m = 0 /\ 0 + 1 = 1
    OBVIOUS
  <2> QED
    BY <1>13, <2>1
<1>15. SubSeq(c, 1, m) = c
  BY <1>10, SubSeqFull
<1> QED
  BY <1>8, <1>9, <1>14, <1>15 DEF Linked

-----------------------------------------------------------------------------
(* Walking all chains *)

(* w has the objects of A, each of them once. *)
Lists(w, A) ==
  /\ w \in Seq(Ids)
  /\ \A k \in 1 .. Len(w) : w[k] \in A
  /\ \A j, k \in 1 .. Len(w) : w[j] = w[k] => j = k
  /\ \A s \in A : InChain(w, s)

LEMMA ListsConcat ==
  ASSUME NEW w, NEW A, NEW v, NEW B, Lists(w, A), Lists(v, B), A \cap B = {}
  PROVE  Lists(w \o v, A \cup B)
<1>1. w \in Seq(Ids) /\ v \in Seq(Ids)
  BY DEF Lists
<1>2. PICK a \in Nat, b \in Nat : a = Len(w) /\ b = Len(v)
  BY <1>1, LenProperties
<1>3. PICK u \in Seq(Ids) : /\ u = w \o v /\ Len(u) = a + b
                            /\ \A k \in 1 .. a + b : u[k] = IF k <= a THEN w[k] ELSE v[k - a]
  <2>1. /\ w \o v \in Seq(Ids) /\ Len(w \o v) = Len(w) + Len(v)
        /\ \A k \in 1 .. Len(w) + Len(v) : (w \o v)[k] = IF k <= Len(w) THEN w[k] ELSE v[k - Len(w)]
    BY <1>1, ConcatProperties
  <2> QED
    BY <1>2, <2>1
<1>4. \A k \in 1 .. a + b : /\ k <= a => u[k] = w[k] /\ w[k] \in A /\ k \in 1 .. Len(w)
                            /\ k > a => u[k] = v[k - a] /\ v[k - a] \in B /\ k - a \in 1 .. Len(v)
  BY <1>2, <1>3 DEF Lists
<1>5. ASSUME NEW j \in 1 .. a + b, NEW k \in 1 .. a + b, u[j] = u[k] PROVE j = k
  <2>1. CASE j <= a /\ k <= a
    BY <1>4, <1>5, <2>1 DEF Lists
  <2>2. CASE j > a /\ k > a
    <3>1. j - a = k - a
      BY <1>4, <1>5, <2>2 DEF Lists
    <3> QED
      BY <3>1
  <2>3. CASE j <= a /\ k > a
    BY <1>4, <1>5, <2>3
  <2>4. CASE j > a /\ k <= a
    BY <1>4, <1>5, <2>4
  <2> QED
    BY <2>1, <2>2, <2>3, <2>4
<1>6. ASSUME NEW s \in A PROVE InChain(u, s)
  <2>1. PICK k \in 1 .. a : w[k] = s
    BY <1>2 DEF Lists, InChain
  <2>2. k \in 1 .. Len(u) /\ u[k] = s
    BY <1>3, <1>4, <2>1
  <2> QED
    BY <2>2 DEF InChain
<1>7. ASSUME NEW s \in B PROVE InChain(u, s)
  <2>1. PICK k \in 1 .. b : v[k] = s
    BY <1>2 DEF Lists, InChain
  <2>2. a + k \in 1 .. Len(u) /\ a + k > a /\ (a + k) - a = k
    BY <1>3
  <2>3. u[a + k] = s
    BY <1>3, <1>4, <2>1, <2>2
  <2> QED
    BY <2>2, <2>3 DEF InChain
<1>8. \A k \in 1 .. a + b : u[k] \in A \cup B
  BY <1>4
<1>9. Lists(u, A \cup B)
  BY <1>3, <1>5, <1>6, <1>7, <1>8 DEF Lists
<1> QED
  BY <1>3, <1>9

LEMMA ListsCount ==
  ASSUME NEW w, NEW A, Lists(w, A)
  PROVE  ToSet(w) = A /\ IsFiniteSet(A) /\ Cardinality(A) = Len(w)
<1>1. w \in Seq(Ids) /\ Len(w) \in Nat /\ DOMAIN w = 1 .. Len(w) /\ w \in [1 .. Len(w) -> A]
  <2>1. w \in Seq(Ids)
    BY DEF Lists
  <2>2. Len(w) \in Nat /\ DOMAIN w = 1 .. Len(w) /\ w \in [1 .. Len(w) -> Ids]
    BY <2>1, LenProperties
  <2> QED
    BY <2>1, <2>2 DEF Lists
<1>2. \A s \in A : \E k \in 1 .. Len(w) : w[k] = s
  BY DEF Lists, InChain
<1>3. w \in Bijection(1 .. Len(w), A)
  BY <1>1, <1>2 DEF Bijection, Injection, Surjection, IsInjective, Lists
<1>4. PICK m \in Nat : m = Len(w)
  BY <1>1
<1>5. ExistsBijection(1 .. m, A)
  BY <1>3, <1>4 DEF ExistsBijection
<1>6. Cardinality(A) = m
  BY <1>5, FS_CountingElements
<1>7. IsFiniteSet(A)
  BY <1>5, FS_NatBijection
<1>8. ToSet(w) = A
  BY <1>1, <1>2 DEF ToSet, Lists
<1> QED
  BY <1>4, <1>6, <1>7, <1>8

LEMMA WalkIs ==
  ASSUME NEW n \in Nat, NEW tab, NEW S, NEW L, Structured(tab, n, S, L),
         \A x \in Ids \ S : tab.next[x] = Null
  PROVE  Lists(Walk(tab), S)
<1> DEFINE E(f) == [i \in 0 .. tab.buckets |->
                      IF i = 0 THEN <<>> ELSE f[i - 1] \o Chain(tab, tab.first[i - 1])]
           step == [p \in (1 .. n) \X Seq(Ids) |-> p[2] \o L[p[1] - 1]]
           walked == CHOOSE f : f = E(f)
<1>1. tab.buckets = n
  BY DEF Structured, Tables
<1>2. \A i \in 1 .. n : i - 1 \in 0 .. n - 1 /\ L[i - 1] \in Seq(Ids)
                        /\ Chain(tab, tab.first[i - 1]) = L[i - 1]
  <2> SUFFICES ASSUME NEW i \in 1 .. n
               PROVE  i - 1 \in 0 .. n - 1 /\ L[i - 1] \in Seq(Ids)
                      /\ Chain(tab, tab.first[i - 1]) = L[i - 1]
    OBVIOUS
  <2>1. PICK j \in 0 .. n - 1 : j = i - 1
    <3>1. i - 1 \in 0 .. n - 1
      OBVIOUS
    <3> QED
      BY <3>1
  <2>2. \A k \in 0 .. n - 1 : Chain(tab, tab.first[k]) = L[k]
    BY ChainIs
  <2>3. L[j] \in Seq(Ids)
    BY DEF Structured
  <2> QED
    BY <2>1, <2>2, <2>3
<1>3. walked = E(walked)
  <2>1. step \in [(1 .. n) \X Seq(Ids) -> Seq(Ids)]
    <3>1. \A p \in (1 .. n) \X Seq(Ids) : p[2] \o L[p[1] - 1] \in Seq(Ids)
      <4> SUFFICES ASSUME NEW p \in (1 .. n) \X Seq(Ids) PROVE p[2] \o L[p[1] - 1] \in Seq(Ids)
        OBVIOUS
      <4>1. p[1] \in 1 .. n /\ p[2] \in Seq(Ids) /\ L[p[1] - 1] \in Seq(Ids)
        BY <1>2
      <4> QED
        BY <4>1, ConcatProperties
    <3> QED
      BY <3>1
  <2>2. PICK C, e, g : C = Seq(Ids) /\ e = <<>> /\ g = step
    OBVIOUS
  <2>3. e \in C /\ g \in [(1 .. n) \X C -> C]
    <3>1. <<>> \in Seq(Ids)
      BY EmptySeq
    <3> QED
      BY <2>1, <2>2, <3>1
  <2>4. CanRecurUpTo(n, C, e, g)
    BY <2>3, BoundedRecursion
  <2>5. PICK f \in [0 .. n -> C] : f = [k \in 0 .. n |-> IF k = 0 THEN e ELSE g[<<k, f[k - 1]>>]]
    BY <2>4 DEF CanRecurUpTo
  <2>6. \A k \in 0 .. n : k # 0 => f[k] = f[k - 1] \o Chain(tab, tab.first[k - 1])
    <3> SUFFICES ASSUME NEW k \in 0 .. n, k # 0
                 PROVE  f[k] = f[k - 1] \o Chain(tab, tab.first[k - 1])
      OBVIOUS
    <3>1. k \in 1 .. n /\ k - 1 \in 0 .. n
      OBVIOUS
    <3>2. <<k, f[k - 1]>> \in (1 .. n) \X Seq(Ids)
      BY <2>2, <2>5, <3>1
    <3>3. f[k] = step[<<k, f[k - 1]>>]
      BY <2>2, <2>5
    <3> QED
      BY <1>2, <3>1, <3>2, <3>3
  <2>7. f[0] = <<>>
    BY <2>2, <2>5
  <2>8. f = E(f)
    BY <1>1, <2>5, <2>6, <2>7
  <2> HIDE DEF E
  <2> QED
    BY <2>8
<1>4. Walk(tab) = walked[n]
  BY <1>1 DEF Walk
<1> HIDE DEF walked
<1>5. walked[0] = <<>> /\ \A i \in 1 .. n : walked[i] = walked[i - 1] \o L[i - 1]
  <2>1. walked[0] = <<>>
    BY <1>1, <1>3
  <2>2. \A i \in 1 .. n : walked[i] = walked[i - 1] \o Chain(tab, tab.first[i - 1])
    BY <1>1, <1>3
  <2> QED
    BY <1>2, <2>1, <2>2
<1> DEFINE Below(i) == {s \in S : s % n < i}
           T == {i \in Nat : i <= n => Lists(walked[i], Below(i))}
<1>6. \A s \in S : n # 0 /\ s % n \in 0 .. n - 1 /\ InChain(L[s % n], s)
  <2> SUFFICES ASSUME NEW s \in S PROVE n # 0 /\ s % n \in 0 .. n - 1 /\ InChain(L[s % n], s)
    OBVIOUS
  <2>1. n # 0 /\ s \in Ids /\ InChain(L[s % n], s)
    BY DEF Structured
  <2> QED
    BY <2>1, IndexIn
<1>7. 0 \in T
  <2>1. Below(0) = {}
    BY <1>6
  <2>2. Lists(<<>>, {})
    <3>1. <<>> \in Seq(Ids) /\ Len(<<>>) = 0
      BY EmptySeq
    <3> QED
      BY <3>1 DEF Lists
  <2> QED
    BY <1>5, <2>1, <2>2
<1>8. \A i \in Nat : i \in T => i + 1 \in T
  <2> SUFFICES ASSUME NEW i \in Nat, i + 1 <= n, Lists(walked[i], Below(i))
               PROVE  Lists(walked[i + 1], Below(i + 1))
    OBVIOUS
  <2>1. i \in 0 .. n - 1 /\ i + 1 \in 1 .. n /\ (i + 1) - 1 = i
    OBVIOUS
  <2>2. ChainOf(n, S, i, L[i])
    BY <2>1 DEF Structured
  <2> DEFINE B == {s \in S : s % n = i}
  <2>3. Lists(L[i], B)
    <3>1. \A s \in B : InChain(L[i], s)
      BY <1>6
    <3> QED
      BY <2>2, <3>1 DEF ChainOf, Lists
  <2>4. Below(i) \cap B = {} /\ Below(i + 1) = Below(i) \cup B
    <3>1. \A s \in S : s % n \in Int
      BY <1>6
    <3> QED
      BY <3>1
  <2>5. walked[i + 1] = walked[i] \o L[i]
    BY <1>5, <2>1
  <2> HIDE DEF B, Below
  <2> QED
    BY <2>3, <2>4, <2>5, ListsConcat
<1>9. n \in T
  <2> HIDE DEF T
  <2> QED
    BY <1>7, <1>8, Induction
<1>10. Below(n) = S
  BY <1>6
<1> QED
  BY <1>4, <1>9, <1>10

-----------------------------------------------------------------------------
(* A new list of buckets *)

LEMMA EmptyListIs ==
  ASSUME NEW n \in Nat \ {0}, NEW m \in Nat, NEW tab \in Tables(m)
  PROVE  /\ Structured(EmptyList(tab, n), n, {}, [i \in 0 .. n - 1 |-> <<>>])
         /\ SameBut(tab, EmptyList(tab, n), {})
<1> DEFINE t == EmptyList(tab, n)
           L == [i \in 0 .. n - 1 |-> <<>>]
<1>1. /\ t.buckets = n /\ t.usage = 0 /\ t.counter = tab.counter
      /\ t.first = [i \in 0 .. n - 1 |-> Null] /\ t.count = [i \in 0 .. n - 1 |-> 0]
      /\ t.next = tab.next /\ t.prev = tab.prev
  BY DEF EmptyList, Tables
<1>2. t \in Tables(n)
  <2>1. [i \in 0 .. n - 1 |-> Null] \in [0 .. n - 1 -> Ids \cup {Null}]
        /\ [i \in 0 .. n - 1 |-> 0] \in [0 .. n - 1 -> Nat]
    OBVIOUS
  <2> QED
    BY <2>1 DEF EmptyList, Tables
<1> HIDE DEF t
<1>3. \A i \in 0 .. n - 1 : ChainOf(n, {}, i, L[i]) /\ Linked(t, i, L[i]) /\ Counted(t, i, L[i])
  <2>1. <<>> \in Seq(Ids) /\ Len(<<>>) = 0
    BY EmptySeq
  <2> QED
    BY <1>1, <2>1 DEF ChainOf, Linked, Counted, After
<1>4. L \in [0 .. n - 1 -> Seq(Ids)]
  BY EmptySeq
<1>5. SameBut(tab, t, {})
  BY <1>1 DEF SameBut
<1> QED
  BY <1>2, <1>3, <1>4, <1>5 DEF Structured, t

LEMMA Rebuilding ==
  ASSUME NEW n \in Nat \ {0}, NEW m \in Nat, NEW tab, NEW S, NEW L, Structured(tab, m, S, L),
         \A x \in Ids \ S : tab.next[x] = Null
  PROVE  /\ \E M : Structured(NewBuckets(tab, n), n, S, M)
         /\ SameBut(tab, NewBuckets(tab, n), S)
<1>1. PICK w : w = Walk(tab)
  OBVIOUS
<1>2. Lists(w, S)
  BY <1>1, WalkIs
<1>3. w \in Seq(Ids) /\ S \subseteq Ids /\ tab \in Tables(m)
  BY <1>2 DEF Lists, Structured
<1>4. PICK len \in Nat : len = Len(w)
  BY <1>3, LenProperties
<1>5. \A k \in 1 .. len : w[k] \in Ids /\ w[k] \in S
  BY <1>2, <1>3, <1>4 DEF Lists
<1> DEFINE E(f) == [k \in 0 .. Len(w) |->
                      IF k = 0 THEN EmptyList(tab, n) ELSE ToBuckets(f[k - 1], w[k])]
           moved == CHOOSE f : f = E(f)
           step == [p \in (1 .. len) \X Tables(n) |-> ToBuckets(p[2], w[p[1]])]
<1>6. moved = E(moved)
  <2>1. step \in [(1 .. len) \X Tables(n) -> Tables(n)]
    <3> SUFFICES ASSUME NEW p \in (1 .. len) \X Tables(n)
                 PROVE  ToBuckets(p[2], w[p[1]]) \in Tables(n)
      OBVIOUS
    <3>1. PICK t \in Tables(n), s \in Ids : t = p[2] /\ s = w[p[1]]
      BY <1>5
    <3>2. Entered(t, n, s, s % n, ToBuckets(t, s))
      BY ToBucketsFields
    <3> QED
      BY <3>1, <3>2 DEF Entered
  <2>2. EmptyList(tab, n) \in Tables(n)
    BY <1>3, EmptyListIs DEF Structured
  <2>3. PICK C, e, g : C = Tables(n) /\ e = EmptyList(tab, n) /\ g = step
    OBVIOUS
  <2>4. e \in C /\ g \in [(1 .. len) \X C -> C]
    BY <2>1, <2>2, <2>3
  <2>5. CanRecurUpTo(len, C, e, g)
    BY <2>4, BoundedRecursion
  <2>6. PICK f \in [0 .. len -> C] : f = [k \in 0 .. len |-> IF k = 0 THEN e ELSE g[<<k, f[k - 1]>>]]
    BY <2>5 DEF CanRecurUpTo
  <2>7. \A k \in 0 .. len : k # 0 => f[k] = ToBuckets(f[k - 1], w[k])
    <3> SUFFICES ASSUME NEW k \in 0 .. len, k # 0 PROVE f[k] = ToBuckets(f[k - 1], w[k])
      OBVIOUS
    <3>1. k \in 1 .. len /\ k - 1 \in 0 .. len
      OBVIOUS
    <3>2. <<k, f[k - 1]>> \in (1 .. len) \X Tables(n)
      BY <2>3, <2>6, <3>1
    <3>3. f[k] = step[<<k, f[k - 1]>>]
      BY <2>3, <2>6
    <3> QED
      BY <3>2, <3>3
  <2>8. f[0] = EmptyList(tab, n)
    BY <2>3, <2>6
  <2>9. f = E(f)
    BY <1>4, <2>6, <2>7, <2>8
  <2> HIDE DEF E
  <2> QED
    BY <2>9
<1>7. NewBuckets(tab, n) = moved[len]
  BY <1>1, <1>4 DEF NewBuckets
<1> HIDE DEF moved
<1>8. moved[0] = EmptyList(tab, n) /\ \A k \in 1 .. len : moved[k] = ToBuckets(moved[k - 1], w[k])
  <2>1. moved[0] = EmptyList(tab, n)
    BY <1>4, <1>6
  <2>2. \A k \in 1 .. len : moved[k] = ToBuckets(moved[k - 1], w[k])
    BY <1>4, <1>6
  <2> QED
    BY <2>1, <2>2
<1> DEFINE Done(k) == {w[j] : j \in 1 .. k}
           P(k) == (\E M : Structured(moved[k], n, Done(k), M)) /\ SameBut(tab, moved[k], S)
           T == {k \in Nat : k <= len => P(k)}
<1>9. 0 \in T
  <2>1. Done(0) = {}
    OBVIOUS
  <2>2. /\ Structured(moved[0], n, {}, [i \in 0 .. n - 1 |-> <<>>])
        /\ SameBut(tab, moved[0], {})
    BY <1>3, <1>8, EmptyListIs
  <2>3. SameBut(tab, moved[0], S)
    BY <2>2 DEF SameBut
  <2> HIDE DEF Done
  <2> QED
    BY <2>1, <2>2, <2>3
<1>10. \A k \in Nat : k \in T => k + 1 \in T
  <2> SUFFICES ASSUME NEW k \in Nat, k + 1 <= len, P(k) PROVE P(k + 1)
    <3> HIDE DEF P
    <3> QED
      OBVIOUS
  <2>11. PICK M : Structured(moved[k], n, Done(k), M) /\ SameBut(tab, moved[k], S)
    OBVIOUS
  <2>1. k + 1 \in 1 .. len /\ (k + 1) - 1 = k
    OBVIOUS
  <2>2. PICK s : s = w[k + 1]
    OBVIOUS
  <2>3. s \in Ids /\ s \in S
    BY <1>5, <2>1, <2>2
  <2>4. s \notin Done(k)
    <3> SUFFICES ASSUME NEW j \in 1 .. k, w[j] = w[k + 1] PROVE FALSE
      BY <2>2
    <3>1. j \in 1 .. Len(w) /\ k + 1 \in 1 .. Len(w) /\ j # k + 1
      BY <1>4, <2>1
    <3> QED
      BY <1>2, <3>1 DEF Lists
  <2>5. Done(k + 1) = Done(k) \cup {s} /\ Done(k + 1) \subseteq S
    <3>1. \A j \in 1 .. k + 1 : j \in 1 .. k \/ j = k + 1
      OBVIOUS
    <3>2. \A j \in 1 .. k + 1 : w[j] \in S
      BY <1>5, <2>1
    <3> QED
      BY <2>2, <3>1, <3>2
  <2>6. moved[k + 1] = ToBuckets(moved[k], s)
    BY <1>8, <2>1, <2>2
  <2>7. PICK D, t : D = Done(k) /\ t = moved[k]
    OBVIOUS
  <2>8. Structured(t, n, D, M) /\ s \in Ids \ D
    BY <2>3, <2>4, <2>7, <2>11
  <2>9. /\ \E N : Structured(ToBuckets(t, s), n, D \cup {s}, N)
        /\ SameBut(t, ToBuckets(t, s), D \cup {s})
    BY <2>8, Insertion
  <2>10. SameBut(tab, moved[k + 1], S)
    BY <2>5, <2>6, <2>7, <2>9, <2>11 DEF SameBut
  <2> HIDE DEF Done
  <2> QED
    BY <2>5, <2>6, <2>7, <2>9, <2>10
<1>11. len \in T
  <2> HIDE DEF T
  <2> QED
    BY <1>9, <1>10, Induction
<1>12. Done(len) = S
  BY <1>2, <1>4, <1>5 DEF Lists, InChain
<1> HIDE DEF Done
<1> QED
  BY <1>7, <1>11, <1>12

-----------------------------------------------------------------------------
(* The operations on a table that is sound *)

(* A table has the objects of S in its chains and no link of another one. *)
Sound(tab, S) ==
  /\ \E n \in Nat : \E L : Structured(tab, n, S, L)
  /\ \A x \in Ids \ S : Unlisted(tab, x)

LEMMA SoundTypes ==
  ASSUME NEW tab, NEW S, Sound(tab, S)
  PROVE  /\ S \subseteq Ids /\ tab.buckets \in Nat /\ tab.counter \in Nat
         /\ tab \in Tables(tab.buckets)
         /\ \E L : Structured(tab, tab.buckets, S, L)
<1>0. PICK n \in Nat : \E L : Structured(tab, n, S, L)
  BY DEF Sound
<1>1. PICK L : Structured(tab, n, S, L)
  BY <1>0
<1>2. tab \in Tables(n) /\ S \subseteq Ids
  BY <1>1 DEF Structured
<1>3. tab.buckets = n /\ tab.counter \in Nat
  BY <1>2 DEF Tables
<1> QED
  BY <1>1, <1>2, <1>3

LEMMA SoundListed ==
  ASSUME NEW tab, NEW S, Sound(tab, S)
  PROVE  {s \in Ids : InBucket(tab, s)} = S
<1>0. PICK n \in Nat : \E L : Structured(tab, n, S, L)
  BY DEF Sound
<1>1. PICK L : Structured(tab, n, S, L)
  BY <1>0
<1>2. S \subseteq Ids
  BY <1>1 DEF Structured
<1>3. ASSUME NEW s \in S PROVE InBucket(tab, s)
  <2>1. n # 0 /\ InChain(L[s % n], s)
    BY <1>1 DEF Structured
  <2>2. PICK i \in 0 .. n - 1 : i = s % n
    BY <1>2, <2>1, IndexIn
  <2>3. PICK k \in 1 .. Len(L[i]) : L[i][k] = s
    BY <2>1, <2>2 DEF InChain
  <2>4. tab.prev[s] = PtrTo(i, L[i], k)
    BY <1>1, <2>3 DEF Structured, Linked
  <2>5. L[i] \in Seq(Ids)
    BY <1>1 DEF Structured
  <2>6. k # 1 => L[i][k - 1] \in Int
    <3>1. k # 1 => k - 1 \in 1 .. Len(L[i])
      BY <2>5, LenProperties
    <3>2. k # 1 => L[i][k - 1] \in Ids
      BY <2>5, <3>1, ElementOfSeq
    <3> QED
      BY <3>2 DEF Ids
  <2> QED
    BY <2>4, <2>6, NullIsOther DEF PtrTo, InBucket
<1>4. \A s \in Ids \ S : ~InBucket(tab, s)
  BY DEF Sound, Unlisted, InBucket
<1> QED
  BY <1>2, <1>3, <1>4

LEMMA SoundNoTable == Sound(NoTable, {})
<1> DEFINE L == [i \in 0 .. 0 - 1 |-> <<>>]
<1>1. /\ NoTable.buckets = 0 /\ NoTable.first = <<>> /\ NoTable.count = <<>>
      /\ NoTable.next = [s \in Ids |-> Null] /\ NoTable.prev = [s \in Ids |-> Null]
  BY DEF NoTable
<1>2. NoTable \in Tables(0)
  <2>1. <<>> \in [0 .. 0 - 1 -> Ids \cup {Null}] /\ <<>> \in [0 .. 0 - 1 -> Nat]
    <3>1. \A A : <<>> \in [1 .. 0 -> A]
      <4> TAKE A
      <4>1. <<>> \in Seq(A) /\ Len(<<>>) = 0
        BY EmptySeq
      <4> QED
        BY <4>1, LenProperties
    <3>2. 1 .. 0 = 0 .. 0 - 1
      OBVIOUS
    <3> QED
      BY <3>1, <3>2
  <2>2. [s \in Ids |-> Null] \in [Ids -> Ids \cup {Null}]
        /\ [s \in Ids |-> Null] \in [Ids -> AnyPointer \cup {Null}]
    OBVIOUS
  <2> QED
    BY <2>1, <2>2 DEF NoTable, Tables
<1>3. L \in [0 .. 0 - 1 -> Seq(Ids)]
  BY EmptySeq
<1>4. Structured(NoTable, 0, {}, L)
  <2>1. \A i \in 0 .. 0 - 1 : FALSE
    OBVIOUS
  <2> HIDE DEF L
  <2> QED
    BY <1>2, <1>3, <2>1 DEF Structured
<1>5. \A x \in Ids : Unlisted(NoTable, x)
  BY <1>1 DEF Unlisted
<1> HIDE DEF L
<1> QED
  BY <1>4, <1>5 DEF Sound

LEMMA SoundInserted ==
  ASSUME NEW tab, NEW S, Sound(tab, S), tab.buckets # 0, NEW s \in Ids \ S
  PROVE  LET t == ToBuckets(tab, s)
         IN  Sound(t, S \cup {s}) /\ t.counter = tab.counter /\ t.buckets = tab.buckets
<1>1. PICK n, L : n \in Nat /\ n = tab.buckets /\ Structured(tab, n, S, L)
  BY SoundTypes
<1>2. n \in Nat \ {0}
  BY <1>1
<1>3. PICK t : t = ToBuckets(tab, s)
  OBVIOUS
<1>4. (\E M : Structured(t, n, S \cup {s}, M)) /\ SameBut(tab, t, S \cup {s})
  BY <1>1, <1>2, <1>3, Insertion
<1>5. t.buckets = n
  BY <1>4 DEF Structured, Tables
<1>6. \A x \in Ids \ (S \cup {s}) : Unlisted(t, x)
  BY <1>4 DEF SameBut, Unlisted, Sound
<1>7. Sound(t, S \cup {s}) /\ t.counter = tab.counter
  BY <1>1, <1>4, <1>6 DEF Sound, SameBut
<1> QED
  BY <1>1, <1>3, <1>5, <1>7

LEMMA SoundRemoved ==
  ASSUME NEW tab, NEW S, Sound(tab, S), NEW s \in S
  PROVE  LET t == Unlinked(tab, s)
         IN  Sound(t, S \ {s}) /\ t.counter = tab.counter /\ t.buckets = tab.buckets
<1>1. PICK n, L : n \in Nat /\ n = tab.buckets /\ Structured(tab, n, S, L)
  BY SoundTypes
<1>2. PICK t : t = Unlinked(tab, s)
  OBVIOUS
<1>3. (\E M : Structured(t, n, S \ {s}, M)) /\ SameBut(tab, t, S) /\ Unlisted(t, s)
  BY <1>1, <1>2, Removal
<1>4. t.buckets = n
  BY <1>3 DEF Structured, Tables
<1>5. \A x \in Ids \ (S \ {s}) : Unlisted(t, x)
  BY <1>3 DEF SameBut, Unlisted, Sound
<1>6. Sound(t, S \ {s}) /\ t.counter = tab.counter
  BY <1>1, <1>3, <1>5 DEF Sound, SameBut
<1> QED
  BY <1>1, <1>2, <1>4, <1>6

LEMMA SoundRebuilt ==
  ASSUME NEW tab, NEW S, Sound(tab, S), NEW n \in Nat \ {0}
  PROVE  LET t == NewBuckets(tab, n)
         IN  Sound(t, S) /\ t.counter = tab.counter /\ t.buckets = n
<1>1. PICK m, L : m \in Nat /\ m = tab.buckets /\ Structured(tab, m, S, L)
  BY SoundTypes
<1>2. PICK t : t = NewBuckets(tab, n)
  OBVIOUS
<1>3. \A x \in Ids \ S : tab.next[x] = Null
  BY DEF Sound, Unlisted
<1>4. (\E M : Structured(t, n, S, M)) /\ SameBut(tab, t, S)
  BY <1>1, <1>2, <1>3, Rebuilding
<1>5. t.buckets = n
  BY <1>4 DEF Structured, Tables
<1>6. \A x \in Ids \ S : Unlisted(t, x)
  BY <1>4 DEF SameBut, Unlisted, Sound
<1>7. Sound(t, S) /\ t.counter = tab.counter
  BY <1>4, <1>6 DEF Sound, SameBut
<1> QED
  BY <1>2, <1>5, <1>7

LEMMA SoundCounted ==
  ASSUME NEW tab, NEW S, Sound(tab, S), NEW c \in Nat
  PROVE  LET t == [tab EXCEPT !.counter = c]
         IN  Sound(t, S) /\ t.counter = c /\ t.buckets = tab.buckets
<1>0. PICK n \in Nat : \E L : Structured(tab, n, S, L)
  BY DEF Sound
<1>1. PICK L : Structured(tab, n, S, L)
  BY <1>0
<1>2. tab \in Tables(n)
  BY <1>1 DEF Structured
<1>3. PICK t : t = [tab EXCEPT !.counter = c]
  OBVIOUS
<1>4. /\ t \in Tables(n) /\ t.counter = c /\ t.buckets = tab.buckets
      /\ t.first = tab.first /\ t.count = tab.count /\ t.usage = tab.usage
      /\ t.next = tab.next /\ t.prev = tab.prev
  BY <1>2, <1>3 DEF Tables
<1>5. Structured(t, n, S, L)
  <2>1. \A i \in 0 .. n - 1 : Linked(t, i, L[i]) /\ Counted(t, i, L[i])
    BY <1>1, <1>4 DEF Structured, Linked, Counted
  <2> QED
    BY <1>1, <1>4, <2>1 DEF Structured
<1>6. \A x \in Ids \ S : Unlisted(t, x)
  BY <1>4 DEF Unlisted, Sound
<1>7. Sound(t, S)
  BY <1>5, <1>6 DEF Sound
<1> QED
  BY <1>3, <1>4, <1>7

-----------------------------------------------------------------------------
(* The calls of MtState_free() that have taken an object from the table *)

Owing(c) == {k \in DOMAIN c : c[k]}

LEMMA OwingIs ==
  ASSUME NEW c \in Seq(BOOLEAN)
  PROVE  /\ Owing(c) = {k \in 1 .. Len(c) : c[k]} /\ Len(c) \in Nat
         /\ IsFiniteSet(Owing(c)) /\ Cardinality(Owing(c)) \in Nat
<1>1. Owing(c) = {k \in 1 .. Len(c) : c[k]} /\ Len(c) \in Nat
  BY LenProperties DEF Owing
<1>2. IsFiniteSet(1 .. Len(c))
  BY <1>1, FS_Interval
<1>3. IsFiniteSet(Owing(c))
  <2>1. Owing(c) \in SUBSET (1 .. Len(c))
    BY <1>1
  <2> QED
    BY <1>2, <2>1, FS_Subset
<1> QED
  BY <1>1, <1>3, FS_CardinalityType

LEMMA OneMoreOwing ==
  ASSUME NEW c \in Seq(BOOLEAN), NEW b \in BOOLEAN
  PROVE  /\ Append(c, b) \in Seq(BOOLEAN)
         /\ b => Cardinality(Owing(Append(c, b))) = Cardinality(Owing(c)) + 1
         /\ ~b => Cardinality(Owing(Append(c, b))) = Cardinality(Owing(c))
<1>1. PICK d : d = Append(c, b)
  OBVIOUS
<1>2. PICK m \in Nat : m = Len(c)
  BY OwingIs
<1>3. d \in Seq(BOOLEAN) /\ Len(d) = m + 1 /\ (\A k \in 1 .. m : d[k] = c[k]) /\ d[m + 1] = b
  <2>1. /\ Append(c, b) \in Seq(BOOLEAN) /\ Len(Append(c, b)) = Len(c) + 1
        /\ \A k \in 1 .. Len(c) : Append(c, b)[k] = c[k]
        /\ Append(c, b)[Len(c) + 1] = b
    BY AppendProperties
  <2> QED
    BY <1>1, <1>2, <2>1
<1>4. Owing(c) = {k \in 1 .. m : c[k]} /\ IsFiniteSet(Owing(c))
  BY <1>2, OwingIs
<1>5. Owing(d) = {k \in 1 .. m + 1 : d[k]}
  BY <1>3, OwingIs
<1>6. CASE b
  <2>1. Owing(d) = Owing(c) \cup {m + 1}
    <3>1. \A k : k \in 1 .. m + 1 <=> k \in 1 .. m \/ k = m + 1
      OBVIOUS
    <3>2. \A k \in Owing(c) \cup {m + 1} : k \in Owing(d)
      BY <1>3, <1>4, <1>5, <1>6, <3>1
    <3>3. \A k \in Owing(d) : k \in Owing(c) \cup {m + 1}
      BY <1>3, <1>4, <1>5, <3>1
    <3> QED
      BY <3>2, <3>3
  <2>2. m + 1 \notin Owing(c)
    BY <1>4
  <2>3. Cardinality(Owing(d)) = Cardinality(Owing(c)) + 1
    BY <1>4, <2>1, <2>2, FS_AddElement
  <2> QED
    BY <1>1, <1>3, <1>6, <2>3
<1>7. CASE ~b
  <2>1. Owing(d) = Owing(c)
    BY <1>3, <1>4, <1>5, <1>7
  <2> QED
    BY <1>1, <1>3, <1>7, <2>1
<1> QED
  BY <1>6, <1>7

LEMMA OneLessOwing ==
  ASSUME NEW c \in Seq(BOOLEAN), c # <<>>
  PROVE  /\ Front(c) \in Seq(BOOLEAN) /\ Last(c) \in BOOLEAN
         /\ Last(c) => Cardinality(Owing(c)) = Cardinality(Owing(Front(c))) + 1
         /\ ~Last(c) => Cardinality(Owing(c)) = Cardinality(Owing(Front(c)))
<1>1. PICK d \in Seq(BOOLEAN), b \in BOOLEAN : c = Append(d, b)
  BY SequenceEmptyOrAppend
<1>2. PICK m \in Nat : m = Len(d)
  BY OwingIs
<1>3. Len(c) = m + 1 /\ (\A k \in 1 .. m : c[k] = d[k]) /\ c[m + 1] = b
  <2>1. /\ Len(Append(d, b)) = Len(d) + 1
        /\ \A k \in 1 .. Len(d) : Append(d, b)[k] = d[k]
        /\ Append(d, b)[Len(d) + 1] = b
    BY AppendProperties
  <2> QED
    BY <1>1, <1>2, <2>1
<1>4. Last(c) = b
  BY <1>3 DEF Last
<1>5. Front(c) = d
  <2>1. (m + 1) - 1 = m
    OBVIOUS
  <2>2. Front(c) = SubSeq(c, 1, m)
    BY <1>3, <2>1 DEF Front
  <2>3. \A k \in 1 .. m : c[k] \in BOOLEAN
    BY <1>2, <1>3, ElementOfSeq
  <2>4. /\ SubSeq(c, 1, m) \in Seq(BOOLEAN)
        /\ Len(SubSeq(c, 1, m)) = IF 1 <= m THEN m - 1 + 1 ELSE 0
        /\ \A k \in 1 .. m - 1 + 1 : SubSeq(c, 1, m)[k] = c[1 + k - 1]
    BY <2>3, SubSeqProperties
  <2>5. PICK e \in Seq(BOOLEAN) : e = SubSeq(c, 1, m)
    BY <2>4
  <2>6. Len(e) = Len(d) /\ \A k \in 1 .. Len(e) : e[k] = d[k]
    BY <1>2, <1>3, <2>4, <2>5
  <2>7. e = d
    BY <2>6, SeqEqual
  <2> QED
    BY <2>2, <2>5, <2>7
<1> QED
  BY <1>1, <1>4, <1>5, OneMoreOwing

-----------------------------------------------------------------------------
(* The inductive invariant *)

IInv ==
  /\ Sound(table, Listed)
  /\ Listed \subseteq alive /\ alive \subseteq 1 .. lastId /\ lastId \in 0 .. MaxId
  /\ closing \in Seq(BOOLEAN)
  /\ CounterIsExact

LEMMA CountIs ==
  ASSUME IInv
  PROVE  /\ IsFiniteSet(Listed) /\ Cardinality(Listed) \in Nat
         /\ Cardinality(Owing(closing)) \in Nat /\ table.counter \in Nat
         /\ table.counter = Cardinality(Listed) + Cardinality(Owing(closing))
         /\ table.buckets = 0 <=> table.counter = 0
<1>1. IsFiniteSet(Listed) /\ Cardinality(Listed) \in Nat
  <2>1. Listed \subseteq Ids /\ Ids = 1 .. MaxId /\ MaxId \in Int
    BY BucketsAssumption DEF Listed, Ids
  <2>2. IsFiniteSet(1 .. MaxId)
    BY <2>1, FS_Interval
  <2>3. Listed \in SUBSET (1 .. MaxId)
    BY <2>1
  <2>4. IsFiniteSet(Listed)
    BY <2>2, <2>3, FS_Subset
  <2> QED
    BY <2>4, FS_CardinalityType
<1>2. Cardinality(Owing(closing)) \in Nat
  BY OwingIs DEF IInv
<1>3. table.counter \in Nat
  BY SoundTypes DEF IInv
<1> QED
  BY <1>1, <1>2, <1>3 DEF IInv, CounterIsExact, Owing

LEMMA InitIInv == Init => IInv
<1> SUFFICES ASSUME Init PROVE IInv
  OBVIOUS
<1>1. table = NoTable /\ alive = {} /\ lastId = 0 /\ closing = <<>>
  BY DEF Init
<1>2. Sound(table, {})
  BY <1>1, SoundNoTable
<1>3. Listed = {}
  BY <1>2, SoundListed DEF Listed
<1>4. closing \in Seq(BOOLEAN) /\ Len(closing) = 0
  BY <1>1, EmptySeq
<1>5. Owing(closing) = {}
  <2>1. PICK c \in Seq(BOOLEAN) : c = closing
    BY <1>4
  <2>2. Owing(c) = {k \in 1 .. Len(c) : c[k]}
    BY OwingIs
  <2>3. 1 .. 0 = {}
    OBVIOUS
  <2> QED
    BY <1>4, <2>1, <2>2, <2>3
<1>6. CounterIsExact
  <2>1. Cardinality({}) = 0
    BY FS_EmptySet
  <2>2. table.counter = 0 /\ table.buckets = 0
    BY <1>1 DEF NoTable
  <2> QED
    BY <1>3, <1>5, <2>1, <2>2 DEF CounterIsExact, Owing
<1>7. lastId \in 0 .. MaxId
  BY <1>1, BucketsAssumption
<1> QED
  BY <1>1, <1>2, <1>3, <1>4, <1>6, <1>7 DEF IInv

(* What has to be shown of a step that leaves the objects of S in the table. *)
LEMMA IInvAfter ==
  ASSUME NEW S, Sound(table', S), S \subseteq alive', alive' \subseteq 1 .. lastId',
         lastId' \in 0 .. MaxId, closing' \in Seq(BOOLEAN),
         table'.counter = Cardinality(S) + Cardinality(Owing(closing')),
         table'.buckets = 0 <=> table'.counter = 0
  PROVE  IInv'
<1>1. Listed' = S
  <2>1. PICK t : t = table'
    OBVIOUS
  <2>2. {s \in Ids : InBucket(t, s)} = S
    BY <2>1, SoundListed
  <2> QED
    BY <2>1, <2>2 DEF Listed
<1>2. CounterIsExact'
  BY <1>1 DEF CounterIsExact, Owing
<1> QED
  BY <1>1, <1>2 DEF IInv

LEMMA StutterIInv == ASSUME IInv, UNCHANGED vars PROVE IInv'
BY DEF IInv, vars, Listed, CounterIsExact, InBucket

LEMMA NewStateIInv == ASSUME IInv, NewState PROVE IInv'
<1>1. PICK s : s = lastId' /\ s = lastId + 1 /\ s \in 1 .. MaxId /\ alive' = alive \cup {s} /\ closing' = closing
  BY BucketsAssumption DEF NewState, IInv
<1>2. PICK S, al, last : S = Listed /\ al = alive /\ last = lastId
  OBVIOUS
<1>3. S \subseteq al /\ al \subseteq 1 .. last /\ s = last + 1 /\ last \in Nat /\ Sound(table, S)
  BY <1>1, <1>2 DEF IInv
<1>4. s \in Ids \ S /\ alive' \subseteq 1 .. s
  <2>1. s \notin 1 .. last /\ 1 .. last \subseteq 1 .. s /\ s \in 1 .. s
    BY <1>3
  <2> QED
    BY <1>1, <1>2, <1>3, <2>1 DEF Ids
<1>5. closing' \in Seq(BOOLEAN) /\ lastId' \in 0 .. MaxId
  BY <1>1 DEF IInv
<1>6. table' \in Inserted(s) \cup {table}
  BY <1>1 DEF NewState
<1>7. CASE table' = table
  <2>1. Sound(table', S) /\ S \subseteq alive'
    BY <1>1, <1>2, <1>3, <1>7
  <2>2. /\ table'.counter = Cardinality(S) + Cardinality(Owing(closing'))
        /\ table'.buckets = 0 <=> table'.counter = 0
    BY <1>1, <1>2, <1>7, CountIs
  <2> QED
    BY <1>1, <1>4, <1>5, <2>1, <2>2, IInvAfter
<1>8. CASE table' \in Inserted(s)
  <2>1. PICK tab \in Grown(table) : tab.buckets > 0 /\ table' = [ToBuckets(tab, s) EXCEPT !.counter = @ + 1]
    BY <1>8 DEF Inserted
  <2>2. Sound(tab, S) /\ tab.counter = table.counter
    <3>1. CASE tab = table
      BY <1>3, <3>1
    <3>2. CASE tab # table
      <4>1. PICK n \in Nat \ {0} : tab = NewBuckets(table, n)
        <5>1. table.buckets \in Nat /\ InitialBuckets \in Nat \ {0}
          BY <1>3, SoundTypes, BucketsAssumption
        <5>2. CASE table.buckets = 0
          BY <2>1, <3>2, <5>1, <5>2 DEF Grown, Resized
        <5>3. CASE table.buckets # 0
          <6>1. 2 * table.buckets \in Nat \ {0}
            BY <5>1, <5>3
          <6>2. tab = NewBuckets(table, 2 * table.buckets)
            BY <2>1, <3>2, <5>3 DEF Grown, Resized
          <6> QED
            BY <6>1, <6>2
        <5> QED
          BY <5>2, <5>3
      <4> QED
        BY <1>3, <4>1, SoundRebuilt
    <3> QED
      BY <3>1, <3>2
  <2>3. PICK t : t = ToBuckets(tab, s)
    OBVIOUS
  <2>4. tab.buckets # 0
    BY <2>1, <2>2, SoundTypes
  <2>5. Sound(t, S \cup {s}) /\ t.counter = tab.counter /\ t.buckets = tab.buckets
    BY <1>4, <2>2, <2>3, <2>4, SoundInserted
  <2>6. table.counter \in Nat /\ table.counter = Cardinality(S) + Cardinality(Owing(closing))
        /\ IsFiniteSet(S) /\ Cardinality(S) \in Nat /\ Cardinality(Owing(closing)) \in Nat
    BY <1>2, CountIs
  <2>7. PICK c \in Nat : c = table.counter + 1
    BY <2>6
  <2>8. table' = [t EXCEPT !.counter = c]
    BY <2>1, <2>2, <2>3, <2>5, <2>7
  <2>9. Sound(table', S \cup {s}) /\ table'.counter = c /\ table'.buckets = tab.buckets
    BY <2>5, <2>8, SoundCounted
  <2>10. Cardinality(S \cup {s}) = Cardinality(S) + 1
    BY <1>4, <2>6, FS_AddElement
  <2>11. /\ table'.counter = Cardinality(S \cup {s}) + Cardinality(Owing(closing'))
         /\ table'.buckets = 0 <=> table'.counter = 0
    BY <1>1, <2>4, <2>6, <2>7, <2>9, <2>10
  <2>12. S \cup {s} \subseteq alive'
    BY <1>1, <1>2, <1>3
  <2>13. PICK U : U = S \cup {s}
    OBVIOUS
  <2> QED
    BY <1>1, <1>4, <1>5, <2>9, <2>11, <2>12, <2>13, IInvAfter
<1> QED
  BY <1>6, <1>7, <1>8

LEMMA UnlinkIInv == ASSUME IInv, NEW s \in Ids, Unlink(s) PROVE IInv'
<1>1. /\ alive' = alive \ {s} /\ lastId' = lastId
      /\ table' = (IF InBucket(table, s) THEN Unlinked(table, s) ELSE table)
      /\ closing' = Append(closing, InBucket(table, s))
  BY DEF Unlink
<1>2. PICK S, b : S = Listed /\ b = InBucket(table, s) /\ b \in BOOLEAN
  BY DEF InBucket
<1>3. Sound(table, S) /\ S \subseteq alive /\ (b <=> s \in S)
  BY <1>2 DEF IInv, Listed
<1>4. alive' \subseteq 1 .. lastId' /\ lastId' \in 0 .. MaxId
  BY <1>1 DEF IInv
<1>5. PICK c \in Seq(BOOLEAN) : c = closing
  BY DEF IInv
<1>6. /\ closing' \in Seq(BOOLEAN)
      /\ b => Cardinality(Owing(closing')) = Cardinality(Owing(closing)) + 1
      /\ ~b => Cardinality(Owing(closing')) = Cardinality(Owing(closing))
  BY <1>1, <1>2, <1>5, OneMoreOwing
<1>7. /\ IsFiniteSet(S) /\ Cardinality(S) \in Nat /\ Cardinality(Owing(closing)) \in Nat
      /\ table.counter = Cardinality(S) + Cardinality(Owing(closing))
      /\ table.buckets = 0 <=> table.counter = 0
  BY <1>2, CountIs
<1>8. CASE b
  <2>1. PICK t : t = Unlinked(table, s)
    OBVIOUS
  <2>2. Sound(t, S \ {s}) /\ t.counter = table.counter /\ t.buckets = table.buckets
    BY <1>3, <1>8, <2>1, SoundRemoved
  <2>3. table' = t
    BY <1>1, <1>2, <1>8, <2>1
  <2>4. Cardinality(S \ {s}) = Cardinality(S) - 1
    BY <1>3, <1>7, <1>8, FS_RemoveElement
  <2>5. PICK U : U = S \ {s}
    OBVIOUS
  <2>6. U \subseteq alive' /\ Sound(table', U)
    BY <1>1, <1>3, <2>2, <2>3, <2>5
  <2>7. /\ table'.counter = Cardinality(U) + Cardinality(Owing(closing'))
        /\ table'.buckets = 0 <=> table'.counter = 0
    <3>1. Cardinality(U) = Cardinality(S) - 1
      BY <2>4, <2>5
    <3>2. table'.counter = table.counter /\ table'.buckets = table.buckets
      BY <2>2, <2>3
    <3>3. Cardinality(Owing(closing')) = Cardinality(Owing(closing)) + 1
      BY <1>6, <1>8
    <3> QED
      BY <1>7, <3>1, <3>2, <3>3
  <2> QED
    BY <1>4, <1>6, <2>6, <2>7, IInvAfter
<1>9. CASE ~b
  <2>1. table' = table /\ S \subseteq alive'
    BY <1>1, <1>2, <1>3, <1>9
  <2>2. Sound(table', S)
    BY <1>3, <2>1
  <2>3. /\ table'.counter = Cardinality(S) + Cardinality(Owing(closing'))
        /\ table'.buckets = 0 <=> table'.counter = 0
    BY <1>6, <1>7, <1>9, <2>1
  <2> QED
    BY <1>4, <1>6, <2>1, <2>2, <2>3, IInvAfter
<1> QED
  BY <1>8, <1>9

LEMMA FreedIInv == ASSUME IInv, Freed PROVE IInv'
<1>1. /\ closing # <<>> /\ closing' = Front(closing) /\ alive' = alive /\ lastId' = lastId
      /\ table' \in (IF Last(closing) THEN Shrunk(table) ELSE {table})
  BY DEF Freed
<1>2. PICK S : S = Listed
  OBVIOUS
<1>3. Sound(table, S) /\ S \subseteq alive' /\ alive' \subseteq 1 .. lastId' /\ lastId' \in 0 .. MaxId
  BY <1>1, <1>2 DEF IInv
<1>4. PICK c \in Seq(BOOLEAN) : c = closing
  BY DEF IInv
<1>5. /\ closing' \in Seq(BOOLEAN)
      /\ Last(closing) => Cardinality(Owing(closing)) = Cardinality(Owing(closing')) + 1
      /\ ~Last(closing) => Cardinality(Owing(closing)) = Cardinality(Owing(closing'))
  BY <1>1, <1>4, OneLessOwing
<1>6. /\ IsFiniteSet(S) /\ Cardinality(S) \in Nat /\ table.counter \in Nat
      /\ table.counter = Cardinality(S) + Cardinality(Owing(closing))
      /\ table.buckets = 0 <=> table.counter = 0
  BY <1>2, CountIs
<1>7. Cardinality(Owing(closing')) \in Nat
  <2>1. PICK d \in Seq(BOOLEAN) : d = closing'
    BY <1>5
  <2> QED
    BY <2>1, OwingIs
<1>8. CASE ~Last(closing)
  <2>1. table' = table
    BY <1>1, <1>8
  <2>2. Sound(table', S)
    BY <1>3, <2>1
  <2>3. /\ table'.counter = Cardinality(S) + Cardinality(Owing(closing'))
        /\ table'.buckets = 0 <=> table'.counter = 0
    BY <1>5, <1>6, <1>8, <2>1
  <2> QED
    BY <1>3, <1>5, <2>2, <2>3, IInvAfter
<1>9. CASE Last(closing)
  <2>1. table.counter = Cardinality(S) + Cardinality(Owing(closing')) + 1
    BY <1>5, <1>6, <1>7, <1>9
  <2>2. PICK m \in Nat : m = table.counter - 1
    BY <1>6, <1>7, <2>1
  <2>3. CounterAfterFree(table) = m /\ m = Cardinality(S) + Cardinality(Owing(closing'))
    BY <1>6, <1>7, <2>1, <2>2 DEF CounterAfterFree
  <2>4. table' \in Shrunk(table)
    BY <1>1, <1>9
  <2>5. CASE m = 0
    <3>1. table' = NoTable
      BY <2>3, <2>4, <2>5 DEF Shrunk, Emptied
    <3>2. Cardinality(S) = 0 /\ Cardinality(Owing(closing')) = 0
      BY <1>6, <1>7, <2>3, <2>5
    <3>3. S = {}
      BY <1>6, <3>2, FS_EmptySet
    <3>4. Sound(table', S)
      BY <3>1, <3>3, SoundNoTable
    <3>5. table'.counter = 0 /\ table'.buckets = 0
      BY <3>1 DEF NoTable
    <3>6. /\ table'.counter = Cardinality(S) + Cardinality(Owing(closing'))
          /\ table'.buckets = 0 <=> table'.counter = 0
      BY <3>2, <3>5
    <3> QED
      BY <1>3, <1>5, <3>4, <3>6, IInvAfter
  <2>6. CASE m # 0
    <3>1. PICK rest : rest = [table EXCEPT !.counter = m]
      OBVIOUS
    <3>2. Sound(rest, S) /\ rest.counter = m /\ rest.buckets = table.buckets
      BY <1>3, <3>1, SoundCounted
    <3>3. table' = rest \/ \E n \in Nat \ {0} : table' = NewBuckets(rest, n)
      <4>1. 2 * m \in Nat \ {0}
        BY <2>6
      <4>2. table' \in Resized(rest, 2 * m) \/ table' = rest
        BY <2>3, <2>4, <2>6, <3>1 DEF Shrunk
      <4> QED
        BY <4>1, <4>2 DEF Resized
    <3>4. table.buckets # 0
      BY <1>6, <1>7, <2>1
    <3>5. Sound(table', S) /\ table'.counter = m /\ table'.buckets # 0
      <4>1. CASE table' = rest
        BY <3>2, <3>4, <4>1
      <4>2. CASE \E n \in Nat \ {0} : table' = NewBuckets(rest, n)
        <5>1. PICK n, t : n \in Nat \ {0} /\ t = NewBuckets(rest, n) /\ table' = t
          BY <4>2
        <5>2. Sound(t, S) /\ t.counter = rest.counter /\ t.buckets = n
          BY <3>2, <5>1, SoundRebuilt
        <5> QED
          BY <3>2, <5>1, <5>2
      <4> QED
        BY <3>3, <4>1, <4>2
    <3> QED
      BY <1>3, <1>5, <2>3, <2>6, <3>5, IInvAfter
  <2> QED
    BY <2>5, <2>6
<1> QED
  BY <1>8, <1>9

LEMMA NextIInv == ASSUME IInv, [Next]_vars PROVE IInv'
<1>1. CASE UNCHANGED vars
  BY <1>1, StutterIInv
<1>2. CASE NewState
  BY <1>2, NewStateIInv
<1>3. CASE Freed
  BY <1>3, FreedIInv
<1>4. ASSUME NEW s \in Ids, Unlink(s) PROVE IInv'
  BY <1>4, UnlinkIInv
<1> QED
  BY <1>1, <1>2, <1>3, <1>4 DEF Next

LEMMA AlwaysIInv == Spec => []IInv
BY InitIInv, NextIInv, PTL DEF Spec

-----------------------------------------------------------------------------
(* The invariants *)

(* Where an object of the table is, and how it is linked there. *)
LEMMA Placed ==
  ASSUME NEW n \in Nat, NEW L, Structured(table, n, Listed, L), NEW s \in Listed
  PROVE  /\ n # 0 /\ s % n \in 0 .. n - 1
         /\ \E k \in 1 .. Len(L[s % n]) :
              /\ L[s % n][k] = s /\ table.prev[s] = PtrTo(s % n, L[s % n], k)
              /\ k # 1 => k - 1 \in 1 .. Len(L[s % n])
<1>1. n # 0 /\ s \in Ids /\ InChain(L[s % n], s)
  BY DEF Structured
<1>2. PICK i \in 0 .. n - 1 : i = s % n
  BY <1>1, IndexIn
<1>3. PICK c \in Seq(Ids) : c = L[i]
  BY DEF Structured
<1>4. PICK k \in 1 .. Len(c) : c[k] = s
  BY <1>1, <1>2, <1>3 DEF InChain
<1>5. table.prev[s] = PtrTo(i, c, k)
  BY <1>3, <1>4 DEF Structured, Linked
<1>6. k # 1 => k - 1 \in 1 .. Len(c)
  BY LenProperties
<1> QED
  BY <1>1, <1>2, <1>3, <1>4, <1>5, <1>6

LEMMA IInvTypes == IInv => TypeOK
<1> SUFFICES ASSUME IInv PROVE TypeOK
  OBVIOUS
<1>1. PICK n, L : n \in Nat /\ n = table.buckets /\ Structured(table, n, Listed, L)
  BY SoundTypes DEF IInv
<1>2. table \in Tables(n)
  BY <1>1 DEF Structured
<1>3. alive \subseteq Ids
  BY BucketsAssumption DEF IInv, Ids
<1>4. table.prev \in [Ids -> AnyPointer \cup {Null}]
  BY <1>2 DEF Tables
<1>5. ASSUME NEW x \in Ids PROVE table.prev[x] \in Pointers \cup {Null}
  <2>1. CASE x \in Listed
    <3>1. PICK i, c : i \in 0 .. n - 1 /\ i = x % n /\ c = L[i]
      BY <1>1, <2>1, Placed
    <3>2. PICK k \in 1 .. Len(c) : table.prev[x] = PtrTo(i, c, k) /\ (k # 1 => k - 1 \in 1 .. Len(c))
      BY <1>1, <2>1, <3>1, Placed
    <3>3. \A j \in 1 .. Len(c) : c[j] \in Ids
      BY <1>1, <3>1 DEF Structured, ChainOf
    <3>4. BucketPtr(i) \in Pointers
      BY <1>1, <3>1 DEF BucketPtr, Pointers, Buckets
    <3>5. k # 1 => NextPtr(c[k - 1]) \in Pointers
      BY <3>2, <3>3 DEF NextPtr, Pointers
    <3> QED
      BY <3>2, <3>4, <3>5 DEF PtrTo
  <2>2. CASE x \notin Listed
    BY <2>2 DEF Listed, InBucket
  <2> QED
    BY <2>1, <2>2
<1>6. table.prev \in [Ids -> Pointers \cup {Null}]
  BY <1>4, <1>5
<1> QED
  BY <1>1, <1>2, <1>3, <1>6 DEF TypeOK, Tables, Buckets, IInv

LEMMA IInvPointers == IInv => PointersAgree
<1> SUFFICES ASSUME IInv, NEW s \in Listed
             PROVE  LET p == table.prev[s] IN
                    s = IF p.in = "bucket" THEN table.first[p.of] ELSE table.next[p.of]
  BY DEF PointersAgree
<1>1. PICK n, L : n \in Nat /\ n = table.buckets /\ Structured(table, n, Listed, L)
  BY SoundTypes DEF IInv
<1>2. PICK i, c : i \in 0 .. n - 1 /\ i = s % n /\ c = L[i]
  BY <1>1, Placed
<1>3. PICK k \in 1 .. Len(c) : /\ c[k] = s /\ table.prev[s] = PtrTo(i, c, k)
                               /\ k # 1 => k - 1 \in 1 .. Len(c)
  BY <1>1, <1>2, Placed
<1>4. Linked(table, i, c) /\ Len(c) \in Nat
  BY <1>1, <1>2, LenProperties DEF Structured
<1>5. CASE k = 1
  BY <1>3, <1>4, <1>5 DEF PtrTo, BucketPtr, Linked, After
<1>6. CASE k # 1
  <2>1. PICK j \in 1 .. Len(c) : j = k - 1 /\ j < Len(c) /\ j + 1 = k
    BY <1>3, <1>4, <1>6
  <2>2. table.next[c[j]] = s
    BY <1>3, <1>4, <2>1 DEF Linked, After
  <2> QED
    BY <1>3, <1>6, <2>1, <2>2 DEF PtrTo, NextPtr
<1> QED
  BY <1>5, <1>6

LEMMA IInvChains == IInv => ChainsAreListed
<1> SUFFICES ASSUME IInv PROVE ChainsAreListed
  OBVIOUS
<1>1. PICK n, L : n \in Nat /\ n = table.buckets /\ Structured(table, n, Listed, L)
  BY SoundTypes DEF IInv
<1>2. \A x \in Ids \ Listed : table.next[x] = Null
  BY DEF IInv, Sound, Unlisted
<1>3. Lists(Walk(table), Listed)
  BY <1>1, <1>2, WalkIs
<1>4. PICK w : w = Walk(table)
  OBVIOUS
<1>5. ToSet(w) = Listed /\ Cardinality(Listed) = Len(w)
  BY <1>3, <1>4, ListsCount
<1> QED
  BY <1>4, <1>5 DEF ChainsAreListed, IInv

LEMMA IInvFound == IInv => ListedAreFound
<1> SUFFICES ASSUME IInv, NEW s \in Listed PROVE Found(s) = {s}
  BY DEF ListedAreFound
<1>1. PICK n, L : n \in Nat /\ n = table.buckets /\ Structured(table, n, Listed, L)
  BY SoundTypes DEF IInv
<1>2. \A x \in Ids \ Listed : table.next[x] = Null
  BY DEF IInv, Sound, Unlisted
<1>3. PICK i, c : i \in 0 .. n - 1 /\ i = s % n /\ c = L[i] /\ n # 0
  BY <1>1, Placed
<1>4. PICK k \in 1 .. Len(c) : c[k] = s
  BY <1>1, <1>3, Placed
<1>5. \A j \in 0 .. n - 1 : Chain(table, table.first[j]) = L[j]
  BY <1>1, <1>2, ChainIs
<1>6. c \in Seq(Ids)
  BY <1>1, <1>3 DEF Structured
<1>7. DOMAIN c = 1 .. Len(c)
  BY <1>6, LenProperties
<1>8. s \in ToSet(c)
  BY <1>4, <1>7 DEF ToSet
<1>9. Found(s) = {s} \cap ToSet(c)
  <2>1. Index(s, table.buckets) = i
    BY <1>1, <1>3 DEF Index
  <2> QED
    BY <1>1, <1>3, <1>5, <2>1 DEF Found
<1> QED
  BY <1>8, <1>9

LEMMA IInvUsage == IInv => UsageCoversChains
<1> SUFFICES ASSUME IInv, NEW i \in Buckets
             PROVE  /\ Len(Chain(table, table.first[i])) <= table.count[i]
                    /\ table.count[i] <= table.usage
  BY DEF UsageCoversChains
<1>1. PICK n, L : n \in Nat /\ n = table.buckets /\ Structured(table, n, Listed, L)
  BY SoundTypes DEF IInv
<1>2. \A x \in Ids \ Listed : table.next[x] = Null
  BY DEF IInv, Sound, Unlisted
<1>3. \A j \in 0 .. n - 1 : Chain(table, table.first[j]) = L[j]
  BY <1>1, <1>2, ChainIs
<1>4. i \in 0 .. n - 1
  BY <1>1 DEF Buckets
<1>5. Counted(table, i, L[i])
  BY <1>1, <1>4 DEF Structured
<1> QED
  BY <1>3, <1>4, <1>5 DEF Counted

-----------------------------------------------------------------------------

(* The variables have their types, and prevStatePtr points into the list   *)
(* that is in use: toBuckets(), newBuckets() and MtState_free() leave no   *)
(* pointer into a list that was given back.                                *)
THEOREM BucketsAreTyped == Spec => []TypeOK
BY AlwaysIInv, IInvTypes, PTL

(* The pointer that prevStatePtr points to points back: MtState_free()     *)
(* unlinks the object that it frees and no other one.                      *)
THEOREM UnlinkingFindsItself == Spec => []PointersAgree
BY AlwaysIInv, IInvPointers, PTL

(* The chains have the objects that entered the table and were not freed,  *)
(* each of them once, however finalizers nest MtState_free() and           *)
(* mtstates_state_new(): newBuckets() walks no memory that was freed.      *)
THEOREM ChainsHoldTheLiving == Spec => []ChainsAreListed
BY AlwaysIInv, IInvChains, PTL

(* mtstates.state(id) finds an object that is in the table, after any      *)
(* number of newBuckets() calls.                                           *)
THEOREM IdsAreFound == Spec => []ListedAreFound
BY AlwaysIInv, IInvFound, PTL

(* state_counter is the number of the objects in the table and of those    *)
(* that left it and are still in lua_close(), and the list of buckets is   *)
(* there as long as it is not 0.                                           *)
THEOREM StateCounterIsExact == Spec => []CounterIsExact
<1>1. IInv => CounterIsExact
  BY DEF IInv
<1> QED
  BY AlwaysIInv, <1>1, PTL

(* bucket_usage is no less than the longest chain, so newState() sees a    *)
(* chain that has become too long.                                         *)
THEOREM LongChainsAreSeen == Spec => []UsageCoversChains
BY AlwaysIInv, IInvUsage, PTL

=============================================================================
