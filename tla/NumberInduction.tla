--------------------------- MODULE NumberInduction ---------------------------
(***************************************************************************)
(* Induction and recursion on the natural numbers, stated with sets and    *)
(* functions in place of predicates and operators: a set that holds 0, and *)
(* the successors of its numbers, holds all of them.  They are proved from *)
(* the order of the numbers, which is well founded.                        *)
(***************************************************************************)
EXTENDS Integers, WellFoundedInduction, TLAPS

Less == {p \in Nat \X Nat : p[1] < p[2]}

LEMMA LessIsWellFounded == IsWellFoundedOn(Less, Nat)
BY NatLessThanWellFounded DEF OpToRel, Less

LEMMA Smallest ==
  ASSUME NEW T, T \subseteq Nat, T # {}
  PROVE  \E x \in T : \A y \in T : x <= y
<1>1. PICK x \in T : \A y \in T : ~ (<<y, x>> \in Less)
  BY LessIsWellFounded, WFMin
<1>2. \A y \in T : x <= y
  <2> SUFFICES ASSUME NEW y \in T, y < x PROVE FALSE
    OBVIOUS
  <2>1. x \in Nat /\ y \in Nat
    OBVIOUS
  <2>2. <<y, x>> \in Nat \X Nat /\ <<y, x>>[1] = y /\ <<y, x>>[2] = x
    BY <2>1
  <2> QED
    BY <1>1, <2>2 DEF Less
<1> QED
  BY <1>2

LEMMA Induction ==
  ASSUME NEW T, 0 \in T, \A n \in Nat : n \in T => n + 1 \in T
  PROVE  Nat \subseteq T
<1> SUFFICES ASSUME Nat \ T # {} PROVE FALSE
  OBVIOUS
<1>1. PICK x \in Nat \ T : \A y \in Nat \ T : x <= y
  BY Smallest
<1>2. x # 0 /\ x - 1 \in Nat /\ x - 1 \in T
  BY <1>1
<1> QED
  BY <1>1, <1>2

(* There is a function that begins with c and goes on by step. *)
CanRecur(S, c, step) ==
  \E f \in [Nat -> S] : f[0] = c /\ \A n \in Nat : f[n + 1] = step[f[n]]

LEMMA Recursion ==
  ASSUME NEW S, NEW c \in S, NEW step \in [S -> S]
  PROVE  CanRecur(S, c, step)
<1> DEFINE A(n) == {g \in [0 .. n -> S] : g[0] = c /\ \A k \in 0 .. n - 1 : g[k + 1] = step[g[k]]}
<1>1. \A n \in Nat : A(n) # {}
  <2> DEFINE T == {n \in Nat : A(n) # {}}
  <2>1. 0 \in T
    <3>1. [k \in 0 .. 0 |-> c] \in A(0)
      OBVIOUS
    <3> QED
      BY <3>1
  <2>2. ASSUME NEW n \in Nat, n \in T PROVE n + 1 \in T
    <3>1. PICK g \in A(n) : TRUE
      BY <2>2
    <3> DEFINE h == [k \in 0 .. n + 1 |-> IF k <= n THEN g[k] ELSE step[g[n]]]
    <3>2. h \in [0 .. n + 1 -> S]
      BY <3>1
    <3>3. h[0] = c
      BY <3>1
    <3>4. \A k \in 0 .. (n + 1) - 1 : h[k + 1] = step[h[k]]
      BY <3>1
    <3>5. h \in A(n + 1)
      BY <3>2, <3>3, <3>4
    <3> QED
      BY <3>5
  <2> HIDE DEF T
  <2>3. Nat \subseteq T
    BY <2>1, <2>2, Induction
  <2> QED
    BY <2>3 DEF T
<1>2. \A n \in Nat, m \in Nat : \A g \in A(n), h \in A(m) : \A k \in Nat : k <= n /\ k <= m => g[k] = h[k]
  <2> SUFFICES ASSUME NEW n \in Nat, NEW m \in Nat, NEW g \in A(n), NEW h \in A(m)
               PROVE  \A k \in Nat : k <= n /\ k <= m => g[k] = h[k]
    OBVIOUS
  <2> DEFINE T == {k \in Nat : k <= n /\ k <= m => g[k] = h[k]}
  <2>1. 0 \in T
    OBVIOUS
  <2>2. ASSUME NEW k \in Nat, k \in T PROVE k + 1 \in T
    <3> SUFFICES ASSUME k + 1 <= n, k + 1 <= m PROVE g[k + 1] = h[k + 1]
      OBVIOUS
    <3>1. k \in 0 .. n - 1 /\ k \in 0 .. m - 1 /\ g[k] = h[k]
      BY <2>2
    <3> QED
      BY <3>1
  <2> HIDE DEF T
  <2>3. Nat \subseteq T
    BY <2>1, <2>2, Induction
  <2> QED
    BY <2>3 DEF T
<1> DEFINE G(n) == CHOOSE g \in A(n) : TRUE
           f == [n \in Nat |-> G(n)[n]]
<1>3. \A n \in Nat : G(n) \in A(n)
  BY <1>1
<1> HIDE DEF G
<1>4. f \in [Nat -> S]
  BY <1>3
<1>5. f[0] = c
  BY <1>3
<1>6. ASSUME NEW n \in Nat PROVE f[n + 1] = step[f[n]]
  <2>1. G(n) \in A(n) /\ G(n + 1) \in A(n + 1) /\ n + 1 \in Nat
    BY <1>3
  <2>2. G(n)[n] = G(n + 1)[n]
    <3> HIDE DEF A
    <3> QED
      BY <1>2, <2>1
  <2>3. n \in 0 .. (n + 1) - 1
    OBVIOUS
  <2>4. G(n + 1)[n + 1] = step[G(n + 1)[n]]
    BY <2>1, <2>3
  <2> QED
    BY <2>2, <2>4
<1> HIDE DEF f
<1> QED
  BY <1>4, <1>5, <1>6 DEF CanRecur

(* A step that looks at the number, too. *)
CanRecurNumbered(S, c, step) ==
  \E f \in [Nat -> S] : f[0] = c /\ \A n \in Nat : f[n + 1] = step[<<n, f[n]>>]

LEMMA NumberedRecursion ==
  ASSUME NEW S, NEW c \in S, NEW step \in [Nat \X S -> S]
  PROVE  CanRecurNumbered(S, c, step)
<1> DEFINE P == Nat \X S
           next == [p \in P |-> <<p[1] + 1, step[p]>>]
<1>1. next \in [P -> P] /\ <<0, c>> \in P
  OBVIOUS
<1>2. PICK g \in [Nat -> P] : g[0] = <<0, c>> /\ \A n \in Nat : g[n + 1] = next[g[n]]
  <2>1. PICK Q, h, d : Q = P /\ h = next /\ d = <<0, c>>
    OBVIOUS
  <2>2. h \in [Q -> Q] /\ d \in Q
    BY <1>1, <2>1
  <2>3. CanRecur(Q, d, h)
    BY <2>2, Recursion
  <2> QED
    BY <2>1, <2>3 DEF CanRecur
<1>3. \A n \in Nat : g[n + 1] = <<g[n][1] + 1, step[g[n]]>>
  BY <1>2
<1> DEFINE T == {n \in Nat : g[n][1] = n}
<1>4. 0 \in T
  BY <1>2
<1>5. \A n \in Nat : n \in T => n + 1 \in T
  BY <1>3
<1>6. Nat \subseteq T
  <2> HIDE DEF T
  <2> QED
    BY <1>4, <1>5, Induction
<1> DEFINE f == [n \in Nat |-> g[n][2]]
<1>7. \A n \in Nat : g[n] = <<n, f[n]>>
  BY <1>2, <1>6
<1>8. f \in [Nat -> S] /\ f[0] = c
  BY <1>2
<1>9. ASSUME NEW n \in Nat PROVE f[n + 1] = step[<<n, f[n]>>]
  <2>1. n + 1 \in Nat /\ g[n + 1] = <<n + 1, f[n + 1]>> /\ g[n] = <<n, f[n]>>
    BY <1>7
  <2>2. g[n + 1] = <<g[n][1] + 1, step[g[n]]>>
    BY <1>3
  <2> QED
    BY <2>1, <2>2
<1> HIDE DEF f
<1> QED
  BY <1>8, <1>9 DEF CanRecurNumbered

(* A function that is defined by recursion up to n exists. *)
CanRecurUpTo(n, S, c, step) ==
  \E f \in [0 .. n -> S] :
    f = [k \in 0 .. n |-> IF k = 0 THEN c ELSE step[<<k, f[k - 1]>>]]

LEMMA BoundedRecursion ==
  ASSUME NEW S, NEW c \in S, NEW n \in Nat, NEW step \in [(1 .. n) \X S -> S]
  PROVE  CanRecurUpTo(n, S, c, step)
<1> DEFINE all == [p \in Nat \X S |-> IF p[1] < n THEN step[<<p[1] + 1, p[2]>>] ELSE p[2]]
<1>1. all \in [Nat \X S -> S]
  <2> SUFFICES ASSUME NEW p \in Nat \X S
               PROVE  (IF p[1] < n THEN step[<<p[1] + 1, p[2]>>] ELSE p[2]) \in S
    OBVIOUS
  <2>1. p[1] \in Nat /\ p[2] \in S
    OBVIOUS
  <2>2. p[1] < n => p[1] + 1 \in 1 .. n
    BY <2>1
  <2>3. p[1] < n => <<p[1] + 1, p[2]>> \in (1 .. n) \X S
    BY <2>1, <2>2
  <2> QED
    BY <2>1, <2>3
<1>2. PICK g \in [Nat -> S] : g[0] = c /\ \A k \in Nat : g[k + 1] = all[<<k, g[k]>>]
  <2>1. PICK h : h = all
    OBVIOUS
  <2>2. h \in [Nat \X S -> S]
    BY <1>1, <2>1
  <2>3. CanRecurNumbered(S, c, h)
    BY <2>2, NumberedRecursion
  <2> QED
    BY <2>1, <2>3 DEF CanRecurNumbered
<1> DEFINE f == [k \in 0 .. n |-> g[k]]
<1>3. f \in [0 .. n -> S]
  BY <1>2
<1>4. \A k \in 0 .. n : k # 0 => f[k] = step[<<k, f[k - 1]>>]
  <2> SUFFICES ASSUME NEW k \in 0 .. n, k # 0 PROVE g[k] = step[<<k, g[k - 1]>>]
    OBVIOUS
  <2>1. PICK j \in Nat : j + 1 = k /\ j = k - 1 /\ j < n
    <3>1. k - 1 \in Nat
      OBVIOUS
    <3> QED
      BY <3>1
  <2>2. <<j, g[j]>> \in Nat \X S /\ <<j, g[j]>>[1] = j /\ <<j, g[j]>>[2] = g[j]
    BY <1>2
  <2>3. all[<<j, g[j]>>] = step[<<j + 1, g[j]>>]
    BY <2>1, <2>2
  <2> QED
    BY <1>2, <2>1, <2>3
<1>5. f[0] = c
  BY <1>2
<1> HIDE DEF f
<1> QED
  BY <1>3, <1>4, <1>5 DEF CanRecurUpTo

=============================================================================
