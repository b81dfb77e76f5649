---------------------------- MODULE DeliveryProofs ----------------------------
(***************************************************************************)
(* Proofs about Delivery, with bytes, integers, sizes and values of any    *)
(* size: what the callback is given are the values that were added to the  *)
(* writer.  Encoding and decoding go byte by byte and value by value, so   *)
(* this needs induction, which module NumberInduction has.                 *)
(***************************************************************************)
EXTENDS Delivery, TransferProofs, NumberInduction

-----------------------------------------------------------------------------
(* Weights, division and digits *)

LEMMA BaseIs == Base \in Nat \ {0} /\ Base > 1
BY WriterAssumption

LEMMA Weights ==
  /\ Weight \in [Nat -> Nat \ {0}] /\ Weight[0] = 1
  /\ \A k \in Nat : Weight[k + 1] = Base * Weight[k]
<1> DEFINE S == Nat \ {0}
           step == [v \in S |-> Base * v]
           E(f) == [k \in Nat |-> IF k = 0 THEN 1 ELSE Base * f[k - 1]]
<1>1. \A v \in S : Base * v \in S
  BY WriterAssumption
<1>2. step \in [S -> S] /\ 1 \in S
  BY <1>1
<1>3. PICK f \in [Nat -> S] : f[0] = 1 /\ \A n \in Nat : f[n + 1] = step[f[n]]
  <2>0. PICK U, g, c : U = S /\ g = step /\ c = 1
    OBVIOUS
  <2>1. g \in [U -> U] /\ c \in U
    BY <1>2, <2>0
  <2>2. CanRecur(U, c, g)
    BY <2>1, Recursion
  <2> QED
    BY <2>0, <2>2 DEF CanRecur
<1>4. \A n \in Nat : f[n + 1] = Base * f[n]
  BY <1>3
<1>5. f = E(f)
  BY <1>3, <1>4
<1>6. Weight = E(Weight)
  BY <1>5 DEF Weight
<1>7. Weight[0] = 1 /\ \A k \in Nat : Weight[k + 1] = Base * Weight[k]
  BY <1>6
<1>8. \A k \in Nat : Weight[k] = f[k]
  <2> DEFINE T == {k \in Nat : Weight[k] = f[k]}
  <2>1. 0 \in T /\ \A n \in Nat : n \in T => n + 1 \in T
    BY <1>3, <1>4, <1>7
  <2> HIDE DEF T
  <2>2. Nat \subseteq T
    BY <2>1, Induction
  <2> QED
    BY <2>2 DEF T
<1>9. Weight = f
  BY <1>3, <1>6, <1>8
<1> QED
  BY <1>3, <1>7, <1>9

LEMMA Division ==
  ASSUME NEW i \in Int, NEW m \in Nat \ {0}
  PROVE  i \div m \in Int /\ i % m \in 0 .. m - 1 /\ i = m * (i \div m) + (i % m)
OBVIOUS

LEMMA Multiple ==
  ASSUME NEW m \in Nat \ {0}, NEW k \in Int, k >= 1
  PROVE  m * k >= m
<1>1. m * (k - 1) >= 0
  OBVIOUS
<1>2. m * k = m * (k - 1) + m
  OBVIOUS
<1>3. m * k \in Int /\ m * (k - 1) \in Int
  OBVIOUS
<1> QED
  BY <1>1, <1>2, <1>3

LEMMA DivisionIsUnique ==
  ASSUME NEW m \in Nat \ {0}, NEW q \in Int, NEW r \in 0 .. m - 1, NEW p \in Int, NEW s \in 0 .. m - 1,
         m * q + r = m * p + s
  PROVE  r = s
<1>1. m * (q - p) = s - r /\ m * (p - q) = r - s
  OBVIOUS
<1>2. ~ (q - p >= 1) /\ ~ (p - q >= 1)
  BY <1>1, Multiple
<1>3. q = p
  BY <1>2
<1> QED
  BY <1>1, <1>3

(* The lowest digits of i, with base b, and the next one. *)
LEMMA NextDigit ==
  ASSUME NEW i \in Int, NEW m \in Nat \ {0}, NEW b \in Nat \ {0}
  PROVE  i % (b * m) = (i % m) + ((i \div m) % b) * m
<1> DEFINE q == i \div m
           r == i % m
           p == q \div b
           d == q % b
<1>1. q \in Int /\ r \in 0 .. m - 1 /\ i = m * q + r
  BY Division
<1>2. p \in Int /\ d \in 0 .. b - 1 /\ q = b * p + d
  <2> HIDE DEF q
  <2> QED
    BY <1>1, Division
<1>3. b * m \in Nat \ {0}
  OBVIOUS
<1>4. (i \div (b * m)) \in Int /\ i % (b * m) \in 0 .. b * m - 1
      /\ i = (b * m) * (i \div (b * m)) + (i % (b * m))
  BY <1>3, Division
<1> HIDE DEF q, r, p, d
<1>5. i = (b * m) * p + (r + d * m)
  <2>1. m * q = m * (b * p) + m * d
    BY <1>1, <1>2
  <2>2. m * (b * p) = (b * m) * p
    BY <1>2
  <2> QED
    BY <1>1, <1>2, <2>1, <2>2
<1>6. r + d * m \in 0 .. b * m - 1
  <2>1. d * m >= 0 /\ d * m \in Int
    BY <1>2
  <2>2. (b - 1 - d) * m >= 0
    BY <1>2
  <2>3. (b - 1 - d) * m = b * m - m - d * m
    BY <1>2
  <2> QED
    BY <1>1, <2>1, <2>2, <2>3, <1>3
<1>7. i % (b * m) = r + d * m
  <2>1. PICK M, I, J : M = b * m /\ I = i \div (b * m) /\ J = i % (b * m)
    OBVIOUS
  <2>2. M \in Nat \ {0} /\ I \in Int /\ J \in 0 .. M - 1 /\ i = M * I + J
    BY <1>3, <1>4, <2>1
  <2>3. i = M * p + (r + d * m) /\ r + d * m \in 0 .. M - 1 /\ p \in Int
    BY <1>2, <1>5, <1>6, <2>1
  <2>4. J = r + d * m
    BY <2>2, <2>3, DivisionIsUnique
  <2> QED
    BY <2>1, <2>4
<1> QED
  BY <1>7 DEF q, r, d

-----------------------------------------------------------------------------
(* Integers in memory *)

LEMMA InMemoryIs ==
  ASSUME NEW i \in Int, NEW n \in Nat
  PROVE  /\ InMemory(i, n) \in Seq(Byte) /\ Len(InMemory(i, n)) = n
         /\ \A k \in 1 .. n : InMemory(i, n)[k] = (i \div Weight[k - 1]) % Base
<1>1. \A k \in 1 .. n : (i \div Weight[k - 1]) % Base \in Byte
  <2> SUFFICES ASSUME NEW k \in 1 .. n PROVE (i \div Weight[k - 1]) % Base \in Byte
    OBVIOUS
  <2>1. Weight[k - 1] \in Nat \ {0} /\ Base \in Nat \ {0}
    <3>1. k - 1 \in Nat
      OBVIOUS
    <3> QED
      BY <3>1, Weights, BaseIs
  <2>2. i \div Weight[k - 1] \in Int
    BY <2>1, Division
  <2> QED
    BY <2>1, <2>2, Division DEF Byte
<1>2. InMemory(i, n) \in [1 .. n -> Byte]
  BY <1>1 DEF InMemory
<1>3. InMemory(i, n) \in Seq(Byte) /\ Len(InMemory(i, n)) = n
  BY <1>2
<1> QED
  BY <1>3 DEF InMemory

LEMMA FromInMemory ==
  ASSUME NEW i \in Int, NEW n \in Nat
  PROVE  FromMemory(InMemory(i, n)) = i % Weight[n]
<1> DEFINE cells == InMemory(i, n)
           E(f) == [k \in 0 .. n |-> IF k = 0 THEN 0 ELSE f[k - 1] + cells[k] * Weight[k - 1]]
           F == [k \in 0 .. n |-> i % Weight[k]]
           sum == CHOOSE f : f = E(f)
<1>1. Len(cells) = n /\ \A k \in 1 .. n : cells[k] = (i \div Weight[k - 1]) % Base
  BY InMemoryIs
<1>2. \A k \in Nat : Weight[k] \in Nat \ {0} /\ Weight[k + 1] = Base * Weight[k]
  BY Weights
<1>3. i % Weight[0] = 0
  BY Weights
<1>4. \A k \in 1 .. n : i % Weight[k] = (i % Weight[k - 1]) + cells[k] * Weight[k - 1]
  <2> SUFFICES ASSUME NEW k \in 1 .. n
               PROVE  i % Weight[k] = (i % Weight[k - 1]) + cells[k] * Weight[k - 1]
    OBVIOUS
  <2>1. PICK j \in Nat : j = k - 1
    OBVIOUS
  <2>2. PICK m \in Nat \ {0} : m = Weight[j]
    BY <1>2
  <2>3. Weight[k] = Base * m /\ Base \in Nat \ {0}
    <3>1. Weight[j + 1] = Base * Weight[j] /\ j + 1 = k
      BY <1>2, <2>1
    <3> QED
      BY <2>2, <3>1, BaseIs
  <2>4. i % (Base * m) = (i % m) + ((i \div m) % Base) * m
    BY <2>3, NextDigit
  <2> QED
    BY <1>1, <2>1, <2>2, <2>3, <2>4
<1> HIDE DEF cells
<1>5. F = E(F)
  BY <1>3, <1>4
<1>6. sum = E(sum)
  <2> HIDE DEF E, F
  <2> QED
    BY <1>5
<1>7. FromMemory(cells) = sum[n]
  BY <1>1 DEF FromMemory
<1> HIDE DEF sum
<1>8. \A k \in 0 .. n : sum[k] = IF k = 0 THEN 0 ELSE sum[k - 1] + cells[k] * Weight[k - 1]
  BY <1>6
<1> DEFINE T == {k \in Nat : k <= n => sum[k] = i % Weight[k]}
<1>9. 0 \in T
  BY <1>3, <1>8
<1>10. \A k \in Nat : k \in T => k + 1 \in T
  <2> SUFFICES ASSUME NEW k \in Nat, k + 1 <= n, sum[k] = i % Weight[k]
               PROVE  sum[k + 1] = i % Weight[k + 1]
    OBVIOUS
  <2>1. k + 1 \in 1 .. n /\ (k + 1) - 1 = k /\ k + 1 \in 0 .. n /\ k + 1 # 0
    OBVIOUS
  <2>2. sum[k + 1] = sum[k] + cells[k + 1] * Weight[k]
    BY <1>8, <2>1
  <2>3. i % Weight[k + 1] = (i % Weight[k]) + cells[k + 1] * Weight[k]
    BY <1>4, <2>1
  <2> QED
    BY <2>2, <2>3
<1>11. n \in T
  <2> HIDE DEF T
  <2> QED
    BY <1>9, <1>10, Induction
<1> QED
  BY <1>7, <1>11 DEF cells

-----------------------------------------------------------------------------
(* The encodings *)

BufferCells == -7 .. -1 \cup Byte

LEMMA CellsAre ==
  /\ Byte \subseteq BufferCells /\ Byte \subseteq Nat /\ 0 \in Byte
  /\ BUFFER_INTEGER \in BufferCells /\ BUFFER_BYTE \in BufferCells
  /\ BUFFER_NUMBER \in BufferCells /\ BUFFER_BOOLEAN \in BufferCells
  /\ BUFFER_STRING \in BufferCells /\ BUFFER_SMALLSTRING \in BufferCells
  /\ BUFFER_CARRAY \in BufferCells
BY BaseIs DEF BufferCells, Byte, BUFFER_INTEGER, BUFFER_BYTE, BUFFER_NUMBER, BUFFER_BOOLEAN,
              BUFFER_STRING, BUFFER_SMALLSTRING, BUFFER_CARRAY

LEMMA BytesAreCells ==
  ASSUME NEW s \in Seq(Byte)
  PROVE  s \in Seq(BufferCells) /\ Len(s) \in Nat /\ \A i \in 1 .. Len(s) : s[i] \in Byte
<1>1. Byte \subseteq BufferCells
  BY CellsAre
<1>2. s \in Seq(BufferCells)
  <2> HIDE DEF BufferCells, Byte
  <2> QED
    BY <1>1
<1>3. Len(s) \in Nat /\ \A i \in 1 .. Len(s) : s[i] \in Byte
  OBVIOUS
<1> QED
  BY <1>2, <1>3

(* Cells of three parts: a header, what it announces, and the rest. *)
LEMMA Parts ==
  ASSUME NEW S, NEW h \in Seq(S), NEW c \in Seq(S), NEW d \in Seq(S)
  PROVE  LET e == h \o c \o d IN
         /\ e \in Seq(S) /\ Len(e) = Len(h) + Len(c) + Len(d)
         /\ \A i \in 1 .. Len(h) : e[i] = h[i]
         /\ \A i \in 1 .. Len(c) : e[Len(h) + i] = c[i]
         /\ \A i \in 1 .. Len(d) : e[Len(h) + Len(c) + i] = d[i]
<1> DEFINE u == h \o c
           e == u \o d
<1>1. /\ u \in Seq(S) /\ Len(u) = Len(h) + Len(c) /\ Len(h) \in Nat /\ Len(c) \in Nat
      /\ Len(d) \in Nat
  BY ConcatProperties, LenProperties
<1>2. \A i \in 1 .. Len(h) : u[i] = h[i]
  BY <1>1, ConcatProperties
<1>3. \A i \in 1 .. Len(c) : u[Len(h) + i] = c[i]
  BY Halves
<1> HIDE DEF u
<1>4. e \in Seq(S) /\ Len(e) = Len(u) + Len(d)
  BY <1>1, ConcatProperties
<1>5. \A i \in 1 .. Len(u) : e[i] = u[i]
  BY <1>1, ConcatProperties
<1>6. \A i \in 1 .. Len(d) : e[Len(u) + i] = d[i]
  BY <1>1, Halves
<1> HIDE DEF e
<1>7. \A i \in 1 .. Len(h) : e[i] = h[i]
  BY <1>1, <1>2, <1>5
<1>8. \A i \in 1 .. Len(c) : e[Len(h) + i] = c[i]
  BY <1>1, <1>3, <1>5
<1>9. \A i \in 1 .. Len(d) : e[Len(h) + Len(c) + i] = d[i]
  BY <1>1, <1>6
<1> QED
  BY <1>1, <1>4, <1>7, <1>8, <1>9 DEF e, u

LEMMA ShortHeader ==
  ASSUME NEW S, NEW a \in S
  PROVE  <<a>> \in Seq(S) /\ Len(<<a>>) = 1 /\ <<a>>[1] = a
OBVIOUS

(* The cells e hold the header h, then c, then d. *)
HasParts(e, h, c, d) ==
  /\ {e, h, c, d} \subseteq Seq(BufferCells)
  /\ Len(e) = Len(h) + Len(c) + Len(d)
  /\ \A i \in 1 .. Len(h) : e[i] = h[i]
  /\ \A i \in 1 .. Len(c) : e[Len(h) + i] = c[i]
  /\ \A i \in 1 .. Len(d) : e[Len(h) + Len(c) + i] = d[i]

LEMMA ThreeParts ==
  ASSUME NEW h \in Seq(BufferCells), NEW c \in Seq(BufferCells), NEW d \in Seq(BufferCells)
  PROVE  HasParts(h \o c \o d, h, c, d)
BY Parts DEF HasParts

LEMMA TwoParts ==
  ASSUME NEW h \in Seq(BufferCells), NEW d \in Seq(BufferCells)
  PROVE  HasParts(h \o d, h, <<>>, d)
<1>1. <<>> \in Seq(BufferCells) /\ h \o <<>> = h
  BY ConcatEmptySeq
<1> QED
  BY <1>1, ThreeParts

LEMMA BooleanParts ==
  ASSUME NEW b \in Int
  PROVE  /\ EncodeBoolean(b) \in Seq(BufferCells) /\ Len(EncodeBoolean(b)) = 2
         /\ EncodeBoolean(b)[1] = BUFFER_BOOLEAN /\ EncodeBoolean(b)[2] = b % Base
<1>1. b % Base \in BufferCells
  BY Division, BaseIs, CellsAre DEF Byte
<1> QED
  BY <1>1, CellsAre DEF EncodeBoolean

LEMMA ByteParts ==
  ASSUME NEW i \in Byte
  PROVE  /\ EncodeInteger(i) \in Seq(BufferCells) /\ Len(EncodeInteger(i)) = 2
         /\ EncodeInteger(i)[1] = BUFFER_BYTE /\ EncodeInteger(i)[2] = i
<1>1. EncodeInteger(i) = <<BUFFER_BYTE, i>>
  BY BaseIs DEF EncodeInteger, Byte
<1> QED
  BY <1>1, CellsAre

LEMMA IntegerParts ==
  ASSUME NEW i \in Int, i \notin Byte
  PROVE  HasParts(EncodeInteger(i), <<BUFFER_INTEGER>>, <<>>, InMemory(i, IntSize))
<1>1. InMemory(i, IntSize) \in Seq(BufferCells) /\ <<BUFFER_INTEGER>> \in Seq(BufferCells)
  BY InMemoryIs, BytesAreCells, CellsAre, WriterAssumption
<1>2. EncodeInteger(i) = <<BUFFER_INTEGER>> \o InMemory(i, IntSize)
  BY BaseIs DEF EncodeInteger, Byte
<1> QED
  BY <1>1, <1>2, TwoParts

LEMMA NumberParts ==
  ASSUME NEW x \in Seq(Byte)
  PROVE  HasParts(EncodeNumber(x), <<BUFFER_NUMBER>>, <<>>, x)
<1>1. x \in Seq(BufferCells) /\ <<BUFFER_NUMBER>> \in Seq(BufferCells)
  BY BytesAreCells, CellsAre
<1> QED
  BY <1>1, TwoParts DEF EncodeNumber

LEMMA SmallStringParts ==
  ASSUME NEW s \in Seq(Byte), Len(s) <= Base - 1
  PROVE  HasParts(EncodeString(s), <<BUFFER_SMALLSTRING, Len(s)>>, <<>>, s) /\ Len(s) \in Byte
<1>1. s \in Seq(BufferCells) /\ Len(s) \in Byte
  BY BytesAreCells, BaseIs DEF Byte
<1>2. <<BUFFER_SMALLSTRING, Len(s)>> \in Seq(BufferCells)
  BY <1>1, CellsAre
<1> QED
  BY <1>1, <1>2, TwoParts DEF EncodeString

LEMMA LongStringParts ==
  ASSUME NEW s \in Seq(Byte), ~ (Len(s) <= Base - 1)
  PROVE  HasParts(EncodeString(s), <<BUFFER_STRING>>, InMemory(Len(s), SizeSize), s)
<1>1. s \in Seq(BufferCells) /\ Len(s) \in Int
  BY BytesAreCells
<1>2. InMemory(Len(s), SizeSize) \in Seq(BufferCells) /\ <<BUFFER_STRING>> \in Seq(BufferCells)
  BY <1>1, InMemoryIs, BytesAreCells, CellsAre, WriterAssumption
<1> QED
  BY <1>1, <1>2, ThreeParts DEF EncodeString

Count(a) == Len(a.data) \div a.elementSize

LEMMA ArrayIs ==
  ASSUME NEW a \in Arrays
  PROVE  /\ a.type \in Byte /\ a.elementSize \in Byte /\ a.data \in Seq(Byte) /\ Count(a) \in Nat
         /\ a = [type |-> a.type, elementSize |-> a.elementSize, data |-> a.data]
         /\ a.elementSize * Count(a) = Len(a.data) /\ Count(a) < Weight[SizeSize]
<1>1. /\ a \in [type : Byte, elementSize : Byte \ {0}, data : Seq(Byte)]
      /\ Len(a.data) % a.elementSize = 0 /\ Count(a) < Weight[SizeSize]
  BY WriterAssumption DEF Count
<1>2. /\ a.type \in Byte /\ a.elementSize \in Byte /\ a.data \in Seq(Byte)
      /\ a = [type |-> a.type, elementSize |-> a.elementSize, data |-> a.data]
  BY <1>1
<1>3. PICK m, l : m = a.elementSize /\ l = Len(a.data)
  OBVIOUS
<1>4. m \in Nat \ {0}
  BY <1>1, <1>3, CellsAre
<1>5. l \in Nat
  BY <1>2, <1>3, LenProperties
<1>6. Count(a) \in Nat /\ l = m * Count(a)
  <2>1. PICK q : q = l \div m
    OBVIOUS
  <2>2. q \in Int /\ l % m \in 0 .. m - 1 /\ l = m * q + (l % m)
    BY <1>4, <1>5, <2>1, Division
  <2>3. l % m = 0
    BY <1>1, <1>3
  <2>4. l = m * q
    BY <1>4, <1>5, <2>2, <2>3
  <2>5. q >= 0
    BY <1>4, <1>5, <2>1
  <2>6. Count(a) = q
    BY <1>3, <2>1 DEF Count
  <2> QED
    BY <2>2, <2>4, <2>5, <2>6
<1> QED
  BY <1>1, <1>2, <1>3, <1>6

LEMMA ArrayParts ==
  ASSUME NEW a \in Arrays
  PROVE  HasParts(EncodeArray(a), <<BUFFER_CARRAY, a.type, a.elementSize>>,
                  InMemory(Count(a), SizeSize), a.data)
<1>1. a.data \in Seq(BufferCells) /\ Count(a) \in Nat
  BY ArrayIs, BytesAreCells
<1>2. InMemory(Count(a), SizeSize) \in Seq(BufferCells)
  BY <1>1, InMemoryIs, BytesAreCells, WriterAssumption
<1>3. <<BUFFER_CARRAY, a.type, a.elementSize>> \in Seq(BufferCells)
  BY ArrayIs, CellsAre
<1> QED
  BY <1>1, <1>2, <1>3, ThreeParts DEF EncodeArray, Count

LEMMA BytesParts ==
  ASSUME NEW s \in Seq(Byte)
  PROVE  LET e == EncodeBytes(s) IN
         /\ e \in Seq(BufferCells) /\ Len(e) = 2 * Len(s)
         /\ \A i \in 1 .. Len(s) : e[2 * i - 1] = BUFFER_BYTE /\ e[2 * i] = s[i]
<1>1. Len(s) \in Nat /\ \A i \in 1 .. Len(s) : s[i] \in Byte
  BY BytesAreCells
<1>2. \A k \in 1 .. 2 * Len(s) : k % 2 # 1 => k \div 2 \in 1 .. Len(s)
  BY <1>1
<1>3. EncodeBytes(s) \in [1 .. 2 * Len(s) -> BufferCells]
  BY <1>1, <1>2, CellsAre DEF EncodeBytes
<1>4. EncodeBytes(s) \in Seq(BufferCells) /\ Len(EncodeBytes(s)) = 2 * Len(s)
  <2>1. 2 * Len(s) \in Nat
    BY <1>1
  <2> QED
    BY <1>3, <2>1
<1>5. \A i \in 1 .. Len(s) : /\ 2 * i - 1 \in 1 .. 2 * Len(s) /\ (2 * i - 1) % 2 = 1
                             /\ 2 * i \in 1 .. 2 * Len(s) /\ (2 * i) % 2 = 0 /\ (2 * i) \div 2 = i
  BY <1>1
<1>6. \A i \in 1 .. Len(s) : EncodeBytes(s)[2 * i - 1] = BUFFER_BYTE /\ EncodeBytes(s)[2 * i] = s[i]
  BY <1>5 DEF EncodeBytes
<1> QED
  BY <1>4, <1>6

-----------------------------------------------------------------------------
(* What the add functions do to the buffer *)

BufferInv == TypeOK /\ FitsCapacity

(* Added together, the values make these cells. *)
Appended(values, e) ==
  /\ bytes' = bytes \o e
  /\ nargs' = nargs + Len(values)
  /\ added' = added \o values

LEMMA GrownIs ==
  ASSUME TypeOK, NEW length \in Nat
  PROVE  Grown(length) \in Nat /\ Grown(length) >= length
<1>1. capacity \in Nat /\ growFactor \in Nat
  BY WriterAssumption DEF TypeOK
<1>2. PICK p : p = capacity * growFactor
  OBVIOUS
<1>3. p \in Nat
  BY <1>1, <1>2
<1>4. p \div 2 \in Nat
  BY <1>3
<1>5. Grown(length) = IF p \div 2 < length THEN length ELSE p \div 2
  BY <1>2 DEF Grown
<1> QED
  BY <1>4, <1>5

LEMMA ReservationsAre ==
  ASSUME BufferInv, NEW n \in Nat, NEW r \in Reservations(n)
  PROVE  /\ r.allocated = (r.capacity > 0) /\ r.capacity \in 0 .. MaxCapacity
         /\ r.capacity >= Len(bytes)
         /\ r.rc = 0 => r.capacity >= Len(bytes) + n
<1>1. /\ Len(bytes) \in Nat /\ capacity \in 0 .. MaxCapacity /\ MaxCapacity \in Nat
      /\ Len(bytes) <= capacity /\ allocated = (capacity > 0)
  BY WriterAssumption, LenProperties DEF BufferInv, TypeOK, FitsCapacity
<1>2. PICK length \in Nat : length = Len(bytes) + n
  BY <1>1
<1>3. ASSUME r = Unchanged(0) \/ r = Unchanged(1) \/ r = Unchanged(2),
             r = Unchanged(0) => length <= capacity
      PROVE  /\ r.allocated = (r.capacity > 0) /\ r.capacity \in 0 .. MaxCapacity
             /\ r.capacity >= Len(bytes) /\ (r.rc = 0 => r.capacity >= length)
  BY <1>1, <1>3 DEF Unchanged
<1>4. ASSUME NEW m \in Nat, m >= length, m > 0, r \in Allocations(m)
      PROVE  /\ r.allocated = (r.capacity > 0) /\ r.capacity \in 0 .. MaxCapacity
             /\ r.capacity >= Len(bytes) /\ (r.rc = 0 => r.capacity >= length)
  <2>1. CASE r = Unchanged(2)
    <3>1. r # Unchanged(0)
      BY <2>1 DEF Unchanged
    <3> QED
      BY <1>3, <2>1, <3>1
  <2>2. CASE m <= MaxCapacity /\ r = [rc |-> 0, allocated |-> TRUE, capacity |-> m]
    <3>1. r.rc = 0 /\ r.allocated = TRUE /\ r.capacity = m
      BY <2>2
    <3>2. m \in 0 .. MaxCapacity /\ m >= Len(bytes)
      BY <1>1, <1>2, <1>4, <2>2
    <3> QED
      BY <1>4, <3>1, <3>2
  <2> QED
    BY <1>4, <2>1, <2>2 DEF Allocations
<1>5. CASE length <= capacity
  BY <1>2, <1>3, <1>5 DEF Reservations
<1>6. CASE ~ (length <= capacity) /\ ~ allocated
  <2>1. r \in Allocations(2 * length) /\ 2 * length \in Nat /\ 2 * length >= length /\ 2 * length > 0
    BY <1>1, <1>2, <1>6 DEF Reservations
  <2> QED
    BY <1>2, <1>4, <2>1
<1>7. CASE ~ (length <= capacity) /\ allocated /\ growFactor > 0
  <2>1. r \in Allocations(Grown(length))
    BY <1>2, <1>7 DEF Reservations
  <2>2. Grown(length) \in Nat /\ Grown(length) >= length /\ Grown(length) > 0
    BY <1>1, <1>7, GrownIs DEF BufferInv
  <2> QED
    BY <1>2, <1>4, <2>1, <2>2
<1>8. CASE ~ (length <= capacity) /\ allocated /\ ~ (growFactor > 0)
  <2>1. r = Unchanged(1)
    BY <1>2, <1>8 DEF Reservations
  <2> QED
    BY <1>2, <1>3, <2>1 DEF Unchanged
<1> QED
  BY <1>5, <1>6, <1>7, <1>8

LEMMA AddStep ==
  ASSUME BufferInv, NEW V, NEW values \in Seq(V), NEW e \in Seq(BufferCells), Add(values, e)
  PROVE  BufferInv' /\ (Appended(values, e) \/ UNCHANGED <<bytes, nargs, added>>)
<1>1. Len(e) \in Nat /\ Len(values) \in Nat /\ bytes \in Seq(BufferCells) /\ Len(bytes) \in Nat
  BY LenProperties DEF BufferInv, TypeOK, BufferCells
<1>2. PICK r \in Reservations(Len(e)) :
         /\ allocated' = r.allocated /\ capacity' = r.capacity
         /\ IF r.rc = 0
            THEN bytes' = bytes \o e /\ nargs' = nargs + NumberOf(values) /\ added' = added \o values
            ELSE UNCHANGED <<bytes, nargs, added>>
  BY DEF Add
<1>3. /\ r.allocated = (r.capacity > 0) /\ r.capacity \in 0 .. MaxCapacity
      /\ r.capacity >= Len(bytes)
      /\ r.rc = 0 => r.capacity >= Len(bytes) + Len(e)
  BY <1>1, <1>2, ReservationsAre
<1>4. open' \in BOOLEAN /\ growFactor' \in GrowFactors \cup {0}
      /\ allocated' = (capacity' > 0) /\ capacity' \in 0 .. MaxCapacity
  BY <1>2, <1>3 DEF Add, BufferInv, TypeOK
<1>5. CASE r.rc = 0
  <2>1. Appended(values, e)
    BY <1>2, <1>5 DEF Appended, NumberOf
  <2>2. bytes \o e \in Seq(BufferCells) /\ Len(bytes \o e) = Len(bytes) + Len(e)
    BY <1>1, ConcatProperties
  <2>3. bytes' \in Seq(BufferCells) /\ Len(bytes') = Len(bytes) + Len(e)
    BY <2>1, <2>2 DEF Appended
  <2>4. nargs' \in Nat
    BY <1>1, <2>1 DEF Appended, BufferInv, TypeOK
  <2>5. FitsCapacity'
    BY <1>2, <1>3, <1>5, <2>3 DEF FitsCapacity
  <2> QED
    BY <1>4, <2>1, <2>3, <2>4, <2>5 DEF BufferInv, TypeOK, BufferCells
<1>6. CASE r.rc # 0
  <2>1. UNCHANGED <<bytes, nargs, added>>
    BY <1>2, <1>6
  <2>2. FitsCapacity'
    BY <1>2, <1>3, <2>1 DEF FitsCapacity
  <2> QED
    BY <1>4, <2>1, <2>2 DEF BufferInv, TypeOK
<1> QED
  BY <1>5, <1>6

LEMMA NothingAllocated ==
  ASSUME NEW a, NEW c, a = FALSE, c = 0
  PROVE  a = (c > 0) /\ c \in 0 .. MaxCapacity
<1>1. (c > 0) = FALSE
  OBVIOUS
<1>2. c \in 0 .. MaxCapacity
  BY WriterAssumption
<1> QED
  BY <1>1, <1>2

LEMMA EmptyIsTyped ==
  ASSUME Empty
  PROVE  bytes' \in Seq(BufferCells) /\ Len(bytes') = 0 /\ nargs' \in Nat
BY DEF Empty

LEMMA InitBuffer == Init => BufferInv
<1> SUFFICES ASSUME Init PROVE BufferInv
  OBVIOUS
<1>1. bytes \in Seq(BufferCells) /\ Len(bytes) = 0
  BY DEF Init
<1>2. capacity \in 0 .. MaxCapacity /\ allocated = (capacity > 0)
  BY NothingAllocated DEF Init
<1>4. Len(bytes) <= capacity
  BY <1>1 DEF Init
<1>3. open \in BOOLEAN /\ growFactor \in GrowFactors \cup {0} /\ nargs \in Nat
  BY DEF Init
<1> QED
  BY <1>1, <1>2, <1>3, <1>4 DEF BufferInv, TypeOK, FitsCapacity, BufferCells

LEMMA OtherStepsKeepBuffer ==
  ASSUME BufferInv,
         \/ \E n \in Capacities, factor \in GrowFactors : NewWriter(n, factor)
         \/ FreeWriter
         \/ ClearWriter
         \/ \E rc \in {0, 1, 990, 999} : MsgToReceiver(rc)
         \/ UNCHANGED vars
  PROVE  BufferInv'
<1> USE DEF BufferInv, TypeOK, FitsCapacity
<1>0. capacity \in Nat /\ MaxCapacity \in Nat
  BY WriterAssumption
<1>1. ASSUME Empty, open' \in BOOLEAN, growFactor' \in GrowFactors \cup {0},
             allocated' = (capacity' > 0), capacity' \in 0 .. MaxCapacity
      PROVE  BufferInv'
  <2>1. bytes' \in Seq(BufferCells) /\ Len(bytes') = 0 /\ nargs' \in Nat
    BY <1>1, EmptyIsTyped
  <2> QED
    BY <1>0, <1>1, <2>1 DEF BufferCells
<1>2. ASSUME NEW n \in Capacities, NEW factor \in GrowFactors, NewWriter(n, factor)
      PROVE  BufferInv'
  <2>1. n \in Nat
    BY WriterAssumption
  <2> QED
    BY <1>0, <1>1, <1>2, <2>1 DEF NewWriter
<1>3. CASE FreeWriter
  <2>1. /\ Empty /\ open' \in BOOLEAN /\ growFactor' \in GrowFactors \cup {0}
        /\ allocated' = FALSE /\ capacity' = 0
    BY <1>3 DEF FreeWriter
  <2>2. allocated' = (capacity' > 0) /\ capacity' \in 0 .. MaxCapacity
    BY <2>1, NothingAllocated
  <2> QED
    BY <1>1, <2>1, <2>2
<1>4. CASE ClearWriter
  BY <1>0, <1>1, <1>4 DEF ClearWriter
<1>5. ASSUME NEW rc \in {0, 1, 990, 999}, MsgToReceiver(rc)
      PROVE  BufferInv'
  <2>1. CASE rc = 0
    BY <1>0, <1>1, <1>5, <2>1 DEF MsgToReceiver
  <2>2. CASE rc # 0
    BY <1>5, <2>2 DEF MsgToReceiver
  <2> QED
    BY <2>1, <2>2
<1>6. CASE UNCHANGED vars
  BY <1>6 DEF vars
<1> QED
  BY <1>2, <1>3, <1>4, <1>5, <1>6

-----------------------------------------------------------------------------
(* What the callback is given for the encoding of a value *)

LEMMA Remainder ==
  ASSUME NEW i \in Int, NEW m \in Nat \ {0}
  PROVE  /\ i \in 0 .. m - 1 => i % m = i
         /\ i \in -m .. -1 => i % m = i + m
<1>1. PICK q, r : q = i \div m /\ r = i % m
  OBVIOUS
<1>2. q \in Int /\ r \in 0 .. m - 1 /\ i = m * q + r
  BY <1>1, Division
<1>3. ASSUME i \in 0 .. m - 1 PROVE r = i
  <2>1. i = m * 0 + i
    OBVIOUS
  <2>2. PICK z \in Int : z = 0
    OBVIOUS
  <2>3. m * q + r = m * z + i
    BY <1>2, <2>1, <2>2
  <2> QED
    BY <1>2, <1>3, <2>3, DivisionIsUnique
<1>4. ASSUME i \in -m .. -1 PROVE r = i + m
  <2>1. PICK z \in Int, s \in 0 .. m - 1 : z = -1 /\ s = i + m
    BY <1>4
  <2>2. m * z = -m
    BY <2>1
  <2>3. m * q + r = m * z + s
    BY <1>2, <2>1, <2>2
  <2>4. r = s
    BY <1>2, <2>3, DivisionIsUnique
  <2> QED
    BY <2>1, <2>4
<1> QED
  BY <1>1, <1>3, <1>4

(* The range of the integers of n bytes. *)
InRange(i, n) == i \in -(Weight[n] \div 2) .. (Weight[n] \div 2 - 1)

LEMMA SignedIs ==
  ASSUME NEW n \in Nat, NEW i \in Int, InRange(i, n)
  PROVE  Signed(i % Weight[n], n) = i
<1>1. PICK m \in Nat \ {0} : m = Weight[n]
  BY Weights
<1>2. m \div 2 \in Nat /\ 2 * (m \div 2) <= m
  BY <1>1
<1>3. i \in -(m \div 2) .. (m \div 2 - 1)
  BY <1>1 DEF InRange
<1>4. Signed(i % m, n) = IF i % m >= m \div 2 THEN (i % m) - m ELSE i % m
  BY <1>1 DEF Signed
<1>5. CASE i >= 0
  <2>1. i \in 0 .. m - 1
    BY <1>2, <1>3, <1>5
  <2>2. i % m = i
    BY <1>1, <2>1, Remainder
  <2> QED
    BY <1>1, <1>3, <1>4, <2>2
<1>6. CASE i < 0
  <2>1. i \in -m .. -1
    BY <1>2, <1>3, <1>6
  <2>2. i % m = i + m
    BY <1>1, <2>1, Remainder
  <2>3. i + m >= m \div 2 /\ (i + m) - m = i
    BY <1>1, <1>2, <1>3, <1>6
  <2> QED
    BY <1>1, <1>4, <2>2, <2>3
<1> QED
  BY <1>5, <1>6

(* The cells hold e from position from on. *)
Sits(cells, from, e) ==
  /\ {cells, e} \subseteq Seq(BufferCells)
  /\ from \in Nat /\ from >= 1
  /\ from + Len(e) - 1 <= Len(cells)
  /\ \A i \in 1 .. Len(e) : cells[from + i - 1] = e[i]

LEMMA BlockIs ==
  ASSUME NEW cells \in Seq(BufferCells), NEW d \in Seq(BufferCells), NEW at \in Nat, at >= 1,
         at + Len(d) - 1 <= Len(cells), \A i \in 1 .. Len(d) : cells[at + i - 1] = d[i]
  PROVE  Block(cells, at, Len(d)) = d
<1>1. Len(cells) \in Nat /\ Len(d) \in Nat
  BY LenProperties
<1>2. PICK n : n = at + Len(d) - 1
  OBVIOUS
<1>3. n \in Int /\ n <= Len(cells) /\ Len(d) = n - at + 1
  BY <1>1, <1>2
<1>4. \A i \in at .. n : cells[i] \in BufferCells
  <2> SUFFICES ASSUME NEW i \in at .. n PROVE cells[i] \in BufferCells
    OBVIOUS
  <2>1. i \in 1 .. Len(cells)
    BY <1>1, <1>3
  <2> HIDE DEF BufferCells
  <2> QED
    BY <2>1, ElementOfSeq
<1>5. PICK b : b = SubSeq(cells, at, n)
  OBVIOUS
<1>6. /\ b \in Seq(BufferCells) /\ Len(b) = (IF at <= n THEN n - at + 1 ELSE 0)
      /\ \A i \in 1 .. n - at + 1 : b[i] = cells[at + i - 1]
  <2> HIDE DEF BufferCells
  <2> QED
    BY <1>3, <1>4, <1>5, SubSeqProperties
<1>7. Len(b) = Len(d) /\ \A i \in 1 .. Len(b) : b[i] = d[i]
  <2>1. PICK l \in Nat : l = Len(d)
    BY <1>1
  <2>2. n - at + 1 = l /\ (at <= n \/ l = 0)
    BY <1>3, <2>1
  <2>3. Len(b) = l
    BY <1>6, <2>2
  <2>4. \A i \in 1 .. l : b[i] = cells[at + i - 1]
    BY <1>6, <2>2
  <2> QED
    BY <2>1, <2>3, <2>4
<1>8. b = d
  <2> HIDE DEF BufferCells
  <2> QED
    BY <1>6, <1>7, SeqEqual
<1> QED
  BY <1>2, <1>5, <1>8 DEF Block

(* The cells hold the header h from position from on, then c, then d. *)
PartsIn(cells, from, h, c, d) ==
  /\ \A i \in 1 .. Len(h) : cells[from + i - 1] = h[i]
  /\ Block(cells, from + Len(h), Len(c)) = c
  /\ Block(cells, from + Len(h) + Len(c), Len(d)) = d

LEMMA PartsSit ==
  ASSUME NEW cells, NEW from, NEW e, NEW h, NEW c, NEW d,
         Sits(cells, from, e), HasParts(e, h, c, d)
  PROVE  PartsIn(cells, from, h, c, d)
<1>1. /\ cells \in Seq(BufferCells) /\ h \in Seq(BufferCells) /\ c \in Seq(BufferCells)
      /\ d \in Seq(BufferCells) /\ from \in Nat /\ from >= 1
  BY DEF Sits, HasParts
<1>2. PICK k, l, m : k = Len(h) /\ l = Len(c) /\ m = Len(d)
  OBVIOUS
<1>3. k \in Nat /\ l \in Nat /\ m \in Nat /\ Len(cells) \in Nat /\ Len(e) = k + l + m
  <2>1. k \in Nat /\ l \in Nat
    BY <1>1, <1>2, LenProperties
  <2>2. m \in Nat /\ Len(cells) \in Nat
    BY <1>1, <1>2, LenProperties
  <2> QED
    BY <1>2, <2>1, <2>2 DEF HasParts
<1>4. /\ from + (k + l + m) - 1 <= Len(cells)
      /\ \A i \in 1 .. k + l + m : cells[from + i - 1] = e[i]
  BY <1>3 DEF Sits
<1>5. \A i \in 1 .. k : cells[from + i - 1] = h[i]
  <2>1. \A i \in 1 .. k : i \in 1 .. k + l + m
    BY <1>3
  <2> QED
    BY <1>2, <1>4, <2>1 DEF HasParts
<1>6. \A i \in 1 .. l : cells[(from + k) + i - 1] = c[i]
  <2> SUFFICES ASSUME NEW i \in 1 .. l PROVE cells[(from + k) + i - 1] = c[i]
    OBVIOUS
  <2>1. k + i \in 1 .. k + l + m /\ (from + k) + i - 1 = from + (k + i) - 1
    BY <1>1, <1>3
  <2>2. e[k + i] = c[i]
    BY <1>2 DEF HasParts
  <2> QED
    BY <1>4, <2>1, <2>2
<1>7. \A i \in 1 .. m : cells[(from + k + l) + i - 1] = d[i]
  <2> SUFFICES ASSUME NEW i \in 1 .. m PROVE cells[(from + k + l) + i - 1] = d[i]
    OBVIOUS
  <2>1. k + l + i \in 1 .. k + l + m /\ (from + k + l) + i - 1 = from + (k + l + i) - 1
    BY <1>1, <1>3
  <2>2. e[k + l + i] = d[i]
    BY <1>2 DEF HasParts
  <2> QED
    BY <1>4, <2>1, <2>2
<1>8. PICK a, b : a = from + k /\ b = from + k + l
  OBVIOUS
<1>9. /\ a \in Nat /\ a >= 1 /\ a + l - 1 <= Len(cells)
      /\ b \in Nat /\ b >= 1 /\ b + m - 1 <= Len(cells)
  BY <1>1, <1>3, <1>4, <1>8
<1>10. Block(cells, a, l) = c
  BY <1>1, <1>2, <1>6, <1>8, <1>9, BlockIs
<1>11. Block(cells, b, m) = d
  BY <1>1, <1>2, <1>7, <1>8, <1>9, BlockIs
<1> QED
  BY <1>2, <1>5, <1>8, <1>10, <1>11 DEF PartsIn

LEMMA TagsDiffer ==
  /\ BUFFER_INTEGER \notin {BUFFER_BYTE, BUFFER_BOOLEAN}
  /\ BUFFER_BYTE # BUFFER_BOOLEAN
  /\ BUFFER_NUMBER \notin {BUFFER_BYTE, BUFFER_BOOLEAN, BUFFER_INTEGER}
  /\ BUFFER_SMALLSTRING \notin {BUFFER_BYTE, BUFFER_BOOLEAN, BUFFER_INTEGER, BUFFER_NUMBER}
  /\ BUFFER_STRING \notin {BUFFER_BYTE, BUFFER_BOOLEAN, BUFFER_INTEGER, BUFFER_NUMBER,
                           BUFFER_SMALLSTRING}
  /\ BUFFER_CARRAY \notin {BUFFER_BYTE, BUFFER_BOOLEAN, BUFFER_INTEGER, BUFFER_NUMBER,
                           BUFFER_SMALLSTRING, BUFFER_STRING}
BY DEF BUFFER_INTEGER, BUFFER_BYTE, BUFFER_NUMBER, BUFFER_BOOLEAN, BUFFER_STRING,
       BUFFER_SMALLSTRING, BUFFER_CARRAY

LEMMA HeaderSits ==
  ASSUME NEW cells, NEW from, NEW h, from \in Nat, \A i \in 1 .. Len(h) : cells[from + i - 1] = h[i]
  PROVE  /\ Len(h) = 1 => cells[from] = h[1]
         /\ Len(h) = 2 => cells[from] = h[1] /\ cells[from + 1] = h[2]
         /\ Len(h) = 3 => cells[from] = h[1] /\ cells[from + 1] = h[2] /\ cells[from + 2] = h[3]
<1>1. from + 1 - 1 = from /\ from + 2 - 1 = from + 1 /\ from + 3 - 1 = from + 2
  OBVIOUS
<1>2. 1 \in 1 .. 1 /\ 1 \in 1 .. 2 /\ 2 \in 1 .. 2 /\ 1 \in 1 .. 3 /\ 2 \in 1 .. 3 /\ 3 \in 1 .. 3
  OBVIOUS
<1> QED
  BY <1>1, <1>2

(* At position from the callback is given the value v, for as many cells as e has. *)
Decodes(cells, from, v, e) ==
  Decode(cells[from], cells, from + 1) = Item(v, Len(e) - 1) /\ Len(e) >= 1

LEMMA NumberDecodes ==
  ASSUME NEW cells, NEW from, NEW x \in Numbers, NEW e, e = EncodeNumber(x), Sits(cells, from, e)
  PROVE  Decodes(cells, from, Number(x), e)
<1>1. PICK h, c : h = <<BUFFER_NUMBER>> /\ c = <<>>
  OBVIOUS
<1>2. x \in Seq(Byte) /\ Len(x) = NumberSize /\ NumberSize \in Nat \ {0}
  BY WriterAssumption
<1>3. HasParts(e, h, c, x)
  BY <1>1, <1>2, NumberParts
<1>4. Len(h) = 1 /\ h[1] = BUFFER_NUMBER /\ Len(c) = 0
  BY <1>1
<1>5. from \in Nat
  BY DEF Sits
<1>6. PartsIn(cells, from, h, c, x)
  BY <1>3, PartsSit
<1>7. cells[from] = BUFFER_NUMBER
  BY <1>4, <1>5, <1>6, HeaderSits DEF PartsIn
<1>8. from + 1 + 0 = from + 1
  BY <1>5
<1>9. Block(cells, from + 1, NumberSize) = x
  BY <1>2, <1>4, <1>6, <1>8 DEF PartsIn
<1>10. Decode(BUFFER_NUMBER, cells, from + 1) = Item(Number(x), NumberSize)
  BY <1>9, TagsDiffer DEF Decode
<1>11. Len(e) - 1 = NumberSize /\ Len(e) >= 1
  BY <1>2, <1>3, <1>4 DEF HasParts
<1> QED
  BY <1>7, <1>10, <1>11 DEF Decodes

LEMMA IntegerDecodes ==
  ASSUME NEW cells, NEW from, NEW i \in Int, InRange(i, IntSize), i \notin Byte,
         NEW e, e = EncodeInteger(i), Sits(cells, from, e)
  PROVE  Decodes(cells, from, Integer(i), e)
<1>1. PICK h, c, d : h = <<BUFFER_INTEGER>> /\ c = <<>> /\ d = InMemory(i, IntSize)
  OBVIOUS
<1>2. IntSize \in Nat \ {0} /\ Len(d) = IntSize
  BY <1>1, InMemoryIs, WriterAssumption
<1>3. HasParts(e, h, c, d)
  BY <1>1, IntegerParts
<1>4. Len(h) = 1 /\ h[1] = BUFFER_INTEGER /\ Len(c) = 0
  BY <1>1
<1>5. from \in Nat
  BY DEF Sits
<1>6. PartsIn(cells, from, h, c, d)
  BY <1>3, PartsSit
<1>7. cells[from] = BUFFER_INTEGER
  BY <1>4, <1>5, <1>6, HeaderSits DEF PartsIn
<1>8. from + 1 + 0 = from + 1
  BY <1>5
<1>9. Block(cells, from + 1, IntSize) = d
  BY <1>2, <1>4, <1>6, <1>8 DEF PartsIn
<1>10. Signed(FromMemory(d), IntSize) = i
  BY <1>1, <1>2, FromInMemory, SignedIs
<1>11. Decode(BUFFER_INTEGER, cells, from + 1) = Item(Integer(i), IntSize)
  BY <1>9, <1>10, TagsDiffer DEF Decode
<1>12. Len(e) - 1 = IntSize /\ Len(e) >= 1
  BY <1>2, <1>3, <1>4 DEF HasParts
<1> QED
  BY <1>7, <1>11, <1>12 DEF Decodes

LEMMA ByteDecodes ==
  ASSUME NEW cells, NEW from, NEW i \in Byte, NEW e, e = EncodeInteger(i), Sits(cells, from, e)
  PROVE  Decodes(cells, from, Integer(i), e)
<1>1. e \in Seq(BufferCells) /\ Len(e) = 2 /\ e[1] = BUFFER_BYTE /\ e[2] = i
  BY ByteParts
<1>2. from \in Nat /\ \A k \in 1 .. Len(e) : cells[from + k - 1] = e[k]
  BY DEF Sits
<1>3. cells[from] = BUFFER_BYTE /\ cells[from + 1] = i
  BY <1>1, <1>2, HeaderSits
<1>4. Decode(BUFFER_BYTE, cells, from + 1) = Item(Integer(i), 1)
  BY <1>3, TagsDiffer DEF Decode
<1> QED
  BY <1>1, <1>3, <1>4 DEF Decodes

LEMMA BooleanDecodes ==
  ASSUME NEW cells, NEW from, NEW b \in Int, b % Base = 0 => b = 0,
         NEW e, e = EncodeBoolean(b), Sits(cells, from, e)
  PROVE  Decodes(cells, from, Bool(b # 0), e)
<1>1. e \in Seq(BufferCells) /\ Len(e) = 2 /\ e[1] = BUFFER_BOOLEAN /\ e[2] = b % Base
  BY BooleanParts
<1>2. from \in Nat /\ \A k \in 1 .. Len(e) : cells[from + k - 1] = e[k]
  BY DEF Sits
<1>3. cells[from] = BUFFER_BOOLEAN /\ cells[from + 1] = b % Base
  BY <1>1, <1>2, HeaderSits
<1>4. (b % Base # 0) = (b # 0)
  <2>1. b = 0 => b % Base = 0
    <3>1. 0 \in 0 .. Base - 1
      BY BaseIs
    <3>2. PICK z \in Int : z = 0
      OBVIOUS
    <3> QED
      BY <3>1, <3>2, BaseIs, Remainder
  <2> QED
    BY <2>1
<1>5. Decode(BUFFER_BOOLEAN, cells, from + 1) = Item(Bool(cells[from + 1] # 0), 1)
  BY TagsDiffer DEF Decode, Item, Bool
<1>6. Bool(cells[from + 1] # 0) = Bool(b # 0)
  BY <1>3, <1>4
<1> QED
  BY <1>1, <1>3, <1>5, <1>6 DEF Decodes

LEMMA SmallStringDecodes ==
  ASSUME NEW cells, NEW from, NEW s \in Seq(Byte), Len(s) <= Base - 1,
         NEW e, e = EncodeString(s), Sits(cells, from, e)
  PROVE  Decodes(cells, from, String(s), e)
<1>1. PICK h, c : h = <<BUFFER_SMALLSTRING, Len(s)>> /\ c = <<>>
  OBVIOUS
<1>2. PICK n \in Nat : n = Len(s)
  BY BytesAreCells
<1>3. HasParts(e, h, c, s)
  BY <1>1, SmallStringParts
<1>4. Len(h) = 2 /\ h[1] = BUFFER_SMALLSTRING /\ h[2] = n /\ Len(c) = 0
  BY <1>1, <1>2
<1>5. from \in Nat
  BY DEF Sits
<1>6. PartsIn(cells, from, h, c, s)
  BY <1>3, PartsSit
<1>7. cells[from] = BUFFER_SMALLSTRING /\ cells[from + 1] = n
  BY <1>4, <1>5, <1>6, HeaderSits DEF PartsIn
<1>8. from + 2 + 0 = (from + 1) + 1
  BY <1>5
<1>9. Block(cells, (from + 1) + 1, n) = s
  BY <1>2, <1>4, <1>6, <1>8 DEF PartsIn
<1>10. Decode(BUFFER_SMALLSTRING, cells, from + 1) = Item(String(s), 1 + n)
  BY <1>7, <1>9, TagsDiffer DEF Decode
<1>11. Len(e) - 1 = 1 + n /\ Len(e) >= 1
  BY <1>2, <1>3, <1>4 DEF HasParts
<1> QED
  BY <1>7, <1>10, <1>11 DEF Decodes

(* A number of elements is in the memory of a size_t. *)
LEMMA SizeIs ==
  ASSUME NEW n \in Nat, n < Weight[SizeSize]
  PROVE  /\ FromMemory(InMemory(n, SizeSize)) = n
         /\ Len(InMemory(n, SizeSize)) = SizeSize /\ SizeSize \in Nat
<1>1. SizeSize \in Nat
  BY WriterAssumption
<1>2. PICK m \in Nat \ {0} : m = Weight[SizeSize]
  BY <1>1, Weights
<1>3. n % m = n
  <2>1. n \in 0 .. m - 1
    BY <1>2
  <2> QED
    BY <2>1, Remainder
<1> QED
  BY <1>1, <1>2, <1>3, FromInMemory, InMemoryIs

LEMMA LongStringDecodes ==
  ASSUME NEW cells, NEW from, NEW s \in Strings, ~ (Len(s) <= Base - 1),
         NEW e, e = EncodeString(s), Sits(cells, from, e)
  PROVE  Decodes(cells, from, String(s), e)
<1>0. s \in Seq(Byte) /\ Len(s) < Weight[SizeSize]
  BY WriterAssumption
<1>1. PICK h, c : h = <<BUFFER_STRING>> /\ c = InMemory(Len(s), SizeSize)
  OBVIOUS
<1>2. PICK n \in Nat : n = Len(s)
  BY <1>0, BytesAreCells
<1>3. HasParts(e, h, c, s)
  BY <1>0, <1>1, LongStringParts
<1>4. Len(h) = 1 /\ h[1] = BUFFER_STRING /\ Len(c) = SizeSize /\ SizeSize \in Nat
      /\ FromMemory(c) = n
  BY <1>0, <1>1, <1>2, SizeIs
<1>5. from \in Nat
  BY DEF Sits
<1>6. PartsIn(cells, from, h, c, s)
  BY <1>3, PartsSit
<1>7. cells[from] = BUFFER_STRING
  BY <1>4, <1>5, <1>6, HeaderSits DEF PartsIn
<1>8. FromMemory(Block(cells, from + 1, SizeSize)) = n
  BY <1>4, <1>6 DEF PartsIn
<1>9. Block(cells, (from + 1) + SizeSize, n) = s
  BY <1>2, <1>4, <1>6 DEF PartsIn
<1>10. Decode(BUFFER_STRING, cells, from + 1) = Item(String(s), SizeSize + n)
  BY <1>8, <1>9, TagsDiffer DEF Decode
<1>11. Len(e) - 1 = SizeSize + n /\ Len(e) >= 1
  BY <1>2, <1>3, <1>4 DEF HasParts
<1> QED
  BY <1>7, <1>10, <1>11 DEF Decodes

LEMMA ArrayDecodes ==
  ASSUME NEW cells, NEW from, NEW a \in Arrays, NEW e, e = EncodeArray(a), Sits(cells, from, e)
  PROVE  Decodes(cells, from, Array(a), e)
<1>0. PICK n, l, d : n = Count(a) /\ l = a.elementSize * n /\ d = a.data
  OBVIOUS
<1>1. PICK h, c : h = <<BUFFER_CARRAY, a.type, a.elementSize>> /\ c = InMemory(n, SizeSize)
  OBVIOUS
<1>2. /\ n \in Nat /\ n < Weight[SizeSize] /\ Len(d) = l /\ l \in Nat
      /\ a = [type |-> a.type, elementSize |-> a.elementSize, data |-> d]
  BY <1>0, ArrayIs, BytesAreCells
<1>3. HasParts(e, h, c, d)
  BY <1>0, <1>1, ArrayParts
<1>4. /\ Len(h) = 3 /\ h[1] = BUFFER_CARRAY /\ h[2] = a.type /\ h[3] = a.elementSize
      /\ Len(c) = SizeSize /\ SizeSize \in Nat /\ FromMemory(c) = n
  BY <1>1, <1>2, SizeIs
<1>5. from \in Nat
  BY DEF Sits
<1>6. PartsIn(cells, from, h, c, d)
  BY <1>3, PartsSit
<1>7. cells[from] = BUFFER_CARRAY /\ cells[from + 1] = a.type /\ cells[from + 2] = a.elementSize
  BY <1>4, <1>5, <1>6, HeaderSits DEF PartsIn
<1>8. (from + 1) + 1 = from + 2 /\ (from + 1) + 2 = from + 3
      /\ (from + 1) + 2 + SizeSize = from + 3 + SizeSize
  BY <1>4, <1>5
<1>9. FromMemory(Block(cells, (from + 1) + 2, SizeSize)) = n
  BY <1>4, <1>6, <1>8 DEF PartsIn
<1>10. Block(cells, (from + 1) + 2 + SizeSize, l) = d
  BY <1>2, <1>4, <1>6, <1>8 DEF PartsIn
<1>11. Decode(BUFFER_CARRAY, cells, from + 1)
         = Item(Array([type |-> a.type, elementSize |-> a.elementSize, data |-> d]),
                2 + SizeSize + l)
  BY <1>0, <1>7, <1>8, <1>9, <1>10, TagsDiffer DEF Decode
<1>12. Len(e) - 1 = 2 + SizeSize + l /\ Len(e) >= 1
  BY <1>2, <1>3, <1>4 DEF HasParts
<1> QED
  BY <1>2, <1>7, <1>11, <1>12 DEF Decodes

-----------------------------------------------------------------------------
(* The buffer is the encodings of the values, one behind the other *)

(* One byte tells the booleans that are added from false. *)
TruthFitsByte == \A b \in Booleans : b % Base = 0 => b = 0

Writable ==
  {Bool(TRUE), Bool(FALSE)} \cup {Integer(i) : i \in Ints \cup Byte}
    \cup {Number(x) : x \in Numbers} \cup {String(s) : s \in Strings}
    \cup {Array(a) : a \in Arrays}

EncodesTo(v, e) ==
  \/ \E b \in Booleans : v = Bool(b # 0) /\ e = EncodeBoolean(b)
  \/ \E i \in Ints \cup Byte : v = Integer(i) /\ e = EncodeInteger(i)
  \/ \E x \in Numbers : v = Number(x) /\ e = EncodeNumber(x)
  \/ \E s \in Strings : v = String(s) /\ e = EncodeString(s)
  \/ \E a \in Arrays : v = Array(a) /\ e = EncodeArray(a)

LEMMA EncodingIs ==
  ASSUME NEW v, NEW e, EncodesTo(v, e)
  PROVE  v \in Writable /\ e \in Seq(BufferCells) /\ Len(e) \in Nat /\ Len(e) >= 1
<1>1. v \in Writable
  <2>1. CASE \E b \in Booleans : v = Bool(b # 0)
    BY <2>1 DEF Writable
  <2>2. CASE ~ \E b \in Booleans : v = Bool(b # 0)
    BY <2>2 DEF EncodesTo, Writable
  <2> QED
    BY <2>1, <2>2
<1>2. ASSUME NEW h, NEW c, NEW d, HasParts(e, h, c, d), Len(h) >= 1
      PROVE  e \in Seq(BufferCells) /\ Len(e) >= 1
  <2>1. Len(h) \in Nat /\ Len(c) \in Nat
    BY <1>2, LenProperties DEF HasParts
  <2>2. Len(d) \in Nat /\ e \in Seq(BufferCells)
    BY <1>2, LenProperties DEF HasParts
  <2> QED
    BY <1>2, <2>1, <2>2 DEF HasParts
<1>3. ASSUME NEW b \in Booleans, e = EncodeBoolean(b)
      PROVE  e \in Seq(BufferCells) /\ Len(e) >= 1
  BY <1>3, BooleanParts, WriterAssumption
<1>4. ASSUME NEW i \in Ints \cup Byte, e = EncodeInteger(i)
      PROVE  e \in Seq(BufferCells) /\ Len(e) >= 1
  <2>1. CASE i \in Byte
    BY <1>4, <2>1, ByteParts
  <2>2. CASE i \notin Byte
    <3>1. i \in Int
      BY <2>2, WriterAssumption
    <3>2. PICK h, c, d : h = <<BUFFER_INTEGER>> /\ HasParts(e, h, c, d)
      BY <1>4, <2>2, <3>1, IntegerParts
    <3>3. Len(h) >= 1
      BY <3>2
    <3> QED
      BY <1>2, <3>2, <3>3
  <2> QED
    BY <2>1, <2>2
<1>5. ASSUME NEW x \in Numbers, e = EncodeNumber(x)
      PROVE  e \in Seq(BufferCells) /\ Len(e) >= 1
  <2>1. PICK h, c, d : h = <<BUFFER_NUMBER>> /\ HasParts(e, h, c, d)
    BY <1>5, NumberParts, WriterAssumption
  <2>2. Len(h) >= 1
    BY <2>1
  <2> QED
    BY <1>2, <2>1, <2>2
<1>6. ASSUME NEW s \in Strings, e = EncodeString(s)
      PROVE  e \in Seq(BufferCells) /\ Len(e) >= 1
  <2>1. s \in Seq(Byte)
    BY WriterAssumption
  <2>2. PICK h, c, d : HasParts(e, h, c, d) /\ (h = <<BUFFER_STRING>> \/ h = <<BUFFER_SMALLSTRING, Len(s)>>)
    BY <1>6, <2>1, SmallStringParts, LongStringParts
  <2>3. Len(h) >= 1
    BY <2>2
  <2> QED
    BY <1>2, <2>2, <2>3
<1>7. ASSUME NEW a \in Arrays, e = EncodeArray(a)
      PROVE  e \in Seq(BufferCells) /\ Len(e) >= 1
  <2>1. PICK h, c, d : h = <<BUFFER_CARRAY, a.type, a.elementSize>> /\ HasParts(e, h, c, d)
    BY <1>7, ArrayParts
  <2>2. Len(h) >= 1
    BY <2>1
  <2> QED
    BY <1>2, <2>1, <2>2
<1>8. e \in Seq(BufferCells) /\ Len(e) >= 1
  BY <1>3, <1>4, <1>5, <1>6, <1>7 DEF EncodesTo
<1> QED
  BY <1>1, <1>8, LenProperties

LEMMA EncodingDecodes ==
  ASSUME TruthFitsByte, NEW v, NEW e, EncodesTo(v, e), NEW cells, NEW from, Sits(cells, from, e)
  PROVE  Decodes(cells, from, v, e)
<1>1. ASSUME NEW b \in Booleans, v = Bool(b # 0), e = EncodeBoolean(b)
      PROVE  Decodes(cells, from, v, e)
  <2>1. b \in Int /\ (b % Base = 0 => b = 0)
    BY WriterAssumption DEF TruthFitsByte
  <2>2. Decodes(cells, from, Bool(b # 0), e)
    BY <1>1, <2>1, BooleanDecodes
  <2> QED
    BY <1>1, <2>2
<1>2. ASSUME NEW i \in Ints \cup Byte, v = Integer(i), e = EncodeInteger(i)
      PROVE  Decodes(cells, from, v, e)
  <2>1. CASE i \in Byte
    BY <1>2, <2>1, ByteDecodes
  <2>2. CASE i \notin Byte
    <3>1. InRange(i, IntSize)
      BY <2>2, WriterAssumption DEF InRange
    <3>2. i \in Int
      <4>1. PICK m \in Nat \ {0} : m = Weight[IntSize]
        BY Weights, WriterAssumption
      <4> QED
        BY <3>1, <4>1 DEF InRange
    <3> QED
      BY <1>2, <2>2, <3>1, <3>2, IntegerDecodes
  <2> QED
    BY <2>1, <2>2
<1>3. ASSUME NEW x \in Numbers, v = Number(x), e = EncodeNumber(x)
      PROVE  Decodes(cells, from, v, e)
  BY <1>3, NumberDecodes
<1>4. ASSUME NEW s \in Strings, v = String(s), e = EncodeString(s)
      PROVE  Decodes(cells, from, v, e)
  <2>1. s \in Seq(Byte)
    BY WriterAssumption
  <2> QED
    BY <1>4, <2>1, SmallStringDecodes, LongStringDecodes
<1>5. ASSUME NEW a \in Arrays, v = Array(a), e = EncodeArray(a)
      PROVE  Decodes(cells, from, v, e)
  BY <1>5, ArrayDecodes
<1> QED
  BY <1>1, <1>2, <1>3, <1>4, <1>5 DEF EncodesTo

(* The cells are encodings of the values, which start at starts. *)
Encoded(cells, values, starts) ==
  /\ cells \in Seq(BufferCells) /\ values \in Seq(Writable)
  /\ starts \in [1 .. Len(values) + 1 -> Nat \ {0}]
  /\ starts[1] = 1 /\ starts[Len(values) + 1] = Len(cells) + 1
  /\ \A k \in 1 .. Len(values) :
       \E e : /\ EncodesTo(values[k], e) /\ Sits(cells, starts[k], e)
              /\ starts[k + 1] = starts[k] + Len(e)

LEMMA NothingEncoded == Encoded(<<>>, <<>>, [k \in 1 .. 1 |-> 1])
<1>1. <<>> \in Seq(BufferCells) /\ <<>> \in Seq(Writable) /\ Len(<<>>) = 0
  OBVIOUS
<1>2. PICK t : t = [k \in 1 .. 1 |-> 1]
  OBVIOUS
<1>3. t \in [1 .. 1 -> Nat \ {0}] /\ t[1] = 1
  BY <1>2
<1>4. Len(<<>>) + 1 = 1 /\ 1 .. Len(<<>>) = {}
  BY <1>1
<1> QED
  BY <1>1, <1>2, <1>3, <1>4 DEF Encoded

LEMMA OneEncoded ==
  ASSUME NEW v, NEW e, EncodesTo(v, e)
  PROVE  Encoded(e, <<v>>, [k \in 1 .. 2 |-> IF k = 1 THEN 1 ELSE Len(e) + 1])
<1>1. v \in Writable /\ e \in Seq(BufferCells) /\ Len(e) \in Nat /\ Len(e) >= 1
  BY EncodingIs
<1>2. PICK t, s : t = [k \in 1 .. 2 |-> IF k = 1 THEN 1 ELSE Len(e) + 1] /\ s = <<v>>
  OBVIOUS
<1>3. s \in Seq(Writable) /\ Len(s) = 1 /\ s[1] = v
  BY <1>1, <1>2
<1>4. t \in [1 .. 2 -> Nat \ {0}] /\ t[1] = 1 /\ t[2] = Len(e) + 1
  BY <1>1, <1>2
<1>5. Sits(e, 1, e)
  <2>1. \A i \in 1 .. Len(e) : 1 + i - 1 = i
    OBVIOUS
  <2> QED
    BY <1>1, <2>1 DEF Sits
<1>6. t[2] = t[1] + Len(e)
  BY <1>1, <1>4
<1>7. 1 + 1 = 2 /\ \A k \in 1 .. 1 : k = 1
  OBVIOUS
<1>8. Encoded(e, s, t)
  BY <1>1, <1>3, <1>4, <1>5, <1>6, <1>7 DEF Encoded
<1> QED
  BY <1>2, <1>8

LEMMA BytesEncoded ==
  ASSUME NEW s \in Seq(Byte)
  PROVE  Encoded(EncodeBytes(s), [i \in 1 .. Len(s) |-> Integer(s[i])],
                 [k \in 1 .. Len(s) + 1 |-> 2 * k - 1])
<1>1. PICK n \in Nat : n = Len(s)
  BY BytesAreCells
<1>2. PICK e, v, t : /\ e = EncodeBytes(s) /\ v = [i \in 1 .. n |-> Integer(s[i])]
                     /\ t = [k \in 1 .. n + 1 |-> 2 * k - 1]
  OBVIOUS
<1>3. \A i \in 1 .. n : s[i] \in Byte
  BY <1>1, BytesAreCells
<1>4. v \in Seq(Writable) /\ Len(v) = n /\ \A i \in 1 .. n : v[i] = Integer(s[i])
  <2>1. v \in [1 .. n -> Writable]
    BY <1>2, <1>3 DEF Writable
  <2> QED
    BY <1>2, <2>1
<1>5. /\ e \in Seq(BufferCells) /\ Len(e) = 2 * n
      /\ \A i \in 1 .. n : e[2 * i - 1] = BUFFER_BYTE /\ e[2 * i] = s[i]
  BY <1>1, <1>2, BytesParts
<1>6. t \in [1 .. n + 1 -> Nat \ {0}] /\ \A k \in 1 .. n + 1 : t[k] = 2 * k - 1
  BY <1>2
<1>7. t[1] = 1 /\ t[n + 1] = Len(e) + 1
  BY <1>5, <1>6
<1>8. ASSUME NEW k \in 1 .. n
      PROVE  \E c : EncodesTo(v[k], c) /\ Sits(e, t[k], c) /\ t[k + 1] = t[k] + Len(c)
  <2>1. PICK c : c = EncodeInteger(s[k])
    OBVIOUS
  <2>2. c \in Seq(BufferCells) /\ Len(c) = 2 /\ c[1] = BUFFER_BYTE /\ c[2] = s[k]
    BY <1>3, <2>1, ByteParts
  <2>3. EncodesTo(v[k], c)
    BY <1>3, <1>4, <2>1 DEF EncodesTo
  <2>4. t[k] = 2 * k - 1 /\ t[k + 1] = t[k] + 2 /\ t[k] \in Nat /\ t[k] >= 1
        /\ t[k] + 2 - 1 <= 2 * n
    BY <1>6
  <2>5. e[t[k] + 1 - 1] = c[1] /\ e[t[k] + 2 - 1] = c[2]
    <3>1. t[k] + 1 - 1 = 2 * k - 1 /\ t[k] + 2 - 1 = 2 * k
      BY <2>4
    <3> QED
      BY <1>5, <2>2, <3>1
  <2>6. \A i \in 1 .. 2 : i = 1 \/ i = 2
    OBVIOUS
  <2>7. Sits(e, t[k], c)
    BY <1>5, <2>2, <2>4, <2>5, <2>6 DEF Sits
  <2> QED
    BY <2>2, <2>3, <2>4, <2>7
<1>9. Encoded(e, v, t)
  BY <1>4, <1>5, <1>6, <1>7, <1>8 DEF Encoded
<1> QED
  BY <1>1, <1>2, <1>9

(* Encodings of some values, and of others behind them. *)
LEMMA BothEncoded ==
  ASSUME NEW c, NEW u, NEW p, Encoded(c, u, p), NEW d, NEW v, NEW q, Encoded(d, v, q)
  PROVE  \E t : Encoded(c \o d, u \o v, t)
<1>1. PICK l, m, n, o : l = Len(u) /\ m = Len(v) /\ n = Len(c) /\ o = Len(d)
  OBVIOUS
<1>2. /\ c \in Seq(BufferCells) /\ d \in Seq(BufferCells)
      /\ u \in Seq(Writable) /\ v \in Seq(Writable)
  BY DEF Encoded
<1>3. l \in Nat /\ m \in Nat /\ n \in Nat /\ o \in Nat
  <2>1. l \in Nat /\ m \in Nat
    BY <1>1, <1>2, LenProperties
  <2>2. n \in Nat /\ o \in Nat
    BY <1>1, <1>2, LenProperties
  <2> QED
    BY <2>1, <2>2
<1>4. PICK cells, values : cells = c \o d /\ values = u \o v
  OBVIOUS
<1>5. /\ cells \in Seq(BufferCells) /\ Len(cells) = n + o
      /\ \A i \in 1 .. n : cells[i] = c[i]
      /\ \A i \in 1 .. o : cells[n + i] = d[i]
  <2> HIDE DEF BufferCells
  <2>1. /\ cells \in Seq(BufferCells) /\ Len(cells) = n + o
        /\ \A i \in 1 .. n + o : cells[i] = IF i <= n THEN c[i] ELSE d[i - n]
    BY <1>1, <1>2, <1>4, ConcatProperties
  <2> QED
    BY <1>3, <2>1
<1>6. /\ values \in Seq(Writable) /\ Len(values) = l + m
      /\ \A i \in 1 .. l : values[i] = u[i]
      /\ \A i \in 1 .. m : values[l + i] = v[i]
  <2> HIDE DEF Writable
  <2>1. /\ values \in Seq(Writable) /\ Len(values) = l + m
        /\ \A i \in 1 .. l + m : values[i] = IF i <= l THEN u[i] ELSE v[i - l]
    BY <1>1, <1>2, <1>4, ConcatProperties
  <2> QED
    BY <1>3, <2>1
<1>7. /\ p \in [1 .. l + 1 -> Nat \ {0}] /\ p[1] = 1 /\ p[l + 1] = n + 1
      /\ q \in [1 .. m + 1 -> Nat \ {0}] /\ q[1] = 1 /\ q[m + 1] = o + 1
  BY <1>1 DEF Encoded
<1>8. PICK t : t = [k \in 1 .. (l + m) + 1 |-> IF k <= l THEN p[k] ELSE n + q[k - l]]
  OBVIOUS
<1>9. t \in [1 .. (l + m) + 1 -> Nat \ {0}]
  <2>1. \A k \in 1 .. (l + m) + 1 : k <= l => p[k] \in Nat \ {0}
    BY <1>3, <1>7
  <2>2. \A k \in 1 .. (l + m) + 1 : ~ (k <= l) => n + q[k - l] \in Nat \ {0}
    <3> SUFFICES ASSUME NEW k \in 1 .. (l + m) + 1, ~ (k <= l) PROVE n + q[k - l] \in Nat \ {0}
      OBVIOUS
    <3>1. k - l \in 1 .. m + 1
      BY <1>3
    <3>2. q[k - l] \in Nat \ {0}
      BY <1>7, <3>1
    <3> QED
      BY <1>3, <3>2
  <2> QED
    BY <1>8, <2>1, <2>2
<1>10. /\ \A k \in 1 .. l + 1 : t[k] = p[k]
       /\ \A k \in 1 .. m + 1 : t[l + k] = n + q[k]
  <2>1. \A k \in 1 .. l : k \in 1 .. (l + m) + 1 /\ k <= l
    BY <1>3
  <2>2. \A k \in 1 .. l : t[k] = p[k]
    BY <1>8, <2>1
  <2>3. \A k \in 1 .. m + 1 : l + k \in 1 .. (l + m) + 1 /\ ~ (l + k <= l) /\ (l + k) - l = k
    BY <1>3
  <2>4. \A k \in 1 .. m + 1 : t[l + k] = n + q[k]
    BY <1>8, <2>3
  <2>5. t[l + 1] = p[l + 1]
    <3>1. t[l + 1] = n + q[1]
      BY <1>3, <2>4
    <3> QED
      BY <1>7, <3>1
  <2>6. \A k \in 1 .. l + 1 : k \in 1 .. l \/ k = l + 1
    BY <1>3
  <2> QED
    BY <2>2, <2>4, <2>5, <2>6
<1>11. t[1] = 1 /\ t[(l + m) + 1] = (n + o) + 1
  <2>1. 1 \in 1 .. l + 1 /\ m + 1 \in 1 .. m + 1 /\ (l + m) + 1 = l + (m + 1)
    BY <1>3
  <2>2. t[l + (m + 1)] = n + (o + 1)
    BY <1>7, <1>10, <2>1
  <2> QED
    BY <1>3, <1>7, <1>10, <2>1, <2>2
<1>12. ASSUME NEW k \in 1 .. l
       PROVE  \E e : EncodesTo(values[k], e) /\ Sits(cells, t[k], e) /\ t[k + 1] = t[k] + Len(e)
  <2>1. PICK e : EncodesTo(u[k], e) /\ Sits(c, p[k], e) /\ p[k + 1] = p[k] + Len(e)
    BY <1>1 DEF Encoded
  <2>2. k \in 1 .. l + 1 /\ k + 1 \in 1 .. l + 1
    BY <1>3
  <2>3. Len(e) \in Nat
    BY <2>1, EncodingIs
  <2>4. PICK f : f = p[k]
    OBVIOUS
  <2>5. /\ e \in Seq(BufferCells) /\ f \in Nat /\ f >= 1 /\ f + Len(e) - 1 <= n
        /\ \A i \in 1 .. Len(e) : c[f + i - 1] = e[i]
    BY <1>1, <2>1, <2>4 DEF Sits
  <2>6. f + Len(e) - 1 <= n + o /\ \A i \in 1 .. Len(e) : f + i - 1 \in 1 .. n
    BY <1>3, <2>3, <2>5
  <2>7. Sits(cells, f, e)
    BY <1>5, <2>5, <2>6 DEF Sits
  <2>8. t[k] = f /\ t[k + 1] = f + Len(e) /\ values[k] = u[k]
    BY <1>6, <1>10, <2>1, <2>2, <2>4
  <2> QED
    BY <2>1, <2>7, <2>8
<1>13. ASSUME NEW k \in 1 .. m
       PROVE  \E e : /\ EncodesTo(values[l + k], e) /\ Sits(cells, t[l + k], e)
                     /\ t[(l + k) + 1] = t[l + k] + Len(e)
  <2>1. PICK e : EncodesTo(v[k], e) /\ Sits(d, q[k], e) /\ q[k + 1] = q[k] + Len(e)
    BY <1>1 DEF Encoded
  <2>2. k \in 1 .. m + 1 /\ k + 1 \in 1 .. m + 1 /\ (l + k) + 1 = l + (k + 1)
    BY <1>3
  <2>3. Len(e) \in Nat
    BY <2>1, EncodingIs
  <2>4. PICK f : f = q[k]
    OBVIOUS
  <2>5. /\ e \in Seq(BufferCells) /\ f \in Nat /\ f >= 1 /\ f + Len(e) - 1 <= o
        /\ \A i \in 1 .. Len(e) : d[f + i - 1] = e[i]
    BY <1>1, <2>1, <2>4 DEF Sits
  <2>6. /\ n + f \in Nat /\ n + f >= 1 /\ (n + f) + Len(e) - 1 <= n + o
        /\ \A i \in 1 .. Len(e) : f + i - 1 \in 1 .. o /\ (n + f) + i - 1 = n + (f + i - 1)
    BY <1>3, <2>3, <2>5
  <2>7. Sits(cells, n + f, e)
    BY <1>5, <2>5, <2>6 DEF Sits
  <2>8. t[l + k] = n + f /\ values[l + k] = v[k]
    BY <1>6, <1>10, <2>2, <2>4
  <2>9. t[(l + k) + 1] = (n + f) + Len(e)
    <3>1. t[(l + k) + 1] = n + (f + Len(e))
      BY <1>10, <2>1, <2>2, <2>4
    <3> QED
      BY <1>3, <2>3, <2>5, <3>1
  <2> QED
    BY <2>1, <2>7, <2>8, <2>9
<1>14. ASSUME NEW k \in 1 .. l + m
       PROVE  \E e : EncodesTo(values[k], e) /\ Sits(cells, t[k], e) /\ t[k + 1] = t[k] + Len(e)
  <2>1. CASE k <= l
    <3>1. k \in 1 .. l
      BY <1>3, <2>1
    <3> QED
      BY <1>12, <3>1
  <2>2. CASE ~ (k <= l)
    <3>1. PICK j \in 1 .. m : k = l + j
      <4>1. k - l \in 1 .. m /\ k = l + (k - l)
        BY <1>3, <2>2
      <4> QED
        BY <4>1
    <3> QED
      BY <1>13, <3>1
  <2> QED
    BY <2>1, <2>2
<1>15. Encoded(cells, values, t)
  BY <1>5, <1>6, <1>9, <1>11, <1>14 DEF Encoded
<1> QED
  BY <1>4, <1>15

-----------------------------------------------------------------------------
(* The loop reads the values that were encoded *)

(* Where the loop is when it has read the first k values. *)
ReadSome(values, starts, k) == [from |-> starts[k + 1], values |-> SubSeq(values, 1, k)]

LEMMA OneMoreValue ==
  ASSUME NEW S, NEW s \in Seq(S), NEW n \in 0 .. Len(s) - 1
  PROVE  SubSeq(s, 1, n) \o <<s[n + 1]>> = SubSeq(s, 1, n + 1)
<1>1. Len(s) \in Nat /\ n + 1 \in 1 .. Len(s) /\ 1 \in 1 .. Len(s) /\ (n + 1) - 1 = n
  OBVIOUS
<1> QED
  BY <1>1, SubSeqRecursiveSecond

LEMMA NextIsRead ==
  ASSUME TruthFitsByte, NEW cells, NEW values, NEW starts, Encoded(cells, values, starts),
         NEW k \in 0 .. Len(values) - 1
  PROVE  ReadNext(cells, ReadSome(values, starts, k)) = ReadSome(values, starts, k + 1)
<1>1. values \in Seq(Writable) /\ Len(values) \in Nat
  BY LenProperties DEF Encoded
<1>2. PICK j : j = k + 1
  OBVIOUS
<1>3. j \in 1 .. Len(values) /\ k \in Int /\ j \in Int
  BY <1>1, <1>2
<1>4. PICK e : /\ EncodesTo(values[j], e) /\ Sits(cells, starts[j], e)
               /\ starts[j + 1] = starts[j] + Len(e)
  BY <1>3 DEF Encoded
<1>5. PICK f, v : f = starts[j] /\ v = values[j]
  OBVIOUS
<1>6. Decode(cells[f], cells, f + 1) = Item(v, Len(e) - 1) /\ Len(e) >= 1 /\ Len(e) \in Nat
  BY <1>4, <1>5, EncodingDecodes, EncodingIs DEF Decodes
<1>7. f \in Nat /\ Len(cells) \in Nat /\ f + Len(e) - 1 <= Len(cells)
  <2>1. cells \in Seq(BufferCells) /\ f \in Nat /\ f + Len(e) - 1 <= Len(cells)
    BY <1>4, <1>5 DEF Sits
  <2> QED
    BY <2>1, LenProperties
<1>8. ~ (f > Len(cells)) /\ f + 1 + (Len(e) - 1) = f + Len(e)
  BY <1>6, <1>7
<1>9. PICK r : r = ReadSome(values, starts, k)
  OBVIOUS
<1>10. r.from = f /\ r.values = SubSeq(values, 1, k)
  BY <1>2, <1>5, <1>9 DEF ReadSome
<1>11. ReadNext(cells, r) = [from |-> f + 1 + (Len(e) - 1), values |-> r.values \o <<v>>]
  <2>1. PICK item : item = Decode(cells[f], cells, f + 1)
    OBVIOUS
  <2>2. item.values = <<v>> /\ item.length = Len(e) - 1
    BY <1>6, <2>1 DEF Item
  <2>3. ReadNext(cells, r) = [from |-> f + 1 + item.length, values |-> r.values \o item.values]
    BY <1>8, <1>10, <2>1 DEF ReadNext
  <2> QED
    BY <2>2, <2>3
<1>12. SubSeq(values, 1, k) \o <<v>> = SubSeq(values, 1, j)
  BY <1>1, <1>2, <1>5, OneMoreValue
<1> QED
  BY <1>2, <1>4, <1>5, <1>8, <1>9, <1>10, <1>11, <1>12 DEF ReadSome

(* No value takes less than a cell. *)
LEMMA ValuesTakeCells ==
  ASSUME NEW cells, NEW values, NEW starts, Encoded(cells, values, starts)
  PROVE  Len(values) <= Len(cells)
<1>1. Len(values) \in Nat /\ Len(cells) \in Nat
  <2>1. values \in Seq(Writable) /\ cells \in Seq(BufferCells)
    BY DEF Encoded
  <2>2. Len(values) \in Nat
    BY <2>1, LenProperties
  <2> QED
    BY <2>1, <2>2, LenProperties
<1>2. PICK n \in Nat : n = Len(values)
  BY <1>1
<1>3. /\ starts \in [1 .. n + 1 -> Nat \ {0}] /\ starts[1] = 1 /\ starts[n + 1] = Len(cells) + 1
      /\ \A k \in 1 .. n : \E e : EncodesTo(values[k], e) /\ starts[k + 1] = starts[k] + Len(e)
  BY <1>2 DEF Encoded
<1>4. \A k \in 1 .. n : starts[k + 1] >= starts[k] + 1
  <2> SUFFICES ASSUME NEW k \in 1 .. n PROVE starts[k + 1] >= starts[k] + 1
    OBVIOUS
  <2>1. PICK e : EncodesTo(values[k], e) /\ starts[k + 1] = starts[k] + Len(e)
    BY <1>3
  <2>2. Len(e) \in Nat /\ Len(e) >= 1
    BY <2>1, EncodingIs
  <2>3. starts[k] \in Nat
    BY <1>3
  <2> QED
    BY <2>1, <2>2, <2>3
<1> DEFINE T == {k \in Nat : k <= n => starts[k + 1] >= k + 1}
<1>5. 0 \in T
  BY <1>3
<1>6. \A k \in Nat : k \in T => k + 1 \in T
  <2> SUFFICES ASSUME NEW k \in Nat, k + 1 <= n, starts[k + 1] >= k + 1
               PROVE  starts[(k + 1) + 1] >= (k + 1) + 1
    OBVIOUS
  <2>1. k + 1 \in 1 .. n
    OBVIOUS
  <2>2. starts[(k + 1) + 1] >= starts[k + 1] + 1
    BY <1>4, <2>1
  <2>3. starts[k + 1] \in Nat /\ starts[(k + 1) + 1] \in Nat
    BY <1>3, <2>1
  <2> QED
    BY <2>2, <2>3
<1>7. n \in T
  <2> HIDE DEF T
  <2> QED
    BY <1>5, <1>6, Induction
<1> QED
  BY <1>1, <1>2, <1>3, <1>7

LEMMA EncodedIsRead ==
  ASSUME TruthFitsByte, NEW cells, NEW values, NEW starts, Encoded(cells, values, starts)
  PROVE  ReadAll(cells) = values
<1> PICK n : n = Len(values)
  OBVIOUS
<1>1. n \in Nat /\ values \in Seq(Writable) /\ Len(cells) \in Nat /\ n <= Len(cells)
  <2>1. values \in Seq(Writable) /\ cells \in Seq(BufferCells)
    BY DEF Encoded
  <2>2. n \in Nat
    BY <2>1, LenProperties
  <2>3. Len(cells) \in Nat
    BY <2>1, LenProperties
  <2> QED
    BY <2>1, <2>2, <2>3, ValuesTakeCells
<1> DEFINE E(f) == [k \in Nat |-> IF k = 0 THEN [from |-> 1, values |-> <<>>]
                                  ELSE ReadNext(cells, f[k - 1])]
           R(k) == ReadSome(values, starts, k)
           F == [k \in Nat |-> IF k <= n THEN R(k) ELSE R(n)]
           read == CHOOSE f : f = E(f)
<1>2. R(0) = [from |-> 1, values |-> <<>>]
  <2>1. starts[0 + 1] = 1
    BY DEF Encoded
  <2>2. SubSeq(values, 1, 0) = <<>>
    BY SubSeqEmpty
  <2> QED
    BY <2>1, <2>2 DEF ReadSome
<1>3. \A k \in Nat : k + 1 <= n => ReadNext(cells, R(k)) = R(k + 1)
  <2> SUFFICES ASSUME NEW k \in Nat, k + 1 <= n PROVE ReadNext(cells, R(k)) = R(k + 1)
    OBVIOUS
  <2>1. k \in 0 .. Len(values) - 1
    BY <1>1
  <2> QED
    BY <2>1, NextIsRead
<1>4. ReadNext(cells, R(n)) = R(n)
  <2>1. R(n).from = Len(cells) + 1
    BY DEF Encoded, ReadSome
  <2>2. R(n).from > Len(cells)
    BY <1>1, <2>1
  <2> HIDE DEF R
  <2> QED
    BY <2>2 DEF ReadNext
<1> HIDE DEF R
<1>5. F = E(F)
  <2>1. \A k \in Nat : F[k] = E(F)[k]
    <3> SUFFICES ASSUME NEW k \in Nat PROVE F[k] = E(F)[k]
      OBVIOUS
    <3>1. CASE k = 0
      BY <1>1, <1>2, <3>1
    <3>2. CASE k # 0
      <4>1. PICK j \in Nat : j = k - 1
        BY <3>2
      <4>2. k = j + 1 /\ E(F)[k] = ReadNext(cells, F[j])
        BY <3>2, <4>1
      <4>3. CASE k <= n
        <5>1. F[k] = R(j + 1) /\ F[j] = R(j) /\ j + 1 <= n
          BY <1>1, <4>2, <4>3
        <5> QED
          BY <1>3, <4>2, <5>1
      <4>4. CASE ~ (k <= n)
        <5>1. F[k] = R(n) /\ F[j] = R(n)
          <6>1. j <= n => j = n
            BY <1>1, <4>2, <4>4
          <6> QED
            BY <4>4, <6>1
        <5> QED
          BY <1>4, <4>2, <5>1
      <4> QED
        BY <4>3, <4>4
    <3> QED
      BY <3>1, <3>2
  <2> QED
    BY <2>1
<1>6. read = E(read)
  <2> HIDE DEF E, F
  <2> QED
    BY <1>5
<1>7. ReadAll(cells) = read[Len(cells)].values
  BY DEF ReadAll
<1> HIDE DEF read
<1>8. \A k \in Nat : read[k] = IF k = 0 THEN [from |-> 1, values |-> <<>>] ELSE ReadNext(cells, read[k - 1])
  BY <1>6
<1>9. \A k \in Nat : F[k] = IF k = 0 THEN [from |-> 1, values |-> <<>>] ELSE ReadNext(cells, F[k - 1])
  <2> HIDE DEF F
  <2> QED
    BY <1>5
<1>10. F[Len(cells)] = R(n)
  <2>1. Len(cells) <= n => Len(cells) = n
    BY <1>1
  <2> QED
    BY <1>1, <2>1
<1> HIDE DEF F, E
<1> DEFINE T == {k \in Nat : read[k] = F[k]}
<1>11. 0 \in T
  BY <1>8, <1>9
<1>12. \A k \in Nat : k \in T => k + 1 \in T
  <2> SUFFICES ASSUME NEW k \in Nat, read[k] = F[k] PROVE read[k + 1] = F[k + 1]
    OBVIOUS
  <2>1. k + 1 \in Nat /\ k + 1 # 0 /\ (k + 1) - 1 = k
    OBVIOUS
  <2>2. read[k + 1] = ReadNext(cells, read[k])
    BY <1>8, <2>1
  <2>3. F[k + 1] = ReadNext(cells, F[k])
    BY <1>9, <2>1
  <2> QED
    BY <2>2, <2>3
<1>13. Len(cells) \in T
  <2> HIDE DEF T
  <2> QED
    BY <1>1, <1>11, <1>12, Induction
<1>14. read[Len(cells)] = R(n)
  BY <1>10, <1>13
<1>15. SubSeq(values, 1, n) = values
  BY <1>1, SubSeqFull
<1> QED
  BY <1>7, <1>14, <1>15 DEF R, ReadSome

-----------------------------------------------------------------------------
(* The invariant of the writer, and what follows *)

WriterInv ==
  /\ BufferInv
  /\ nargs = Len(added)
  /\ \E starts : Encoded(bytes, added, starts)

LEMMA EmptyIsEncoded ==
  ASSUME bytes = <<>>, nargs = 0, added = <<>>
  PROVE  nargs = Len(added) /\ \E starts : Encoded(bytes, added, starts)
<1>1. Len(<<>>) = 0
  OBVIOUS
<1> QED
  BY <1>1, NothingEncoded

LEMMA AppendedKeepsWriterInv ==
  ASSUME WriterInv, NEW v, NEW e, NEW t, Encoded(e, v, t), Add(v, e)
  PROVE  WriterInv'
<1>1. /\ e \in Seq(BufferCells) /\ v \in Seq(Writable)
  BY DEF Encoded
<1>2. PICK s : Encoded(bytes, added, s)
  BY DEF WriterInv
<1>3. BufferInv' /\ (Appended(v, e) \/ UNCHANGED <<bytes, nargs, added>>)
  BY <1>1, AddStep DEF WriterInv
<1>4. CASE Appended(v, e)
  <2>1. bytes' = bytes \o e /\ nargs' = nargs + Len(v) /\ added' = added \o v
    BY <1>4 DEF Appended
  <2>2. PICK u : Encoded(bytes \o e, added \o v, u)
    BY <1>2, BothEncoded
  <2>3. Len(added \o v) = Len(added) + Len(v)
    <3>1. added \in Seq(Writable)
      BY <1>2 DEF Encoded
    <3> HIDE DEF Writable
    <3> QED
      BY <1>1, <3>1, ConcatProperties
  <2>4. nargs' = Len(added')
    BY <2>1, <2>3 DEF WriterInv
  <2>5. Encoded(bytes', added', u)
    BY <2>1, <2>2
  <2> QED
    BY <1>3, <2>4, <2>5 DEF WriterInv
<1>5. CASE UNCHANGED <<bytes, nargs, added>>
  <2>1. Encoded(bytes', added', s) /\ nargs' = Len(added')
    BY <1>2, <1>5 DEF WriterInv
  <2> QED
    BY <1>3, <2>1 DEF WriterInv
<1> QED
  BY <1>3, <1>4, <1>5

LEMMA OneValueKeepsWriterInv ==
  ASSUME WriterInv, NEW v, NEW e, EncodesTo(v, e), Add(<<v>>, e)
  PROVE  WriterInv'
<1>1. PICK t, s : s = <<v>> /\ Encoded(e, s, t)
  BY OneEncoded
<1> QED
  BY <1>1, AppendedKeepsWriterInv

LEMMA InitWriterInv == Init => WriterInv
<1> SUFFICES ASSUME Init PROVE WriterInv
  OBVIOUS
<1>1. bytes = <<>> /\ nargs = 0 /\ added = <<>>
  BY DEF Init
<1> QED
  BY <1>1, InitBuffer, EmptyIsEncoded DEF WriterInv

LEMMA OtherStepsKeepWriterInv ==
  ASSUME WriterInv,
         \/ \E n \in Capacities, factor \in GrowFactors : NewWriter(n, factor)
         \/ FreeWriter
         \/ ClearWriter
         \/ \E rc \in {0, 1, 990, 999} : MsgToReceiver(rc)
         \/ UNCHANGED vars
  PROVE  WriterInv'
<1>1. BufferInv'
  BY OtherStepsKeepBuffer DEF WriterInv
<1>2. (bytes' = <<>> /\ nargs' = 0 /\ added' = <<>>) \/ UNCHANGED <<bytes, nargs, added>>
  BY DEF NewWriter, FreeWriter, ClearWriter, MsgToReceiver, Empty, vars
<1>3. CASE bytes' = <<>> /\ nargs' = 0 /\ added' = <<>>
  <2>1. Len(<<>>) = 0 /\ \E starts : Encoded(<<>>, <<>>, starts)
    BY NothingEncoded
  <2>2. nargs' = Len(added') /\ \E starts : Encoded(bytes', added', starts)
    BY <1>3, <2>1
  <2> QED
    BY <1>1, <2>2 DEF WriterInv
<1>4. CASE UNCHANGED <<bytes, nargs, added>>
  <2>1. PICK s : Encoded(bytes, added, s)
    BY DEF WriterInv
  <2>2. nargs' = Len(added') /\ Encoded(bytes', added', s)
    BY <1>4, <2>1 DEF WriterInv
  <2> QED
    BY <1>1, <2>2 DEF WriterInv
<1> QED
  BY <1>2, <1>3, <1>4

LEMMA NextWriterInv == WriterInv /\ [Next]_vars => WriterInv'
<1> SUFFICES ASSUME WriterInv, [Next]_vars PROVE WriterInv'
  OBVIOUS
<1>1. ASSUME NEW b \in Booleans, AddBoolean(b) PROVE WriterInv'
  <2>1. PICK v, e : v = Bool(b # 0) /\ e = EncodeBoolean(b) /\ Add(<<v>>, e)
    BY <1>1 DEF AddBoolean
  <2>2. EncodesTo(v, e)
    BY <2>1 DEF EncodesTo
  <2> QED
    BY <2>1, <2>2, OneValueKeepsWriterInv
<1>2. ASSUME NEW i \in Ints, AddInteger(i) PROVE WriterInv'
  <2>1. PICK v, e : v = Integer(i) /\ e = EncodeInteger(i) /\ Add(<<v>>, e)
    BY <1>2 DEF AddInteger
  <2>2. EncodesTo(v, e)
    BY <2>1 DEF EncodesTo
  <2> QED
    BY <2>1, <2>2, OneValueKeepsWriterInv
<1>3. ASSUME NEW x \in Numbers, AddNumber(x) PROVE WriterInv'
  <2>1. PICK v, e : v = Number(x) /\ e = EncodeNumber(x) /\ Add(<<v>>, e)
    BY <1>3 DEF AddNumber
  <2>2. EncodesTo(v, e)
    BY <2>1 DEF EncodesTo
  <2> QED
    BY <2>1, <2>2, OneValueKeepsWriterInv
<1>4. ASSUME NEW s \in Strings, AddString(s) PROVE WriterInv'
  <2>1. PICK v, e : v = String(s) /\ e = EncodeString(s) /\ Add(<<v>>, e)
    BY <1>4 DEF AddString
  <2>2. EncodesTo(v, e)
    BY <2>1 DEF EncodesTo
  <2> QED
    BY <2>1, <2>2, OneValueKeepsWriterInv
<1>5. ASSUME NEW s \in Strings, AddBytes(s) PROVE WriterInv'
  <2>1. s \in Seq(Byte)
    BY WriterAssumption
  <2>2. PICK v, e, t : /\ v = [i \in 1 .. Len(s) |-> Integer(s[i])] /\ e = EncodeBytes(s)
                       /\ Encoded(e, v, t)
    BY <2>1, BytesEncoded
  <2>3. Add(v, e)
    BY <1>5, <2>2 DEF AddBytes
  <2> QED
    BY <2>2, <2>3, AppendedKeepsWriterInv
<1>6. ASSUME NEW a \in Arrays, AddArray(a) PROVE WriterInv'
  <2>1. PICK v, e : v = Array(a) /\ e = EncodeArray(a) /\ Add(<<v>>, e)
    BY <1>6 DEF AddArray
  <2>2. EncodesTo(v, e)
    BY <2>1 DEF EncodesTo
  <2> QED
    BY <2>1, <2>2, OneValueKeepsWriterInv
<1>7. CASE \/ \E n \in Capacities, factor \in GrowFactors : NewWriter(n, factor)
           \/ FreeWriter
           \/ ClearWriter
           \/ \E rc \in {0, 1, 990, 999} : MsgToReceiver(rc)
           \/ UNCHANGED vars
  BY <1>7, OtherStepsKeepWriterInv
<1> QED
  BY <1>1, <1>2, <1>3, <1>4, <1>5, <1>6, <1>7 DEF Next

LEMMA EncodedIsPushed == ASSUME TruthFitsByte, WriterInv PROVE AddedIsPushed
<1>1. PICK s : Encoded(bytes, added, s)
  BY DEF WriterInv
<1>2. nargs = Len(added) /\ added \in Seq(Writable)
  BY <1>1 DEF WriterInv, Encoded
<1>3. ReadAll(bytes) = added
  BY <1>1, EncodedIsRead
<1>4. nargs = 0 => added = <<>>
  <2> HIDE DEF Writable
  <2> QED
    BY <1>2, EmptySeq
<1> QED
  BY <1>2, <1>3, <1>4 DEF AddedIsPushed, Pushed

-----------------------------------------------------------------------------
(* The theorems *)

LEMMA DeliveryStepsWriter == DeliveryNext => [Next]_vars
BY DEF DeliveryNext

LEMMA AlwaysWriterInv == DeliverySpec => []WriterInv
<1>1. DeliveryInit => WriterInv
  BY InitWriterInv DEF DeliveryInit
<1>2. WriterInv /\ [DeliveryNext]_<<vars, transferVars, hookVars>> => WriterInv'
  <2>1. [DeliveryNext]_<<vars, transferVars, hookVars>> => [Next]_vars
    BY DeliveryStepsWriter
  <2> QED
    BY <2>1, NextWriterInv
<1> QED
  BY <1>1, <1>2, PTL DEF DeliverySpec

(* However the buffer grows, nothing is written beyond its end. *)
THEOREM NothingBeyondTheEnd == DeliverySpec => []FitsCapacity
<1>1. WriterInv => FitsCapacity
  BY DEF WriterInv, BufferInv
<1> QED
  BY <1>1, AlwaysWriterInv, PTL

(* Whatever is added, and whichever additions fail, the callback is given  *)
(* the values that were added, and lua_pcall() is told their number.  The  *)
(* one value that needs a hypothesis is a boolean: it is an int in the     *)
(* C API and a char in the buffer.                                         *)
THEOREM WhatWasAddedIsPushed ==
  ASSUME TruthFitsByte
  PROVE  DeliverySpec => []AddedIsPushed
<1>1. WriterInv => AddedIsPushed
  BY EncodedIsPushed
<1> QED
  BY <1>1, AlwaysWriterInv, PTL

(* What is proved of calls from Lua holds of them between writers, too.    *)
LEMMA DeliveryInterrupts == DeliverySpec => InterruptSpec
<1>1. DeliveryInit => InterruptInit
  BY DEF DeliveryInit
<1>2. [DeliveryNext]_<<vars, transferVars, hookVars>> => [InterruptNext]_<<transferVars, hookVars>>
  BY DEF DeliveryNext
<1> QED
  BY <1>1, <1>2, PTL DEF DeliverySpec, InterruptSpec

(* The variables of writers and calls have their types. *)
THEOREM DeliveryIsTyped == DeliverySpec => []DeliveryTypeOK
<1>1. WriterInv => TypeOK
  BY DEF WriterInv, BufferInv
<1>2. TypeOK /\ TransferTypeOK => DeliveryTypeOK
  BY DEF DeliveryTypeOK
<1> QED
  BY <1>1, <1>2, AlwaysWriterInv, AlwaysTransferTyped, DeliveryInterrupts, PTL

=============================================================================
