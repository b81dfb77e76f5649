-------------------------------- MODULE Writer --------------------------------
(***************************************************************************)
(* The writer of the receiver C API (src/receiver_capi_impl.c): native     *)
(* code adds values to a growing buffer (src/util.c) and sends them as the *)
(* arguments of a callback, where MtState_call3a() (src/state.c) decodes   *)
(* them.  A writer has one user at a time.                                 *)
(*                                                                         *)
(* The buffer is a sequence of cells, each a type tag or a byte.  Bytes    *)
(* have the values 0 .. Base - 1, so that a small Base brings the limits   *)
(* at 0xff within reach.  bufferStart never leaves bufferData, no function *)
(* of this program takes bytes from the front of the buffer.               *)
(***************************************************************************)
EXTENDS Integers, SequencesExt

CONSTANTS
  Base,         \* values of a byte, 256
  IntSize,      \* sizeof(lua_Integer)
  SizeSize,     \* sizeof(size_t)
  NumberSize,   \* sizeof(lua_Number)
  Booleans, Ints, Numbers, Strings, Arrays,
                \* the arguments that the add functions are called with
  Capacities,   \* arguments of newWriter, growFactor in halves
  GrowFactors,
  MaxCapacity   \* bound on the memory that malloc() has for the buffer

Byte == 0 .. Base - 1
(* what the lowest bit of byte k + 1 counts, the values of k bytes *)
Weight[k \in Nat] == IF k = 0 THEN 1 ELSE Base * Weight[k - 1]

ASSUME WriterAssumption ==
  /\ Base \in Nat /\ Base > 1
  /\ {IntSize, SizeSize, NumberSize} \subseteq Nat \ {0}
  /\ Ints \subseteq (-(Weight[IntSize] \div 2)) .. (Weight[IntSize] \div 2 - 1)
  /\ Booleans \subseteq Int
  /\ \A x \in Numbers : x \in Seq(Byte) /\ Len(x) = NumberSize
  /\ \A s \in Strings : s \in Seq(Byte) /\ Len(s) < Weight[SizeSize]
  /\ \A a \in Arrays : /\ a \in [type : Byte, elementSize : Byte \ {0}, data : Seq(Byte)]
                       /\ Len(a.data) % a.elementSize = 0
                       /\ Len(a.data) \div a.elementSize < Weight[SizeSize]
  /\ Capacities \subseteq Nat /\ GrowFactors \subseteq Nat /\ MaxCapacity \in Nat

VARIABLES
  open,        \* newWriter() has been called, freeWriter() has not
  growFactor,  \* MemBuffer.growFactor
  allocated,   \* MemBuffer.bufferData # NULL
  capacity,    \* MemBuffer.bufferCapacity
  bytes,       \* the bufferLength cells from bufferStart on
  nargs,       \* receiver_writer.nargs
  added        \* auxiliary: the values added since the buffer was empty

vars == <<open, growFactor, allocated, capacity, bytes, nargs, added>>

(* the type tags; as negative numbers they differ from bytes *)
BUFFER_INTEGER == -1
BUFFER_BYTE == -2
BUFFER_NUMBER == -3
BUFFER_BOOLEAN == -4
BUFFER_STRING == -5
BUFFER_SMALLSTRING == -6
BUFFER_CARRAY == -7

(* the values of Lua *)
Bool(b) == [type |-> "boolean", value |-> b]
Integer(i) == [type |-> "integer", value |-> i]
Number(x) == [type |-> "number", value |-> x]
String(s) == [type |-> "string", value |-> s]
Array(a) == [type |-> "carray", value |-> a]

-----------------------------------------------------------------------------
(* The encoding of each type *)

(* memcpy of an integer i of n bytes, the lowest byte first *)
InMemory(i, n) == [k \in 1 .. n |-> (i \div Weight[k - 1]) % Base]

EncodeBoolean(b) == <<BUFFER_BOOLEAN, b % Base>>
EncodeIntegerWide(i) ==
  IF 0 <= i /\ i <= Base THEN <<BUFFER_BYTE, i % Base>>
  ELSE <<BUFFER_INTEGER>> \o InMemory(i, IntSize)
EncodeInteger(i) ==
  IF 0 <= i /\ i <= Base - 1 THEN <<BUFFER_BYTE, i>>
  ELSE <<BUFFER_INTEGER>> \o InMemory(i, IntSize)
(* a number is the sequence of its bytes *)
EncodeNumber(x) == <<BUFFER_NUMBER>> \o x
EncodeString(s) ==
  IF Len(s) <= Base - 1 THEN <<BUFFER_SMALLSTRING, Len(s)>> \o s
  ELSE <<BUFFER_STRING>> \o InMemory(Len(s), SizeSize) \o s
EncodeBytes(s) ==
  [k \in 1 .. 2 * Len(s) |-> IF k % 2 = 1 THEN BUFFER_BYTE ELSE s[k \div 2]]
EncodeArray(a) ==
  <<BUFFER_CARRAY, a.type, a.elementSize>>
    \o InMemory(Len(a.data) \div a.elementSize, SizeSize) \o a.data

-----------------------------------------------------------------------------
(* MtState_call3a: the values that are pushed for the callback *)

(* memcpy of these cells to an integer *)
FromMemory(cells) ==
  LET sum[k \in 0 .. Len(cells)] ==
        IF k = 0 THEN 0 ELSE sum[k - 1] + cells[k] * Weight[k - 1]
  IN  sum[Len(cells)]
Signed(i, n) == IF i >= Weight[n] \div 2 THEN i - Weight[n] ELSE i

(* n cells from position at on *)
Block(cells, at, n) == SubSeq(cells, at, at + n - 1)

(* the value whose tag is just before position at, and the cells it takes *)
Item(value, n) == [values |-> <<value>>, length |-> n]
Decode(tag, cells, at) ==
  CASE tag = BUFFER_BOOLEAN -> Item(Bool(cells[at] # 0), 1)
    [] tag = BUFFER_BYTE -> Item(Integer(cells[at]), 1)
    [] tag = BUFFER_INTEGER ->
         Item(Integer(Signed(FromMemory(Block(cells, at, IntSize)), IntSize)), IntSize)
    [] tag = BUFFER_NUMBER -> Item(Number(Block(cells, at, NumberSize)), NumberSize)
    [] tag = BUFFER_SMALLSTRING ->
         Item(String(Block(cells, at + 1, cells[at])), 1 + cells[at])
    [] tag = BUFFER_STRING ->
         LET n == FromMemory(Block(cells, at, SizeSize))
         IN  Item(String(Block(cells, at + SizeSize, n)), SizeSize + n)
    [] tag = BUFFER_CARRAY ->
         LET n == cells[at + 1] * FromMemory(Block(cells, at + 2, SizeSize))
         IN  Item(Array([type |-> cells[at], elementSize |-> cells[at + 1],
                         data |-> Block(cells, at + 2 + SizeSize, n)]),
                  2 + SizeSize + n)
    [] OTHER -> [values |-> <<>>, length |-> 0]

(* a step of the loop: where it is, and the values that it has pushed *)
ReadNext(cells, r) ==
  IF r.from > Len(cells) THEN r
  ELSE LET item == Decode(cells[r.from], cells, r.from + 1)
       IN  [from |-> r.from + 1 + item.length, values |-> r.values \o item.values]

(* an item takes a cell at least *)
ReadAll(cells) ==
  LET read[k \in Nat] ==
        IF k = 0 THEN [from |-> 1, values |-> <<>>] ELSE ReadNext(cells, read[k - 1])
  IN  read[Len(cells)].values
Pushed == IF nargs = 0 THEN <<>> ELSE ReadAll(bytes)

-----------------------------------------------------------------------------
(* mtstates_membuf_reserve *)

Unchanged(rc) == [rc |-> rc, allocated |-> allocated, capacity |-> capacity]

(* malloc() and realloc() can fail, and do when there is no memory left *)
Allocations(n) ==
  {Unchanged(2)} \cup
  (IF n <= MaxCapacity THEN {[rc |-> 0, allocated |-> TRUE, capacity |-> n]} ELSE {})

GrownPlain(length) == (capacity * growFactor) \div 2
Grown(length) ==
  LET n == (capacity * growFactor) \div 2 IN IF n < length THEN length ELSE n

(* what reserving room for n more cells can lead to *)
Reservations(n) ==
  LET length == Len(bytes) + n IN
  IF length <= capacity THEN {Unchanged(0)}
  ELSE IF ~allocated THEN Allocations(2 * length)
  ELSE IF growFactor > 0 THEN Allocations(Grown(length))
  ELSE {Unchanged(1)}

-----------------------------------------------------------------------------
(* The receiver C API *)

Empty == bytes' = <<>> /\ nargs' = 0 /\ added' = <<>>

(* newWriter() gives no writer when there is no memory *)
NewWriter(n, factor) ==
  /\ ~open
  /\ n <= MaxCapacity
  /\ open' = TRUE /\ growFactor' = factor
  /\ allocated' = (n > 0) /\ capacity' = n
  /\ Empty

FreeWriterKeepsCapacity ==
  /\ open
  /\ open' = FALSE /\ growFactor' = 0 /\ allocated' = FALSE
  /\ Empty /\ UNCHANGED capacity
FreeWriter ==
  /\ open
  /\ open' = FALSE /\ growFactor' = 0 /\ allocated' = FALSE /\ capacity' = 0
  /\ Empty

ClearWriter ==
  /\ open
  /\ Empty
  /\ UNCHANGED <<open, growFactor, allocated, capacity>>

(* the add functions write n values as the cells e, all or nothing *)
NumberOf(values) == Len(values)
Add(values, e) ==
  /\ open
  /\ \E r \in Reservations(Len(e)) :
       /\ allocated' = r.allocated /\ capacity' = r.capacity
       /\ IF r.rc = 0
          THEN /\ bytes' = bytes \o e
               /\ nargs' = nargs + NumberOf(values)
               /\ added' = added \o values
          ELSE UNCHANGED <<bytes, nargs, added>>
  /\ UNCHANGED <<open, growFactor>>

AddBoolean(b) == Add(<<Bool(b # 0)>>, EncodeBoolean(b))
AddInteger(i) == Add(<<Integer(i)>>, EncodeInteger(i))
AddNumber(x) == Add(<<Number(x)>>, EncodeNumber(x))
AddString(s) == Add(<<String(s)>>, EncodeString(s))
AddBytes(s) == Add([i \in 1 .. Len(s) |-> Integer(s[i])], EncodeBytes(s))
(* the caller fills the elements in before it does anything else *)
AddArray(a) == Add(<<Array(a)>>, EncodeArray(a))

(* the writer is cleared when the callback has succeeded *)
MsgToReceiver(rc) ==
  /\ open
  /\ IF rc = 0 THEN Empty ELSE UNCHANGED <<bytes, nargs, added>>
  /\ UNCHANGED <<open, growFactor, allocated, capacity>>

-----------------------------------------------------------------------------

Init ==
  /\ open = FALSE /\ growFactor = 0 /\ allocated = FALSE /\ capacity = 0
  /\ bytes = <<>> /\ nargs = 0 /\ added = <<>>

Next ==
  \/ \E n \in Capacities, factor \in GrowFactors : NewWriter(n, factor)
  \/ FreeWriter
  \/ ClearWriter
  \/ \E b \in Booleans : AddBoolean(b)
  \/ \E i \in Ints : AddInteger(i)
  \/ \E x \in Numbers : AddNumber(x)
  \/ \E s \in Strings : AddString(s)
  \/ \E s \in Strings : AddBytes(s)
  \/ \E a \in Arrays : AddArray(a)
  \/ \E rc \in {0, 1, 990, 999} : MsgToReceiver(rc)

Spec == Init /\ [][Next]_vars

-----------------------------------------------------------------------------

(* The variables have their types, a cell is a tag or a byte. *)
TypeOK ==
  /\ open \in BOOLEAN /\ growFactor \in GrowFactors \cup {0}
  /\ allocated = (capacity > 0) /\ capacity \in 0 .. MaxCapacity
  /\ bytes \in Seq(-7 .. -1 \cup Byte)
  /\ nargs \in Nat

(* The callback is given the values that were added, in their order, what- *)
(* ever their types and lengths, how the buffer grew between them, and     *)
(* which additions failed, and lua_pcall() is told how many they are, else *)
(* it would take one of them for the function or miss some.                *)
AddedIsPushed == Pushed = added /\ nargs = Len(added)

(* Nothing is written beyond the end of the buffer. *)
FitsCapacity == Len(bytes) <= capacity

=============================================================================
