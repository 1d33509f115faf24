------------------------------- MODULE Words -------------------------------
(***************************************************************************)
(* The native values: UInt64, BigUInt, Bytes and FixedBytes (primitives/), *)
(* and the op functions that need nothing but their arguments              *)
(* (op/pure.py).                                                           *)
(*                                                                         *)
(* An operation is the set of its results: it is empty when the code       *)
(* raises. A contract that computes holds one value at a time, and may     *)
(* walk over a byte string with an iterator before it computes on.         *)
(***************************************************************************)
EXTENDS Integers, Sequences, SequencesExt, FiniteSetsExt

CONSTANTS
  ByteBits,     \* BITS_IN_BYTE: 8
  WordBytes,    \* bytes of a UInt64: 8
  BigBytes,     \* bytes of an operand of BigUInt: 64
  MaxBytesSize, \* MAX_BYTES_SIZE: 4096
  OperandBytes  \* bound: bytes of the other operand of a step

\* A product of two operands of BigUInt fits in Bytes, as it does with 64 and 4096, and
\* the other operand of a step is one of Bytes.
ASSUME WordsAssumption ==
  /\ {ByteBits, WordBytes, BigBytes, MaxBytesSize, OperandBytes} \subseteq Nat \ {0}
  /\ WordBytes <= BigBytes /\ 2 * BigBytes <= MaxBytesSize /\ OperandBytes <= MaxBytesSize

VARIABLES
  value, \* the native value at hand: its kind, a number, a byte string
  iter   \* an iterator over it, with the history of what it yielded

wordVars == <<value, iter>>

-----------------------------------------------------------------------------
(* Python's integers: a power, and the number that digits stand for.       *)

Pow(base, exp) == LET p[k \in Nat] == IF k = 0 THEN 1 ELSE base * p[k - 1] IN p[exp]

Number(base, digits) ==
  LET n[k \in 0..Len(digits)] == IF k = 0 THEN 0 ELSE base * n[k - 1] + digits[k]
  IN  n[Len(digits)]

Base == Pow(2, ByteBits)
Byte == 0..(Base - 1)
WordBits == ByteBits * WordBytes
MaxWord == Pow(2, WordBits) - 1
Word == 0..MaxWord
MaxBig == Pow(2, ByteBits * BigBytes) - 1
Texts(n) == UNION {[1..k -> Byte] : k \in 0..n}

-----------------------------------------------------------------------------
(* utils.py and what Python's integers and slices do.                      *)

MaxBits == ByteBits * MaxBytesSize + 1
Bit == [i \in 0..(MaxBits - 1) |-> Pow(2, i)]
BitsOf(n) == {i \in 0..(MaxBits - 1) : (n \div Bit[i]) % 2 = 1}
FromBits(S) == Number(2, [k \in 1..MaxBits |-> IF MaxBits - k \in S THEN 1 ELSE 0])
AndBits(x, y) == FromBits(BitsOf(x) \cap BitsOf(y))
OrBits(x, y) == FromBits(BitsOf(x) \cup BitsOf(y))
XorBits(x, y) == FromBits(SymDiff(BitsOf(x), BitsOf(y)))

BitOps == {"and", "or", "xor"}
Combine(op, x, y) ==
  CASE op = "and" -> AndBits(x, y) [] op = "or" -> OrBits(x, y) [] op = "xor" -> XorBits(x, y)

BitLength(n) == IF n = 0 THEN 0 ELSE Max(BitsOf(n)) + 1

\* int.from_bytes and int.to_bytes, big endian.
IntOf(s) == Number(Base, s)
Digits(n, size) == [i \in 1..size |-> (n \div Pow(Base, size - i)) % Base]

\* The shortest byte string of n, or zeros before it up to a length.
IntToBytes(n, pad_to) ==
  Digits(n, Max({pad_to, (BitLength(n) + ByteBits - 1) \div ByteBits}))

AsInt(n, max) == IF n \in 0..max THEN {n} ELSE {}
AsBytes(s) == IF Len(s) <= MaxBytesSize THEN {s} ELSE {}

\* s[start:stop] counts a negative bound from the end and cuts what is outside.
Bound(s, i) == IF i < 0 THEN Max({0, Len(s) + i}) ELSE Min({i, Len(s)})
Slice(s, start, stop) == SubSeq(s, Bound(s, start) + 1, Bound(s, stop))

\* base**exp. A number of more than two words stays too large.
Wide == (MaxWord + 1) * (MaxWord + 1)
Raise(base, exp) ==
  LET p[k \in Nat] ==
        IF k = 0 THEN 1 ELSE LET q == p[k - 1] IN IF q > Wide THEN q ELSE base * q
  IN  p[exp]

Root(n) == Max({r \in 0..n : r * r <= n})

-----------------------------------------------------------------------------
(* UInt64.                                                                 *)

Checked(n) == IF n \in Word THEN {n} ELSE {}

Plus(a, b) == Checked(a + b)
Minus(a, b) == Checked(a - b)
Times(a, b) == Checked(a * b)
FloorDiv(a, b) == IF b = 0 THEN {} ELSE Checked(a \div b)
Modulo(a, b) == IF b = 0 THEN {} ELSE Checked(a % b)
Power(a, b) == IF a = 0 /\ b = 0 THEN {} ELSE Checked(Raise(a, b))
And(a, b) == {AndBits(a, b)}
Or(a, b) == {OrBits(a, b)}
Xor(a, b) == {XorBits(a, b)}

\* Mutant: what is shifted out is not cut off.
ShiftUncut(a, shift) == IF shift >= WordBits THEN {} ELSE {a * Pow(2, shift)}

LShift(a, shift) == IF shift >= WordBits THEN {} ELSE {(a * Pow(2, shift)) % (MaxWord + 1)}
RShift(a, shift) == IF shift >= WordBits THEN {} ELSE {a \div Pow(2, shift)}
Invert(a) == MaxWord - a

-----------------------------------------------------------------------------
(* Bytes.                                                                  *)

Concat(a, b) == AsBytes(a \o b)

\* An index is a slice of one byte, empty when nothing is there.
Item(s, index) ==
  LET i == IF index < 0 THEN Len(s) + index ELSE index IN Slice(s, i, i + 1)

\* Mutant: the shorter one gets its zeros at the end.
PadAfter(s, n) == [i \in 1..n |-> IF i <= Len(s) THEN s[i] ELSE 0]

Padded(s, n) == [i \in 1..n |-> IF i <= n - Len(s) THEN 0 ELSE s[i - (n - Len(s))]]

Bitwise(op, a, b) ==
  LET n == Max({Len(a), Len(b)})
  IN  [i \in 1..n |-> Combine(op, Padded(a, n)[i], Padded(b, n)[i])]

InvertBytes(s) == [i \in 1..Len(s) |-> Base - 1 - s[i]]

\* _BytesIter, _FixedBytesIter: by position, until one step past the end.
\* Mutant: backwards, the walk starts behind the last byte.
IterPast(s, n, step) ==
  [over |-> s, current |-> IF step > 0 THEN 0 ELSE n, step |-> step,
   end |-> IF step > 0 THEN n - 1 ELSE 0, yielded |-> <<>>]

IterOf(s, n, step) ==
  [over |-> s, current |-> IF step > 0 THEN 0 ELSE n - 1, step |-> step,
   end |-> IF step > 0 THEN n - 1 ELSE 0, yielded |-> <<>>]

IterStops(it) == it.current = it.end + it.step

IterNext(it) ==
  [it EXCEPT !.current = @ + it.step,
             !.yielded = Append(@, Slice(it.over, it.current, it.current + 1))]

-----------------------------------------------------------------------------
(* BigUInt: a byte string. An operand has at most BigBytes bytes of value, *)
(* a result is as large as it is.                                          *)

BigUInt(n) == IntToBytes(n, 0)
BigChecked(n) == IF n < 0 THEN {} ELSE {BigUInt(n)}
BigOperands(a, b) == IntOf(a) <= MaxBig /\ IntOf(b) <= MaxBig

BigPlus(a, b) == IF BigOperands(a, b) THEN BigChecked(IntOf(a) + IntOf(b)) ELSE {}
BigMinus(a, b) == IF BigOperands(a, b) THEN BigChecked(IntOf(a) - IntOf(b)) ELSE {}
BigTimes(a, b) == IF BigOperands(a, b) THEN BigChecked(IntOf(a) * IntOf(b)) ELSE {}

BigFloorDiv(a, b) ==
  IF BigOperands(a, b) /\ IntOf(b) # 0 THEN BigChecked(IntOf(a) \div IntOf(b)) ELSE {}

BigModulo(a, b) ==
  IF BigOperands(a, b) /\ IntOf(b) # 0 THEN BigChecked(IntOf(a) % IntOf(b)) ELSE {}

\* On the bytes as they are, and the other operand's shortest ones.
BigBitwise(op, a, b) ==
  IF BigOperands(a, b) THEN AsBytes(Bitwise(op, a, BigUInt(IntOf(b)))) ELSE {}

-----------------------------------------------------------------------------
(* The values of a contract.                                               *)

UInt64Of(n) == [kind |-> "uint64", num |-> n, str |-> <<>>]
BytesOf(s) == [kind |-> "bytes", num |-> 0, str |-> s]
BigUIntOf(s) == [kind |-> "biguint", num |-> 0, str |-> s]
FixedBytesOf(n, s) == [kind |-> "fixed", num |-> n, str |-> s]

(* FixedBytes: num is the length its type has.                             *)

FixedNew(n, s) == IF Len(s) = n THEN {FixedBytesOf(n, s)} ELSE {}

\* from_bytes does not look at the length.
FixedFromBytes(n, s) == FixedBytesOf(n, s)

FixedItem(f, index) ==
  LET i == IF index < 0 THEN f.num + index ELSE index
  IN  IF i \in 0..(f.num - 1) THEN {Slice(Slice(f.str, 0, f.num), i, i + 1)} ELSE {}

\* Mutant: the result keeps the type whatever the length of the other one.
TypedAlways(f, other, s) ==
  IF other.kind = "fixed" THEN FixedFromBytes(f.num, s) ELSE BytesOf(s)

\* The result keeps the type when the other one is FixedBytes as long.
Typed(f, other, s) ==
  IF other.kind = "fixed" /\ Len(other.str) = Len(f.str)
  THEN FixedFromBytes(f.num, s)
  ELSE BytesOf(s)

FixedBitwise(op, f, other) == Typed(f, other, Bitwise(op, f.str, other.str))

\* &=, |= and ^= first make the other one a value of the same type.
FixedInPlace(op, f, s) ==
  {r \in {FixedBitwise(op, f, g) : g \in FixedNew(f.num, s)} : r.kind = "fixed"}

FixedInvert(f) == FixedFromBytes(f.num, InvertBytes(f.str))

-----------------------------------------------------------------------------
(* op/pure.py.                                                             *)

\* Mutant: the high word is what is above the low one's largest value.
HighOff(n) == {<<hi, n % (MaxWord + 1)>> : hi \in Checked(n \div MaxWord)}

IntToUInt128(n) == {<<hi, n % (MaxWord + 1)>> : hi \in Checked(n \div (MaxWord + 1))}
UInt128ToInt(hi, lo) == hi * (MaxWord + 1) + lo

addw(a, b) == IntToUInt128(a + b)
mulw(a, b) == IntToUInt128(a * b)
expw(a, b) == IF a = 0 /\ b = 0 THEN {} ELSE IntToUInt128(Raise(a, b))
exp(a, b) == IF a = 0 /\ b = 0 THEN {} ELSE Checked(Raise(a, b))

divw(a, b, c) == IF c = 0 THEN {} ELSE Checked(UInt128ToInt(a, b) \div c)

divmodw(a, b, c, d) ==
  LET i == UInt128ToInt(a, b)
      j == UInt128ToInt(c, d)
  IN  IF j = 0 THEN {} ELSE {q \o r : q \in IntToUInt128(i \div j), r \in IntToUInt128(i % j)}

shl(a, b) == {(a * Pow(2, k)) % (MaxWord + 1) : k \in AsInt(b, WordBits - 1)}
shr(a, b) == {a \div Pow(2, k) : k \in AsInt(b, WordBits - 1)}
sqrt(a) == Root(a)
bsqrt(a) == {BigUInt(Root(n)) : n \in AsInt(IntOf(a), MaxBig)}
bitlen(n) == BitLength(n)
select(a, b, c) == IF c # 0 THEN b ELSE a

btoi(s) == IF Len(s) > WordBytes THEN {} ELSE {IntOf(s)}
itob(n) == Digits(n, WordBytes)
bzero(n) == IF n > MaxBytesSize THEN {} ELSE {[i \in 1..n |-> 0]}

\* Mutant: a length of zero that is computed means the rest, too.
ExtractRest(s, start, length, literal) ==
  LET stop == IF length = 0 THEN Len(s) ELSE start + length
  IN  IF start > Len(s) \/ stop > Len(s) THEN {} ELSE {Slice(s, start, stop)}

\* A literal length of zero means the rest.
extract(s, start, length, literal) ==
  LET stop == IF literal /\ length = 0 THEN Len(s) ELSE start + length
  IN  IF start > Len(s) \/ stop > Len(s) THEN {} ELSE {Slice(s, start, stop)}

\* extract_uint16, 32 and 64: of size bytes.
extract_uint(s, start, size) == {IntOf(t) : t \in extract(s, start, size, TRUE)}

substring(s, start, stop) ==
  {Slice(s, b, c) : b \in AsInt(start, stop), c \in AsInt(stop, Len(s))}

replace(s, start, t) ==
  IF start + Len(t) > Len(s) THEN {}
  ELSE Concat(Slice(s, 0, start) \o t, Slice(s, start + Len(t), Len(s)))

getbyte(s, i) == {s[k + 1] : k \in AsInt(i, Len(s) - 1)}
setbyte(s, i, b) == {[s EXCEPT ![k + 1] = b] : k \in AsInt(i, Len(s) - 1)}

\* Bit i of a byte string counts from the first, that of a word from the last.
BitIndex(i, big) == IF big THEN ByteBits - 1 - (i % ByteBits) ELSE i % ByteBits

GetBit(s, i, big) ==
  LET t == IF big THEN s ELSE Reverse(s)
  IN  {(BitIndex(k, big) \in BitsOf(t[k \div ByteBits + 1])) :
        k \in AsInt(i, Len(s) * ByteBits - 1)}

SetBitIn(v, index, x) ==
  FromBits(IF x THEN BitsOf(v) \cup {index} ELSE BitsOf(v) \ {index})

\* Mutant: the bytes of a word are not turned back.
SetBitTurned(s, i, x, big) ==
  LET t == IF big THEN s ELSE Reverse(s)
  IN  {[t EXCEPT ![k \div ByteBits + 1] = SetBitIn(@, BitIndex(k, big), x)] :
        k \in AsInt(i, Len(s) * ByteBits - 1)}

SetBit(s, i, x, big) ==
  LET t == IF big THEN s ELSE Reverse(s)
      Set(k) == [t EXCEPT ![k \div ByteBits + 1] = SetBitIn(@, BitIndex(k, big), x)]
  IN  {IF big THEN Set(k) ELSE Reverse(Set(k)) : k \in AsInt(i, Len(s) * ByteBits - 1)}

setbit_uint64(n, i, x) == {IntOf(s) : s \in SetBit(itob(n), i, x, FALSE)}
setbit_bytes(s, i, x) == SetBit(s, i, x, TRUE)

-----------------------------------------------------------------------------
(* What a contract computes next from the value at hand.                   *)

NoIter == IterOf(<<>>, 0, 1)
Operands == Texts(OperandBytes)
Bitwises(s, t) == {Bitwise(op, s, t) : op \in BitOps}

UInt64Results(a, b) ==
  UNION {Plus(a, b), Minus(a, b), Times(a, b), FloorDiv(a, b), Modulo(a, b), Power(a, b),
         And(a, b), Or(a, b), Xor(a, b), LShift(a, b), RShift(a, b), {Invert(a)}}

OpResults(a, b) ==
  UNION {exp(a, b), shl(a, b), shr(a, b), {sqrt(a), select(a, b, b), bitlen(a)},
         setbit_uint64(a, b, TRUE), setbit_uint64(a, b, FALSE)}

BytesResults(s, t, i) ==
  UNION {Concat(s, t), Bitwises(s, t), {InvertBytes(s), Item(s, i)}, replace(s, i, t),
         extract(s, i, Len(t), FALSE), substring(s, i, Len(s)),
         setbyte(s, i, Base - 1), setbit_bytes(s, i, TRUE), setbit_bytes(s, i, FALSE)}

BigUIntResults(a, b) ==
  UNION {BigPlus(a, b), BigMinus(a, b), BigTimes(a, b), BigFloorDiv(a, b), BigModulo(a, b),
         UNION {BigBitwise(op, a, b) : op \in BitOps}, bsqrt(a)}

FixedResults(f, other) ==
  UNION {{FixedBitwise(op, f, other) : op \in BitOps},
         UNION {FixedInPlace(op, f, other.str) : op \in BitOps},
         {FixedInvert(f), BytesOf(f.str)},
         {BytesOf(s) : s \in Concat(f.str, other.str)},
         {BytesOf(s) : s \in FixedItem(f, Len(other.str))}}

Becomes(v) == value' = v /\ UNCHANGED iter

UInt64Step ==
  /\ value.kind = "uint64"
  /\ \E b \in Word : \E r \in UInt64Results(value.num, b) \cup OpResults(value.num, b) :
       Becomes(UInt64Of(r))

BytesStep ==
  /\ value.kind = "bytes"
  /\ \E t \in Operands, i \in 0..MaxBytesSize : \E r \in BytesResults(value.str, t, i) :
       Becomes(BytesOf(r))

\* Bound: a result is taken up while it has MaxBytesSize bytes.
BigUIntStep ==
  /\ value.kind = "biguint"
  /\ \E t \in Operands : \E r \in BigUIntResults(value.str, t) :
       Len(r) <= MaxBytesSize /\ Becomes(BigUIntOf(r))

FixedBytesStep ==
  /\ value.kind = "fixed"
  /\ \E t \in Operands : \E other \in {BytesOf(t), FixedBytesOf(Len(t), t)} :
       \E r \in FixedResults(value, other) : Len(r.str) <= MaxBytesSize /\ Becomes(r)

\* itob, BigUInt(UInt64), btoi, BigUInt.from_bytes, FixedBytes, FixedBytes.from_bytes.
Convert ==
  \/ /\ value.kind = "uint64"
     /\ Becomes(BytesOf(itob(value.num))) \/ Becomes(BigUIntOf(IntToBytes(value.num, WordBytes)))
  \/ /\ value.kind = "bytes"
     /\ \/ \E n \in btoi(value.str) : Becomes(UInt64Of(n))
        \/ Becomes(BigUIntOf(value.str))
        \/ \E f \in FixedNew(Len(value.str), value.str) : Becomes(f)
        \/ \E n \in 1..OperandBytes : Becomes(FixedFromBytes(n, value.str))
  \/ value.kind = "biguint" /\ Becomes(BytesOf(value.str))

\* iter() and reversed().
StartIter ==
  /\ iter = NoIter /\ value.kind \in {"bytes", "fixed"}
  /\ \E step \in {1, -1} :
       iter' = IterOf(value.str, IF value.kind = "fixed" THEN value.num ELSE Len(value.str), step)
  /\ UNCHANGED value

NextByte == ~IterStops(iter) /\ iter' = IterNext(iter) /\ UNCHANGED value

\* The loop over it ends, or is left.
StopIter == iter # NoIter /\ iter' = NoIter /\ UNCHANGED value

WordsInit == value = BytesOf(<<>>) /\ iter = NoIter

WordsNext ==
  \/ iter = NoIter /\ (UInt64Step \/ BytesStep \/ BigUIntStep \/ FixedBytesStep \/ Convert)
  \/ StartIter \/ NextByte \/ StopIter

WordsSpec == WordsInit /\ [][WordsNext]_wordVars

-----------------------------------------------------------------------------
(* Properties.                                                             *)

\* Type invariant of the values: what a UInt64 and a byte string may be.
WordsTypeOK ==
  /\ value.kind \in {"uint64", "bytes", "biguint", "fixed"}
  /\ value.num \in Nat /\ value.str \in Texts(MaxBytesSize)
  /\ value.kind = "uint64" => value.num \in Word
  /\ iter.over \in Texts(MaxBytesSize) /\ iter.current \in -1..MaxBytesSize

\* The operations with wide operands or results are exact: the two words of a sum, a
\* product or a power are its value, quotient and remainder give the dividend back, and
\* divw is divmodw when the quotient is one word.
WideIsExact ==
  value.kind = "uint64" =>
  LET a == value.num IN
  \A b \in Word :
    /\ \A w \in addw(a, b) : UInt128ToInt(w[1], w[2]) = a + b
    /\ \A w \in mulw(a, b) : UInt128ToInt(w[1], w[2]) = a * b
    /\ addw(a, b) # {} /\ mulw(a, b) # {}
    /\ \A w \in expw(a, b) : w[1] = 0 => exp(a, b) = {w[2]}
    /\ \A c, d \in Word : \A q \in divmodw(a, b, c, d) :
         LET quotient == UInt128ToInt(q[1], q[2])
             rest == UInt128ToInt(q[3], q[4])
         IN  /\ quotient * UInt128ToInt(c, d) + rest = UInt128ToInt(a, b)
             /\ rest < UInt128ToInt(c, d)
             /\ c = 0 => divw(a, b, d) = (IF quotient \in Word THEN {quotient} ELSE {})

\* A bit has one address: in a word the distance from its last bit, in a byte string that
\* from its first one, so that they mirror each other through itob. Setting it changes
\* that bit and no other, and addresses outside raise.
BitsAreAddressed ==
  \A x \in BOOLEAN :
    /\ value.kind = "uint64" =>
         LET a == value.num IN
         \A i \in 0..WordBits :
           IF i = WordBits THEN setbit_uint64(a, i, x) = {}
           ELSE /\ setbit_uint64(a, i, x)
                     = {FromBits({j \in 0..WordBits : IF j = i THEN x ELSE j \in BitsOf(a)})}
                /\ GetBit(itob(a), i, FALSE) = GetBit(itob(a), WordBits - 1 - i, TRUE)
                /\ GetBit(itob(a), i, FALSE) = {(i \in BitsOf(a))}
    /\ value.kind = "bytes" =>
         LET n == ByteBits * Len(value.str) IN
         \A i \in 0..n : \A s \in setbit_bytes(value.str, i, x) :
           /\ i < n
           /\ \A j \in 0..n :
                GetBit(s, j, TRUE) = (IF j = i THEN {x} ELSE GetBit(value.str, j, TRUE))

\* The functions that cut byte strings agree with each other and with slices: extract of
\* a computed length is substring, a literal length of zero the rest, an integer what
\* btoi makes of the part, and a part put back by replace changes nothing.
RangesAgree ==
  value.kind = "bytes" =>
  LET s == value.str IN
  \A i, n \in 0..(Len(s) + 1) :
    /\ extract(s, i, n, FALSE) = substring(s, i, i + n)
    /\ n # 0 => extract(s, i, n, TRUE) = extract(s, i, n, FALSE)
    /\ n = 0 => extract(s, i, n, TRUE) = substring(s, i, Len(s))
    /\ n \in 1..WordBytes => extract_uint(s, i, n) = UNION {btoi(t) : t \in extract(s, i, n, FALSE)}
    /\ \A t \in extract(s, i, n, FALSE) : replace(s, i, t) = {s}
    /\ \A t \in Texts(1) : \A r \in replace(s, i, t) : extract(r, i, Len(t), FALSE) = {t}

\* The bitwise operators on byte strings of unequal length, and so on BigUInt whatever
\* zeros it starts with, are those of the integers they stand for.
BitwiseIsNumeric ==
  value.kind \in {"bytes", "biguint"} =>
  \A t \in Operands, op \in BitOps :
    LET s == value.str
    IN  \A r \in {Bitwise(op, s, t)} \cup BigBitwise(op, s, t) :
          IntOf(r) = Combine(op, IntOf(s), IntOf(t))

\* An iterator yields the bytes one by one, in order or backwards, what an index of the
\* same distance from that end yields, and stops exactly when all were yielded. (Of
\* FixedBytes that from_bytes gave another length it yields as many as its type has.)
IteratorsYieldAll ==
  value.kind = "bytes" \/ Len(value.str) = value.num =>
  LET n == Len(iter.yielded) IN
  /\ \A k \in 1..n : iter.yielded[k] = Item(iter.over, IF iter.step > 0 THEN k - 1 ELSE -k)
  /\ IterStops(iter) <=> n = Len(iter.over)

\* No operator makes FixedBytes of another length than its type's from one of the right
\* length; only from_bytes, that does not look, does.
FixedKeepsLength ==
  [][value.kind = "fixed" /\ value'.kind = "fixed" /\ Len(value.str) = value.num
     => value'.num = value.num /\ Len(value'.str) = value.num]_wordVars
=============================================================================
