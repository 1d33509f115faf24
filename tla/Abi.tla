-------------------------------- MODULE Abi --------------------------------
(***************************************************************************)
(* ARC4 encoding (arc4.py, serialize.py): how values become bytes, how an  *)
(* array, a tuple or a struct finds its items in its bytes, and how it     *)
(* puts them together again each time one of them changes.                 *)
(*                                                                         *)
(* An array or a tuple is its type and its bytes, nothing else: reading    *)
(* decodes, writing encodes all of it anew. A struct keeps its fields, and *)
(* its bytes are encoded from them each time they are asked for. One such  *)
(* object is changed here, and contents is what was put in it.             *)
(*                                                                         *)
(* Bytes that hold Error stand for an exception, and so does what is made  *)
(* of them.                                                                *)
(***************************************************************************)
EXTENDS Words

CONSTANTS
  Types,   \* the types there are, those of their items among them
  Natives, \* types of native values, those of their items among them
  Depth,   \* how deep each type of both is nested
  Values,  \* bound: the values of each type
  MaxItems \* bound: items of a dynamic array

VARIABLES
  object,   \* an ARC4 object: type, bytes, and the bytes of the fields of a struct
  contents  \* history: the values put in it

abiVars == <<object, contents>>

Error == -1
Bytes == Seq(Byte \cup {Error})
Poison == <<Error>>
Raises(b) == Error \in ToSet(b)
OrRaise(b) == IF Raises(b) THEN Poison ELSE b
Without(bs) == \A i \in DOMAIN bs : ~Raises(bs[i])

-----------------------------------------------------------------------------
(* Types: their kind, a size in bytes or items, the types they are made of. *)

Simple(kind, size) == [kind |-> kind, size |-> size, of |-> <<>>]
UIntT(size) == Simple("uint", size)
ByteT == Simple("byte", 1)
BoolT == Simple("bool", 0)
StringT == Simple("string", 0)
StaticT(t, size) == [kind |-> "static", size |-> size, of |-> <<t>>]
DynamicT(t) == [kind |-> "dynamic", size |-> 0, of |-> <<t>>]
TupleT(ts) == [kind |-> "tuple", size |-> 0, of |-> ts]
StructT(ts) == [kind |-> "struct", size |-> 0, of |-> ts]

Leaves == {"uint", "byte", "bool", "string"}
Arrays == {"static", "dynamic"}
Tuples == {"tuple", "struct"}

\* No type is an item of itself. A UIntN or BigUIntN has at most 512 bits.
TypesOK(types, kinds) ==
  \A t \in types :
    /\ t = [kind |-> t.kind, size |-> t.size, of |-> t.of]
    /\ t.kind \in kinds /\ t.size \in Nat /\ t.of \in Seq(types)
    /\ Depth[t] \in Nat /\ \A i \in DOMAIN t.of : Depth[t.of[i]] < Depth[t]

\* The values of a type are made of all those of its items, and what replaces an item is
\* one of them.
MadeOfItems(t) ==
  /\ t.kind \in {"uint", "byte"} => Values[t] \subseteq Nat
  /\ t.kind = "bool" => Values[t] \subseteq BOOLEAN
  /\ t.kind = "string" => Values[t] \subseteq Seq(Byte)
  /\ t.kind = "static" => Values[t] = [1..t.size -> Values[t.of[1]]]
  /\ t.kind = "dynamic" => Values[t] = UNION {[1..n -> Values[t.of[1]]] : n \in 0..MaxItems}
  /\ t.kind \in Tuples =>
       \A v \in Values[t] :
         /\ v = [i \in DOMAIN t.of |-> v[i]] /\ \A i \in DOMAIN v : v[i] \in Values[t.of[i]]
         /\ \A i \in DOMAIN v : \A x \in Values[t.of[i]] : [v EXCEPT ![i] = x] \in Values[t]

ASSUME AbiAssumption ==
  /\ MaxItems \in Nat
  /\ TypesOK(Types, Leaves \cup Arrays \cup Tuples)
  /\ \A t \in Types :
       /\ t.kind \in Leaves => t.of = <<>>
       /\ t.kind \in Arrays => Len(t.of) = 1
       /\ t.kind \in Tuples => Len(t.of) > 1
       /\ t.kind = "uint" => t.size <= BigBytes
       /\ t.kind = "byte" => t.size = 1
       /\ MadeOfItems(t)

IsDynamic[t \in Types] ==
  t.kind \in {"string", "dynamic"} \/ \E i \in DOMAIN t.of : IsDynamic[t.of[i]]

\* Types are compared by arc4_name: a struct has that of its tuple.
Named(t) == IF t.kind = "struct" THEN "tuple" ELSE t.kind

SameType[s \in Types] ==
  [t \in Types |->
     /\ Named(s) = Named(t) /\ s.size = t.size /\ Len(s.of) = Len(t.of)
     /\ \A i \in DOMAIN s.of : SameType[s.of[i]][t.of[i]]]

\* The types of n items of an array, or those of a tuple.
ChildTypes(t, n) == IF t.kind \in Arrays THEN [i \in 1..n |-> t.of[1]] ELSE t.of

\* How many bools follow item i in a direction. In an array all items are taken for such.
BoolsFrom(ts, i, delta, homogeneous) ==
  IF homogeneous THEN (IF delta < 0 THEN 0 ELSE Len(ts) - i)
  ELSE Max({n \in 0..Len(ts) : \A k \in 0..n :
              i + delta * k \in 1..Len(ts) /\ ts[i + delta * k].kind = "bool"})

\* The length of a static type, NoLength (None) of a dynamic one and of bool on its own.
NoLength == -1

\* Mutant: bools that do not fill a byte take none.
LengthCut(length, ts) ==
  LET from[i \in 1..(Len(ts) + 1)] ==
        IF i > Len(ts) THEN 0
        ELSE LET bools == IF ts[i].kind = "bool" THEN BoolsFrom(ts, i, 1, FALSE) + 1 ELSE 0
                 first == IF bools > 0 THEN bools \div ByteBits ELSE length[ts[i]]
                 rest == from[i + Max({1, bools})]
             IN  IF NoLength \in {first, rest} THEN NoLength ELSE first + rest
  IN  from[1]

\* The sum of the lengths of items. Neighbouring bools share bytes.
LengthOf(length, ts) ==
  LET from[i \in 1..(Len(ts) + 1)] ==
        IF i > Len(ts) THEN 0
        ELSE LET bools == IF ts[i].kind = "bool" THEN BoolsFrom(ts, i, 1, FALSE) + 1 ELSE 0
                 first == IF bools > 0 THEN (bools + ByteBits - 1) \div ByteBits
                          ELSE length[ts[i]]
                 rest == from[i + Max({1, bools})]
             IN  IF NoLength \in {first, rest} THEN NoLength ELSE first + rest
  IN  from[1]

StaticLength[t \in Types] ==
  IF t.kind \in {"static", "tuple", "struct"}
  THEN LengthOf(StaticLength, ChildTypes(t, t.size))
  ELSE IF t.kind \in {"uint", "byte"} THEN t.size ELSE NoLength

-----------------------------------------------------------------------------
(* Decoding, one level: the bytes of the items.                            *)

LengthSize == 2 \* _ABI_LENGTH_SIZE
TrueByte == Pow(2, ByteBits - 1)

Whole(b) == [dynamic |-> FALSE, from |-> 0, bytes |-> b]
Start(from) == [dynamic |-> TRUE, from |-> from, bytes |-> <<>>]
End(at) == [dynamic |-> FALSE, from |-> at, bytes |-> <<>>]

\* What is read for item i and those after it, item i at byte at: static ones, bools from
\* a shared byte, the starts of dynamic ones, and last where that ends.
ReadFrom(ts, b, homogeneous) ==
  LET read[i \in 1..(Len(ts) + 1)] == [at \in Nat |->
        IF i > Len(ts) THEN <<End(at)>>
        ELSE IF i > 1 /\ at >= Len(b) THEN <<Whole(Poison)>> \* not long enough
        ELSE IF IsDynamic[ts[i]]
        THEN <<Start(IntOf(Slice(b, at, at + LengthSize)))>> \o read[i + 1][at + LengthSize]
        ELSE IF ts[i].kind = "bool"
        THEN LET after == Min({ByteBits - 1, BoolsFrom(ts, i, 1, homogeneous)})
                 bits == BitsOf(IntOf(Slice(b, at, at + 1)))
                 bool(k) == Whole(<<IF ByteBits - k \in bits THEN TrueByte ELSE 0>>)
             IN  IF BoolsFrom(ts, i, -1, homogeneous) % ByteBits # 0 THEN <<Whole(Poison)>>
                 ELSE [k \in 1..(after + 1) |-> bool(k)] \o read[i + after + 1][at + 1]
        ELSE LET stop == at + StaticLength[ts[i]]
             IN  <<Whole(Slice(b, at, stop))>> \o read[i + 1][stop]]
  IN  read[1][0]

Homogeneous(ts) == ts # <<>> /\ \A i \in DOMAIN ts : SameType[ts[i]][ts[1]]

\* Mutant: every dynamic item goes to the end.
CutToEnd(b, parts) ==
  IF Last(parts).bytes = Poison THEN <<Poison>>
  ELSE [i \in 1..(Len(parts) - 1) |->
         IF parts[i].dynamic THEN Slice(b, parts[i].from, Len(b)) ELSE parts[i].bytes]

\* A dynamic item goes up to the start of the next one. All bytes must be read.
Cut(b, parts) ==
  LET dynamic == {i \in 1..(Len(parts) - 1) : parts[i].dynamic}
  IN  IF Last(parts).bytes = Poison \/ (dynamic = {} /\ Last(parts).from < Len(b)) THEN <<Poison>>
      ELSE [i \in 1..(Len(parts) - 1) |->
             IF i \notin dynamic THEN parts[i].bytes
             ELSE Slice(b, parts[i].from, IF i = Max(dynamic) THEN Len(b)
                                          ELSE parts[Min({j \in dynamic : j > i})].from)]

Decode(ts, b) == Cut(b, ReadFrom(ts, b, Homogeneous(ts)))

\* _list() and native: a dynamic array reads its length first.
ReadLength(b) == IntOf(Slice(b, 0, LengthSize))

Items(t, b) ==
  IF Raises(b) THEN <<Poison>>
  ELSE IF t.kind = "dynamic"
  THEN Decode(ChildTypes(t, ReadLength(b)), Slice(b, LengthSize, Len(b)))
  ELSE Decode(ChildTypes(t, t.size), b)

-----------------------------------------------------------------------------
(* Encoding: heads, then tails. The head of a dynamic item is where its    *)
(* tail starts.                                                            *)

\* Mutant: a length or an offset is not checked to fit.
LengthUnchecked(n) == <<n \div Base, n % Base>>

EncodeLength(n) == IF n < Pow(Base, LengthSize) THEN Digits(n, LengthSize) ELSE Poison

\* Up to ByteBits bools, the first in the highest bit.
Compress(bs) == <<FromBits({ByteBits - k : k \in {k \in DOMAIN bs : bs[k] = <<TrueByte>>}})>>

Static(head) == [dynamic |-> FALSE, head |-> head, tail |-> <<>>]
Dynamic(tail) == [dynamic |-> TRUE, head |-> Digits(0, LengthSize), tail |-> tail]

\* Mutant: one bool too many is packed in a byte.
PartsOver(reencode, homogeneous, ts, bs) ==
  LET from[i \in 1..(Len(bs) + 1)] ==
        IF i > Len(bs) THEN <<>>
        ELSE IF IsDynamic[ts[i]]
        THEN <<Dynamic(IF ts[i].kind = "string" THEN bs[i] ELSE reencode[ts[i]][bs[i]])>>
             \o from[i + 1]
        ELSE IF ts[i].kind = "bool"
        THEN LET after == Min({ByteBits, BoolsFrom(ts, i, 1, homogeneous)})
             IN  <<Static(Compress(SubSeq(bs, i, i + after)))>> \o from[i + after + 1]
        ELSE <<Static(bs[i])>> \o from[i + 1]
  IN  from[1]

\* A static item as its bytes (that Bytes must hold), bools of an array or of a run in a
\* tuple together, a dynamic item encoded anew.
Parts(reencode, homogeneous, ts, bs) ==
  LET from[i \in 1..(Len(bs) + 1)] ==
        IF i > Len(bs) THEN <<>>
        ELSE IF IsDynamic[ts[i]]
        THEN <<Dynamic(IF ts[i].kind = "string" THEN bs[i] ELSE reencode[ts[i]][bs[i]])>>
             \o from[i + 1]
        ELSE IF ts[i].kind = "bool"
        THEN LET after == Min({ByteBits - 1, BoolsFrom(ts, i, 1, homogeneous)})
             IN  IF BoolsFrom(ts, i, -1, homogeneous) % ByteBits # 0 THEN <<Static(Poison)>>
                 ELSE <<Static(Compress(SubSeq(bs, i, i + after)))>> \o from[i + after + 1]
        ELSE <<Static(IF AsBytes(bs[i]) = {} THEN Poison ELSE bs[i])>> \o from[i + 1]
  IN  from[1]

Join(bs) ==
  LET upto[k \in 0..Len(bs)] == IF k = 0 THEN <<>> ELSE upto[k - 1] \o bs[k] IN upto[Len(bs)]

Assembled(parts) ==
  LET heads == Join([k \in DOMAIN parts |-> parts[k].head])
      tails(n) == Join([k \in 1..n |-> parts[k].tail])
      head(k) == IF parts[k].dynamic THEN EncodeLength(Len(heads) + Len(tails(k - 1)))
                 ELSE parts[k].head
  IN  Join([k \in DOMAIN parts |-> head(k)]) \o tails(Len(parts))

Encode(reencode, homogeneous, ts, bs) ==
  IF Without(bs) THEN Assembled(Parts(reencode, homogeneous, ts, bs)) ELSE Poison

\* The bytes of an array, a tuple or a struct of given items, whose own items are encoded
\* anew when they are dynamic.
PutBy(reencode, t, bs) ==
  OrRaise((IF t.kind = "dynamic" THEN EncodeLength(Len(bs)) ELSE <<>>)
          \o Encode(reencode, t.kind \in Arrays, ChildTypes(t, Len(bs)), bs))

Reencode[t \in Types] == [b \in Bytes |-> PutBy(Reencode, t, Items(t, b))]

Put(t, bs) == PutBy(Reencode, t, bs)

-----------------------------------------------------------------------------
(* Making values and changing them.                                        *)

NewUInt(size, n) == IF n \in 0..(Pow(Base, size) - 1) THEN IntToBytes(n, size) ELSE Poison
NewBool(v) == <<IF v THEN TrueByte ELSE 0>>

NewString(s) ==
  LET b == EncodeLength(Len(s)) \o s IN IF AsBytes(b) = {} THEN Poison ELSE OrRaise(b)

NewLeaf(t, v) ==
  CASE t.kind \in {"uint", "byte"} -> NewUInt(t.size, v)
    [] t.kind = "bool" -> NewBool(v)
    [] t.kind = "string" -> NewString(v)

\* The constructors, on values whose items are made the same way.
New[t \in Types] == [v \in Values[t] |->
  IF t.kind \in Leaves THEN NewLeaf(t, v)
  ELSE Put(t, [i \in DOMAIN v |-> New[ChildTypes(t, Len(v))[i]][v[i]]])]

\* Python's index into a list.
Position(n, index) == IF index < 0 THEN n + index + 1 ELSE index + 1

\* x[index] = item, of all items decoded: one is replaced and all are encoded.
Replaced(t, bs, index, item) ==
  LET i == Position(Len(bs), index)
  IN  IF ~Without(bs) \/ i \notin DOMAIN bs THEN Poison ELSE Put(t, [bs EXCEPT ![i] = item])

SetItem(t, b, index, item) == Replaced(t, Items(t, b), index, item)

Extended(t, b, items) == Put(t, Items(t, b) \o items)

Shortened(t, bs) == IF ~Without(bs) \/ bs = <<>> THEN Poison ELSE Put(t, Front(bs))
Popped(t, b) == Shortened(t, Items(t, b))

Type == object.type

\* What an array or a tuple stores, unless encoding raised.
Store(b, v) ==
  /\ ~Raises(b)
  /\ object' = [object EXCEPT !.bytes = b]
  /\ contents' = v

\* Mutant: bytes that cannot be encoded are left as they were.
KeptBytes(b) == IF Raises(b) THEN object.bytes ELSE b

AskedBytes(b) == b

\* A struct stores the field before it encodes any, or finds that it is frozen: the field
\* stays when that raises, and bytes that do not fit raise until the fields fit again.
StoreField(i, b, v) ==
  /\ ~Raises(b)
  /\ LET fields == [object.fields EXCEPT ![i] = b]
     IN  object' = [type |-> Type, bytes |-> AskedBytes(Put(Type, fields)), fields |-> fields]
  /\ contents' = v

\* x[i - 1] = item of an array, x.field = item of a struct.
StoreItem(i, item, v) ==
  \/ Type.kind \in Arrays /\ Store(SetItem(Type, object.bytes, i - 1, item), v)
  \/ Type.kind = "struct" /\ StoreField(i, item, v)

\* x[i - 1] or x.field.
Inner(i) == IF Type.kind = "struct" THEN object.fields[i] ELSE Items(Type, object.bytes)[i]

ItemType(i) == ChildTypes(Type, Len(contents))[i]
Indexes(n) == -n..(n - 1)

\* A tuple is made anew with other items.
MakeTuple == Type.kind = "tuple" /\ \E v \in Values[Type] : Store(New[Type][v], v)

\* The items of a tuple cannot be assigned; the fields of a struct have names.
Assign ==
  /\ Type.kind \in Arrays
  /\ \E index \in Indexes(Len(contents)) :
       LET i == Position(Len(contents), index) IN
       \E v \in Values[ItemType(i)] :
         Store(SetItem(Type, object.bytes, index, New[ItemType(i)][v]),
               [contents EXCEPT ![i] = v])

AssignField ==
  /\ Type.kind = "struct"
  /\ \E i \in DOMAIN contents : \E v \in Values[ItemType(i)] :
       StoreField(i, New[ItemType(i)][v], [contents EXCEPT ![i] = v])

\* append, extend, + and pop of a dynamic array. Bound: MaxItems.
Extend ==
  /\ Type.kind = "dynamic"
  /\ \E n \in 1..(MaxItems - Len(contents)) : \E vs \in [1..n -> Values[Type.of[1]]] :
       Store(Extended(Type, object.bytes, [i \in 1..n |-> New[Type.of[1]][vs[i]]]),
             contents \o vs)

Pop ==
  /\ Type.kind = "dynamic" /\ Len(contents) > 0
  /\ Store(Popped(Type, object.bytes), Front(contents))

\* x[i][j] = item, and x[i].append(item): the inner object is changed, and then put back in
\* an array by assignment, where a struct has it already.
AssignInside ==
  \E i \in {i \in DOMAIN contents : ItemType(i).kind \in Arrays} :
  \E j \in Indexes(Len(contents[i])) :
    LET k == Position(Len(contents[i]), j)
        type == ItemType(i).of[1]
    IN  \E v \in Values[type] :
          StoreItem(i, SetItem(ItemType(i), Inner(i), j, New[type][v]),
                    [contents EXCEPT ![i] = [@ EXCEPT ![k] = v]])

AppendInside ==
  \E i \in {i \in DOMAIN contents : ItemType(i).kind = "dynamic"} :
    /\ Len(contents[i]) < MaxItems
    /\ \E v \in Values[ItemType(i).of[1]] :
         StoreItem(i, Extended(ItemType(i), Inner(i), <<New[ItemType(i).of[1]][v]>>),
                   [contents EXCEPT ![i] = Append(@, v)])

FieldsOf(t, v) ==
  IF t.kind = "struct" THEN [i \in DOMAIN t.of |-> New[t.of[i]][v[i]]] ELSE <<>>

AbiInit ==
  \E t \in {t \in Types : t.kind \notin Leaves} : \E v \in Values[t] :
    /\ ~Raises(New[t][v])
    /\ object = [type |-> t, bytes |-> New[t][v], fields |-> FieldsOf(t, v)] /\ contents = v

AbiNext ==
  MakeTuple \/ Assign \/ AssignField \/ Extend \/ Pop \/ AssignInside \/ AppendInside

AbiSpec == AbiInit /\ [][AbiNext]_abiVars

-----------------------------------------------------------------------------
(* Native values and their ARC4 types (serialize.py).                      *)

NativeT(kind, size, of) == [kind |-> kind, size |-> size, of |-> of]

Composite == {"Array", "ImmutableArray", "FixedArray", "ImmutableFixedArray", "Struct", "tuple"}
NativeLeaves == {"bool", "UInt64", "BigUInt", "String", "Bytes", "FixedBytes"}

\* The ARC4 type of a native one, of those of its items.
TypeOf(n, of) ==
  CASE n.kind = "bool" -> BoolT
    [] n.kind = "UInt64" -> UIntT(WordBytes)
    [] n.kind = "BigUInt" -> UIntT(BigBytes)
    [] n.kind = "String" -> StringT
    [] n.kind = "Bytes" -> DynamicT(ByteT)
    [] n.kind = "FixedBytes" -> StaticT(ByteT, n.size)
    [] n.kind \in {"Array", "ImmutableArray"} -> DynamicT(of[1])
    [] n.kind \in {"FixedArray", "ImmutableFixedArray"} -> StaticT(of[1], n.size)
    [] n.kind = "Struct" -> StructT(of)
    [] n.kind = "tuple" -> TupleT(of)

Arc4Type[n \in Natives] == TypeOf(n, [i \in DOMAIN n.of |-> Arc4Type[n.of[i]]])

ASSUME NativesAssumption ==
  /\ TypesOK(Natives, Composite \cup NativeLeaves)
  /\ \A n \in Natives :
       /\ n.kind \in NativeLeaves => n.of = <<>>
       /\ n.kind \in Composite \ {"tuple", "Struct"} => Len(n.of) = 1
       /\ Arc4Type[n] \in Types

\* The native types of the items of a value with that many.
Elements(n, size) == IF n.kind \in {"tuple", "Struct"} THEN n.of ELSE [i \in 1..size |-> n.of[1]]

ToArc4[n \in Natives] == [v \in Values[Arc4Type[n]] |->
  IF n.kind \in Composite
  THEN Put(Arc4Type[n], [i \in DOMAIN v |-> ToArc4[Elements(n, Len(v))[i]][v[i]]])
  ELSE New[Arc4Type[n]][v]]

\* Mutant: an integer is read as UInt64 whatever its size.
AsLowByte(b) == IntOf(b) % Base

AsUInt64(b) == IF IntOf(b) > MaxWord THEN Error ELSE IntOf(b)
AsBigUInt(b) == IntOf(b)
StringNative(b) == Slice(b, LengthSize, Len(b))
DynamicBytesNative(b) == IF AsBytes(b) = {} THEN Poison ELSE Slice(b, LengthSize, Len(b))

LeafNative(n, b) ==
  CASE n.kind = "bool" -> b = NewBool(TRUE)
    [] n.kind = "UInt64" -> AsUInt64(b)
    [] n.kind = "BigUInt" -> AsBigUInt(b)
    [] n.kind = "String" -> StringNative(b)
    [] n.kind = "Bytes" -> DynamicBytesNative(b)
    [] n.kind = "FixedBytes" -> b

ToNative[n \in Natives] == [b \in Bytes |->
  IF n.kind \in NativeLeaves THEN LeafNative(n, b)
  ELSE LET bs == Items(Arc4Type[n], b)
       IN  IF Without(bs) THEN [i \in DOMAIN bs |-> ToNative[Elements(n, Len(bs))[i]][bs[i]]]
           ELSE Poison]

-----------------------------------------------------------------------------
(* What ARC4 says of the bytes of a value: no loops, only where everything *)
(* is.                                                                     *)

\* The first of the run of bools item i belongs to.
RunStart(ts, i) == Min({s \in 1..i : \A k \in s..i : ts[k].kind = "bool"})

\* The bytes item i adds to the heads: the first of ByteBits bools adds theirs.
Cost(size, ts, i) ==
  CASE IsDynamic[ts[i]] -> LengthSize
    [] ts[i].kind = "bool" -> IF (i - RunStart(ts, i)) % ByteBits = 0 THEN 1 ELSE 0
    [] OTHER -> size[ts[i]]

\* Where the head of item i is, when static types have these sizes.
HeadBy(size, ts, i) ==
  LET at[k \in 1..i] == IF k = 1 THEN 0 ELSE at[k - 1] + Cost(size, ts, k - 1) IN at[i]

Size[t \in Types] ==
  IF t.kind \in Leaves THEN t.size
  ELSE HeadBy(Size, ChildTypes(t, t.size), Len(ChildTypes(t, t.size)) + 1)

HeadAt(ts, i) == HeadBy(Size, ts, i)

\* b has the items of v, each among the encodings of its type and value, each at its place.
LaidOut(encodings, ts, v, b) ==
  LET heads == HeadAt(ts, Len(ts) + 1)
      dynamic == {i \in DOMAIN ts : IsDynamic[ts[i]]}
      start(i) == IntOf(Slice(b, HeadAt(ts, i), HeadAt(ts, i) + LengthSize))
      stop(i) == IF i = Max(dynamic) THEN Len(b) ELSE start(Min({j \in dynamic : j > i}))
      bits(s) == {k \in 0..(ByteBits - 1) : /\ s + k \in DOMAIN ts /\ ts[s + k].kind = "bool"
                                            /\ RunStart(ts, s + k) = RunStart(ts, s) /\ v[s + k]}
  IN  /\ Len(v) = Len(ts)
      /\ IF dynamic = {} THEN Len(b) = heads ELSE start(Min(dynamic)) = heads
      /\ \A i \in dynamic :
           start(i) <= stop(i) /\ Slice(b, start(i), stop(i)) \in encodings[ts[i]][v[i]]
      /\ \A i \in DOMAIN ts \ dynamic :
           IF ts[i].kind = "bool"
           THEN Cost(Size, ts, i) = 1 =>
                  b[HeadAt(ts, i) + 1] = FromBits({ByteBits - 1 - k : k \in bits(i)})
           ELSE Slice(b, HeadAt(ts, i), HeadAt(ts, i + 1)) \in encodings[ts[i]][v[i]]

EncodesLeaf(t, v, b) ==
  CASE t.kind \in {"uint", "byte"} -> Len(b) = t.size /\ IntOf(b) = v
    [] t.kind = "bool" -> b = NewBool(v)
    [] t.kind = "string" -> ReadLength(b) = Len(v) /\ b = Slice(b, 0, LengthSize) \o v

\* The bytes that are the encoding of a value of type t.
Encodings[t \in Types] == [v \in Values[t] |-> {b \in Seq(Byte) :
  IF t.kind \in Leaves THEN EncodesLeaf(t, v, b)
  ELSE IF t.kind = "dynamic"
  THEN /\ Len(b) >= LengthSize /\ ReadLength(b) = Len(v)
       /\ LaidOut(Encodings, ChildTypes(t, Len(v)), v, Slice(b, LengthSize, Len(b)))
  ELSE LaidOut(Encodings, ChildTypes(t, t.size), v, b)}]

-----------------------------------------------------------------------------
(* Properties.                                                             *)

ReadsLeaf(t, v, b) ==
  CASE t.kind \in {"uint", "byte"} -> IntOf(b) = v
    [] t.kind = "bool" -> v <=> b = NewBool(TRUE)
    [] t.kind = "string" -> StringNative(b) = v

\* The bytes in which a value is found, decoded down to the leaves.
ReadAs[t \in Types] == [v \in Values[t] |-> {b \in Seq(Byte) :
  IF t.kind \in Leaves THEN ReadsLeaf(t, v, b)
  ELSE LET bs == Items(t, b)
       IN  /\ Len(bs) = Len(v)
           /\ \A i \in DOMAIN v : bs[i] \in ReadAs[ChildTypes(t, Len(v))[i]][v[i]]}]

\* The last item is of no size, and something is before it.
EndsEmpty(ts) == Len(ts) > 1 /\ StaticLength[Last(ts)] = 0 /\ ~IsDynamic[Last(ts)]

Readable[t \in Types] ==
  /\ ~EndsEmpty(ChildTypes(t, IF t.kind = "dynamic" THEN 2 ELSE t.size))
  /\ \A i \in DOMAIN t.of : Readable[t.of[i]]

\* An array of none of its dynamic items is in the type.
Hollow[t \in Types] ==
  (t.kind = "static" /\ t.size = 0) \/ \E i \in DOMAIN t.of : Hollow[t.of[i]]

\* The object can be asked for its bytes.
HasBytes == ~Raises(object.bytes)

\* Type invariant of the object. Only a struct may be left with fields that have no encoding.
AbiTypeOK ==
  /\ Type \in Types
  /\ HasBytes => \A i \in DOMAIN object.bytes : object.bytes[i] \in Byte
  /\ HasBytes \/ Type.kind = "struct"
  /\ \A i \in DOMAIN contents : contents[i] \in Values[ItemType(i)]

\* Whatever was assigned before, and failed or not, the bytes are those of an object that is
\* made anew of what is in this one: a struct of fields that do not fit has none, and has
\* them again after an assignment that makes them fit.
NoTraceOfFailures == object.bytes = New[Type][contents]

\* After every assignment, also of an item of an item, the bytes are the ARC4 encoding of
\* what was put in: each item at its place, bools packed in runs, each offset the place
\* where its item starts, nothing between and nothing after.
BytesAreEncoding == HasBytes => object.bytes \in Encodings[Type][contents]

\* The items are found again in the bytes, all of them and down to the leaves; except that
\* a value that ends in an item of no size after others, all of them static, cannot be
\* read at all.
ItemsAreFound ==
  LET ts == ChildTypes(Type, Len(contents)) IN
  /\ HasBytes /\ Readable[Type] => object.bytes \in ReadAs[Type][contents]
  /\ EndsEmpty(ts) /\ (\A i \in DOMAIN ts : ~IsDynamic[ts[i]]) =>
       Items(Type, object.bytes) = <<Poison>>

\* The length that size_of and boxes take from a static type is that of its bytes, and
\* types that are not dynamic have one. The others have none, unless an array that has
\* none of its dynamic items is in the type.
LengthIsStatic ==
  /\ HasBytes /\ ~IsDynamic[Type] => StaticLength[Type] = Len(object.bytes)
  /\ IsDynamic[Type] => StaticLength[Type] = NoLength \/ Hollow[Type]

\* Bytes come back from their encoding while Bytes can hold that, too.
BytesFit[n \in Natives] == [v \in Values[Arc4Type[n]] |->
  /\ n.kind = "Bytes" => LengthSize + Len(v) <= MaxBytesSize
  /\ n.kind \in Composite => \A i \in DOMAIN v : BytesFit[Elements(n, Len(v))[i]][v[i]]]

\* Native values of the same ARC4 type: reading the bytes as one gives what was put in,
\* and serializing that gives the same bytes.
NativesAgree ==
  \A n \in {n \in Natives : SameType[Arc4Type[n]][Type] /\ contents \in Values[Arc4Type[n]]} :
    HasBytes /\ Readable[Type] /\ BytesFit[n][contents] =>
      ToNative[n][object.bytes] = contents /\ ToArc4[n][contents] = object.bytes
=============================================================================
