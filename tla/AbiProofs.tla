----------------------------- MODULE AbiProofs -----------------------------
(***************************************************************************)
(* The properties of the ARC4 object: after every assignment its bytes are *)
(* what the constructor makes of its value, and what the constructor makes *)
(* is the encoding, in which the items and native values are found again.  *)
(***************************************************************************)
EXTENDS AbiLemmas

\* Items that end in one that takes no bytes are not found when all are static.
LEMMA NothingIsNotFound ==
  ASSUME NEW ts \in Seq(Types), NEW bs, Proper(ts, bs), NEW b, InPlace(ts, bs, b), EndsEmpty(ts),
         \A i \in 1..Len(ts) : ~IsDynamic[ts[i]]
  PROVE  Decode(ts, b) = <<Poison>>
<1>1. PICK n \in Nat : n = Len(ts) /\ n > 1
  BY DEF EndsEmpty
<1>2. Alike(Homogeneous(ts), ts)
  BY AlikeFacts
<1>3. Homogeneous(ts) \in BOOLEAN /\ b \in Seq(Byte)
  BY <1>2 DEF Alike, InPlace
<1>4. PICK homogeneous \in BOOLEAN : homogeneous = Homogeneous(ts)
  BY <1>3
<1>5. PICK f : Reads(ts, b, homogeneous, f)
  BY <1>3, <1>4, ReadFromFacts
<1>6. \A i \in 1..(n + 1) : HeadAt(ts, i) \in Nat /\ f[i] \in [Nat -> Seq(Pieces)]
  BY <1>1, <1>5, HeadAtFacts DEF Reads
<1>7. n \in 1..n /\ n \in 1..(n + 1) /\ 1 \in 1..(n + 1) /\ n # Len(ts) + 1
  BY <1>1
<1>8. ts[n] \in Types /\ ts[n].kind # "bool" /\ Size[ts[n]] = 0 /\ ~IsDynamic[ts[n]]
  <2>1. ts[n] \in Types /\ ~IsDynamic[ts[n]] /\ Last(ts) = ts[n]
    BY <1>1, <1>7 DEF Last
  <2>2. StaticLength[ts[n]] = 0
    BY <2>1 DEF EndsEmpty
  <2>3. ts[n].kind # "bool"
    <3>1. ts[n].kind = "bool" => StaticLength[ts[n]] = NoLength
      BY <2>1, StaticLengthDef
    <3> QED
      BY <2>2, <3>1 DEF NoLength
  <2> QED
    BY <2>1, <2>2, <2>3, StaticHasLength
<1>9. HeadAt(ts, n) = Len(b)
  <2>1. Cost(Size, ts, n) = 0
    BY <1>1, <1>7, <1>8, CostFacts
  <2>2. HeadAt(ts, n + 1) = HeadAt(ts, n) + Cost(Size, ts, n)
    BY <1>1, <1>7, HeadAtFacts
  <2>3. PICK dynamic : dynamic = {k \in 1..Len(ts) : IsDynamic[ts[k]]}
    OBVIOUS
  <2>4. dynamic = {} /\ AreDynamic(ts, dynamic)
    BY <2>3 DEF AreDynamic
  <2>5. TailAt(ts, bs, n + 1) = HeadAt(ts, n + 1)
    BY <1>1, <2>4, StopFacts
  <2>6. Len(b) = TailAt(ts, bs, n + 1)
    BY <1>1 DEF InPlace
  <2>7. HeadAt(ts, n) \in Nat
    BY <1>6, <1>7
  <2> QED
    BY <2>1, <2>2, <2>5, <2>6, <2>7
<1>10. n \in Starts(ts) /\ IsStart(ts, n)
  BY <1>1, <1>7, <1>8 DEF Starts, IsStart
<1> DEFINE P == {i \in Starts(ts) : i <= Len(ts) => Fails(f[i][HeadAt(ts, i)])}
<1>11. Len(ts) + 1 \in P
  BY <1>1, FirstStart
<1>12. ASSUME NEW i \in Starts(ts), i <= Len(ts), Following(ts, i) \in P PROVE i \in P
  <2>1. i \in 1..Len(ts) /\ IsStart(ts, i) /\ i \in 1..(n + 1) /\ i \in Nat /\ ~(i > Len(ts))
    BY <1>1, <1>12 DEF Starts
  <2>2. PICK at \in Nat : at = HeadAt(ts, i)
    BY <1>6, <2>1
  <2>3. Len(b) \in Nat
    BY <1>3
  <2>4. CASE i > 1 /\ at >= Len(b)
    <3>1. f[i][at] = ReadStep(ts, b, homogeneous, f, i, at)
      BY <1>1, <1>5, <2>1 DEF Reads
    <3>2. f[i][at] = <<Whole(Poison)>>
      BY <2>1, <2>4, <3>1 DEF ReadStep
    <3> QED
      BY <2>2, <3>2, CompletePieces
  <2>5. CASE i > 1 => at < Len(b)
    <3>1. i # n
      BY <1>1, <1>9, <2>2, <2>3, <2>5
    <3>2. PICK j \in Starts(ts) : j = Following(ts, i) /\ j > i /\ j \in 1..(n + 1)
      BY <1>1, <2>1, StartFacts DEF Starts
    <3>3. j <= Len(ts)
      <4>1. n > i
        BY <1>1, <2>1, <3>1
      <4> QED
        BY <1>1, <1>10, <2>1, <3>2, <4>1, NoStartBetween
    <3>4. Fails(f[j][HeadAt(ts, j)])
      BY <1>12, <3>2, <3>3
    <3>5. ReadsFirst(ts, bs, f, i)
      BY <1>2, <1>4, <1>5, <2>1, <2>2, <2>5, ReadStart
    <3>6. PICK p \in Seq(Pieces) : p = SubSeq(Wanted(ts, bs), i, j - 1)
      <4>1. j - 1 \in i..(Len(ts) + 1) /\ i \in 1..(Len(ts) + 1)
        BY <1>1, <2>1, <3>2
      <4> QED
        BY <4>1, WantedFacts
    <3>7. PICK q \in Seq(Pieces) : q = f[j][HeadAt(ts, j)]
      <4>1. f[j] \in [Nat -> Seq(Pieces)] /\ HeadAt(ts, j) \in Nat
        BY <1>6, <3>2
      <4> QED
        BY <4>1
    <3>8. f[i][at] = p \o q
      BY <2>2, <3>2, <3>5, <3>6, <3>7 DEF ReadsFirst
    <3>9. Fails(p \o q)
      <4>1. Fails(q) /\ 0 \in Nat
        BY <3>4, <3>7
      <4> QED
        BY <4>1, ReadMore
    <3> QED
      BY <2>2, <3>8, <3>9
  <2> QED
    BY <2>2, <2>3, <2>4, <2>5
<1>13. P = Starts(ts)
  <2>1. P \in SUBSET Starts(ts)
    OBVIOUS
  <2> HIDE DEF P
  <2> QED
    BY <1>11, <1>12, <2>1, StartsBack
<1>14. Fails(f[1][0]) /\ f[1][0] \in Seq(Pieces)
  <2>1. HeadAt(ts, 1) = 0
    BY HeadAtFacts
  <2>2. 1 \in P /\ 1 <= Len(ts)
    BY <1>1, <1>13, FirstStart
  <2>3. f[1] \in [Nat -> Seq(Pieces)] /\ 0 \in Nat
    BY <1>6, <1>7
  <2> QED
    BY <2>1, <2>2, <2>3
<1>15. Decode(ts, b) = Cut(b, f[1][0])
  <2>1. ReadFrom(ts, b, Homogeneous(ts)) = f[1][0]
    BY <1>4, <1>5 DEF Reads
  <2> QED
    BY <2>1 DEF Decode
<1>16. 0 \in Nat
  OBVIOUS
<1> QED
  BY <1>3, <1>14, <1>15, <1>16, CutFacts

-----------------------------------------------------------------------------
(* What is made of values.                                                 *)

\* The types of the items of a value, and the bytes that hold them.
TypesIn(t, v) == ChildTypes(t, Len(v))
BodyOf(t, b) == IF t.kind = "dynamic" THEN Slice(b, LengthSize, Len(b)) ELSE b

\* The items are in place in the bytes, and found there if they can be at all.
Found(t, v, b) ==
  /\ Proper(TypesIn(t, v), NewItems(t, v))
  /\ InPlace(TypesIn(t, v), NewItems(t, v), BodyOf(t, b))
  /\ t.kind = "dynamic" => ReadLength(b) = Len(v) /\ Len(b) >= LengthSize
  /\ Items(t, b) = Decode(TypesIn(t, v), BodyOf(t, b))
  /\ \/ Items(t, b) = NewItems(t, v)
     \/ EndsEmpty(TypesIn(t, v)) /\ Items(t, b) = <<Poison>>
  /\ Reencode[t][b] \in {b, Poison}

\* The bytes of a value are of the length its type says, and the items are found.
Well(t, v, b) ==
  /\ b \in Seq(Byte)
  /\ t.kind = "bool" => b \in {<<0>>, <<TrueByte>>}
  /\ t.kind # "bool" /\ ~IsDynamic[t] => Len(b) = Size[t]
  /\ t.kind \notin Leaves => Found(t, v, b)

\* All values of a type are made so.
MadeWell(t) == \A v \in Values[t] : ~Raises(New[t][v]) => Well(t, v, New[t][v])

\* Leaves are.
LEMMA LeafIsWell ==
  ASSUME NEW t \in Types, t.kind \in Leaves
  PROVE  MadeWell(t)
<1> SUFFICES ASSUME NEW v \in Values[t], ~Raises(New[t][v]) PROVE Well(t, v, New[t][v])
  BY DEF MadeWell
<1>1. New[t][v] = NewLeaf(t, v)
  BY NewDef
<1>2. NewLeaf(t, v) \in Seq(Byte) /\ (t.kind \in {"uint", "byte"} => Len(NewLeaf(t, v)) = t.size)
  BY <1>1, LeafFacts
<1>3. Size[t] = t.size
  BY SizeDef
<1>4. t.kind = "string" => IsDynamic[t]
  BY DynamicDef
<1>5. ASSUME t.kind = "bool" PROVE NewLeaf(t, v) \in {<<0>>, <<TrueByte>>}
  BY <1>5 DEF NewLeaf, NewBool
<1> QED
  BY <1>1, <1>2, <1>3, <1>4, <1>5 DEF Well, Leaves

\* The items of a value are of item types.
LEMMA TypesInFacts ==
  ASSUME NEW t \in Types, t.kind \notin Leaves, NEW v \in Values[t]
  PROVE  /\ TypesIn(t, v) \in Seq(Types) /\ Len(TypesIn(t, v)) = Len(v) /\ Len(v) \in Nat
         /\ DOMAIN v = 1..Len(v)
         /\ \A i \in 1..Len(v) : /\ v[i] \in Values[TypesIn(t, v)[i]]
                                 /\ \E j \in DOMAIN t.of : TypesIn(t, v)[i] = t.of[j]
                                 /\ NewItems(t, v)[i] = New[TypesIn(t, v)[i]][v[i]]
         /\ NewItems(t, v) \in Seq(Bytes) /\ Len(NewItems(t, v)) = Len(v)
         /\ Fits(t, NewItems(t, v))
<1>1. PICK ts \in Seq(Types) : ts = TypesIn(t, v) /\ Len(ts) = Len(v)
  BY ValueFacts DEF TypesIn
<1>2. /\ Len(v) \in Nat /\ DOMAIN v = 1..Len(v)
      /\ \A i \in 1..Len(v) : v[i] \in Values[ts[i]]
  BY <1>1, ValueFacts DEF TypesIn
<1>3. ASSUME NEW i \in 1..Len(v) PROVE \E j \in DOMAIN t.of : ts[i] = t.of[j]
  <2>1. i \in DOMAIN ts
    BY <1>1
  <2> QED
    BY <1>1, <1>2, <2>1, ChildFacts DEF TypesIn
<1>4. NewItems(t, v) = [i \in 1..Len(v) |-> New[ts[i]][v[i]]]
  BY <1>1, <1>2 DEF NewItems, ItemsBy, TypesIn
<1>5. Makers(New, t)
  <2>1. \A j \in DOMAIN t.of : t.of[j] \in Types
    BY TypeFacts
  <2> QED
    BY <2>1, NewDef DEF Makers
<1>6. NewItems(t, v) \in Seq(Bytes) /\ Len(NewItems(t, v)) = Len(v) /\ Fits(t, NewItems(t, v))
  BY <1>5, MadeItemsFit DEF NewItems
<1> QED
  BY <1>1, <1>2, <1>3, <1>4, <1>6

\* The items of bytes that were made did not raise and are as long as their types say.
LEMMA ItemsAreProper ==
  ASSUME NEW t \in Types, t.kind \notin Leaves, NEW v \in Values[t], Without(NewItems(t, v)),
         \A j \in DOMAIN t.of : MadeWell(t.of[j])
  PROVE  Proper(TypesIn(t, v), NewItems(t, v)) /\ Kept(Reencode, TypesIn(t, v), NewItems(t, v))
<1>1. PICK n \in Nat : n = Len(v)
  BY TypesInFacts
<1>2. PICK ts \in Seq(Types) : ts = TypesIn(t, v) /\ Len(ts) = n
  BY <1>1, TypesInFacts
<1>3. PICK bs \in Seq(Seq(Byte)) : bs = NewItems(t, v) /\ Len(bs) = n
  <2>1. NewItems(t, v) \in Seq(Bytes) /\ Len(NewItems(t, v)) = n
    BY <1>1, TypesInFacts
  <2> QED
    BY <2>1, WithoutFacts
<1>4. ASSUME NEW i \in 1..n PROVE Well(ts[i], v[i], bs[i])
  <2>1. PICK j \in DOMAIN t.of : ts[i] = t.of[j]
    <3>1. \E j \in DOMAIN t.of : TypesIn(t, v)[i] = t.of[j]
      BY <1>1, TypesInFacts
    <3> QED
      BY <1>2, <3>1, Zenon
  <2>2. v[i] \in Values[ts[i]] /\ bs[i] = New[ts[i]][v[i]]
    <3>1. /\ v[i] \in Values[TypesIn(t, v)[i]]
          /\ NewItems(t, v)[i] = New[TypesIn(t, v)[i]][v[i]]
      BY <1>1, TypesInFacts
    <3> QED
      BY <1>2, <1>3, <3>1, Zenon
  <2>3. MadeWell(ts[i])
    BY <2>1
  <2>4. ~Raises(bs[i])
    BY <1>3, RaisesFacts
  <2> QED
    BY <2>2, <2>3, <2>4 DEF MadeWell
<1>5. Proper(ts, bs)
  BY <1>2, <1>3, <1>4 DEF Proper, Well
<1>6. ASSUME NEW i \in 1..n, IsDynamic[ts[i]], ts[i].kind # "string"
      PROVE  Reencode[ts[i]][bs[i]] \in {bs[i], Poison}
  <2>1. ts[i] \in Types
    BY <1>2
  <2>2. ts[i].kind \notin Leaves
    <3>1. ts[i].kind \in Leaves => ts[i].of = << >>
      BY <2>1, TypeFacts
    <3>2. DOMAIN << >> = {}
      OBVIOUS
    <3>3. ts[i].kind \in Leaves => ts[i].kind \in {"string", "dynamic"}
      BY <1>6, <2>1, <3>1, <3>2, DynamicDef
    <3> QED
      BY <1>6, <3>3 DEF Leaves
  <2> QED
    BY <1>4, <2>2 DEF Well, Found
<1>7. Kept(Reencode, ts, bs)
  BY <1>2, <1>6 DEF Kept
<1> QED
  BY <1>2, <1>3, <1>5, <1>7

\* What is held at a place is what is there.
LEMMA SliceHeld ==
  ASSUME NEW s \in Seq(Byte), NEW u \in Seq(Byte), NEW at \in Nat, HoldsAt(s, at, u)
  PROVE  Slice(s, at, at + Len(u)) = u
<1>1. at + Len(u) <= Len(s) /\ \A k \in 1..Len(u) : s[at + k] = u[k]
  BY DEF HoldsAt
<1>2. at \in 0..Len(s)
  <2>1. Len(u) \in Nat /\ Len(s) \in Nat
    OBVIOUS
  <2> QED
    BY <1>1, <2>1
<1> QED
  BY <1>1, <1>2, SliceOf

\* What is put together is found in its two parts.
LEMMA SlicesOfTwo ==
  ASSUME NEW s \in Seq(Byte), NEW u \in Seq(Byte)
  PROVE  /\ Slice(s \o u, 0, Len(s)) = s /\ Slice(s \o u, Len(s), Len(s \o u)) = u
         /\ Len(s \o u) = Len(s) + Len(u) /\ Len(u) \in Nat
<1>1. /\ Len(s \o u) = Len(s) + Len(u) /\ Len(s) \in Nat /\ Len(u) \in Nat /\ s \o u \in Seq(Byte)
  OBVIOUS
<1>2. (\A k \in 1..Len(s) : (s \o u)[k] = s[k]) /\ \A k \in 1..Len(u) : (s \o u)[Len(s) + k] = u[k]
  OBVIOUS
<1>3. PICK b \in Seq(Byte) : b = s \o u
  BY <1>1
<1>4. PICK at \in Nat : at = 0
  OBVIOUS
<1>5. HoldsAt(b, at, s) /\ HoldsAt(b, Len(s), u)
  BY <1>1, <1>2, <1>3, <1>4 DEF HoldsAt
<1>6. Slice(b, at, at + Len(s)) = s
  BY <1>1, <1>4, <1>5, SliceHeld
<1>7. Slice(b, Len(s), Len(s) + Len(u)) = u
  BY <1>1, <1>5, SliceHeld
<1> QED
  BY <1>1, <1>3, <1>4, <1>6, <1>7

\* What is put together of items that fit: the length of a dynamic array and the items.
LEMMA PutIsInPlace ==
  ASSUME NEW t \in Types, t.kind \notin Leaves, NEW v \in Values[t], NEW ts, ts = TypesIn(t, v),
         NEW bs, bs = NewItems(t, v), Proper(ts, bs), Kept(Reencode, ts, bs),
         NEW b, b = Put(t, bs), ~Raises(b)
  PROVE  /\ b \in Seq(Byte) /\ InPlace(ts, bs, BodyOf(t, b))
         /\ t.kind = "dynamic" => ReadLength(b) = Len(v) /\ Len(b) >= LengthSize
         /\ Items(t, b) = Decode(ts, BodyOf(t, b))
<1>1. PICK n \in Nat : n = Len(v)
  BY TypesInFacts
<1>2. ts \in Seq(Types) /\ Len(ts) = n /\ bs \in Seq(Bytes) /\ Len(bs) = n /\ ts = ChildTypes(t, n)
  BY <1>1, TypesInFacts DEF TypesIn
<1>3. bs \in Seq(Seq(Byte)) /\ Without(bs)
  <2>1. bs \in Seq(Seq(Byte))
    BY DEF Proper
  <2> QED
    BY <1>2, <2>1, WithoutFacts
<1>4. (t.kind \in Arrays) \in BOOLEAN
  OBVIOUS
<1>5. PICK arrays \in BOOLEAN : arrays = (t.kind \in Arrays)
  BY <1>4, Zenon
<1>6. Alike(arrays, ts)
  BY <1>1, <1>2, <1>5, AlikeFacts
<1>7. PICK e : e = Encode(Reencode, arrays, ts, bs)
  OBVIOUS
<1>8. e = Assembled(Parts(Reencode, arrays, ts, bs))
  BY <1>3, <1>7 DEF Encode
<1>9. e \in Bytes
  <2>1. Encodable(Reencode, ts, bs)
    BY <1>2, KeptFacts
  <2>2. PICK f : Parted(Reencode, arrays, ts, bs, f)
    BY <1>2, <2>1, PartsFacts
  <2>3. Parts(Reencode, arrays, ts, bs) \in Seq(MadeParts)
    <3>1. 1 \in 1..(Len(ts) + 1)
      BY <1>2
    <3>2. f[1] \in Seq(MadeParts)
      BY <2>2, <3>1 DEF Parted
    <3> QED
      BY <2>2, <3>2 DEF Parted
  <2> QED
    BY <1>8, <2>3, AssembledFacts
<1>10. PICK l : l = IF t.kind = "dynamic" THEN EncodeLength(n) ELSE << >>
  OBVIOUS
<1>11. l \in Bytes
  <2>1. << >> \in Bytes
    BY DEF Bytes
  <2> QED
    BY <1>10, <2>1, EncodeLengthFacts
<1>12. b = OrRaise(l \o e)
  BY <1>2, <1>5, <1>7, <1>10 DEF Put, PutBy
<1>13. ~Raises(l) /\ ~Raises(e) /\ b = l \o e
  <2>1. l \o e \in Bytes /\ (Raises(l \o e) <=> Raises(l) \/ Raises(e))
    BY <1>9, <1>11, RaisesOfTwo
  <2>2. ~Raises(l \o e) /\ b = l \o e
    BY <1>12, <2>1, OrRaiseFacts
  <2> QED
    BY <2>1, <2>2
<1>14. l \in Seq(Byte) /\ e \in Seq(Byte) /\ b \in Seq(Byte)
  <2>1. l \in Seq(Byte) /\ e \in Seq(Byte)
    BY <1>9, <1>11, <1>13, RaisesFacts
  <2> QED
    BY <1>13, <2>1
<1>15. InPlace(ts, bs, e)
  BY <1>2, <1>6, <1>7, <1>13, EncodeFacts
<1>16. CASE t.kind = "dynamic"
  <2>1. l \in Seq(Byte) /\ Len(l) = LengthSize /\ IntOf(l) = n
    BY <1>10, <1>13, <1>16, EncodeLengthFacts
  <2>2. /\ Slice(b, 0, Len(l)) = l /\ Slice(b, Len(l), Len(b)) = e
        /\ Len(b) = Len(l) + Len(e) /\ Len(e) \in Nat
    BY <1>13, <1>14, SlicesOfTwo
  <2>5. /\ Slice(b, 0, LengthSize) = l /\ Slice(b, LengthSize, Len(b)) = e
        /\ Len(b) >= LengthSize
    <3>1. LengthSize \in Nat
      BY DEF LengthSize
    <3> QED
      BY <2>1, <2>2, <3>1
  <2>6. ReadLength(b) = n /\ BodyOf(t, b) = e
    BY <1>16, <2>1, <2>5 DEF ReadLength, BodyOf
  <2>7. Items(t, b) = Decode(ts, e)
    <3>1. Items(t, b) = Decode(ChildTypes(t, ReadLength(b)), Slice(b, LengthSize, Len(b)))
      BY <1>16 DEF Items
    <3> QED
      BY <1>2, <2>5, <2>6, <3>1
  <2> QED
    BY <1>1, <1>14, <1>15, <2>5, <2>6, <2>7
<1>17. CASE t.kind # "dynamic"
  <2>1. l = << >> /\ b = e
    BY <1>10, <1>13, <1>14, <1>17
  <2>2. BodyOf(t, b) = e
    BY <1>17, <2>1 DEF BodyOf
  <2>3. Items(t, b) = Decode(ChildTypes(t, t.size), b)
    BY <1>17 DEF Items
  <2>4. ChildTypes(t, t.size) = ts
    BY <1>1, <1>2, <1>17, ValueFacts
  <2> QED
    BY <1>14, <1>15, <1>17, <2>1, <2>2, <2>3, <2>4
<1> QED
  BY <1>16, <1>17

\* What is made of items that are made well is.
LEMMA ItemsMakeWell ==
  ASSUME NEW t \in Types, t.kind \notin Leaves, \A j \in DOMAIN t.of : MadeWell(t.of[j])
  PROVE  MadeWell(t)
<1> SUFFICES ASSUME NEW v \in Values[t], ~Raises(New[t][v]) PROVE Well(t, v, New[t][v])
  BY DEF MadeWell
<1>1. PICK n \in Nat : n = Len(v)
  BY TypesInFacts
<1>2. PICK ts \in Seq(Types) : ts = TypesIn(t, v) /\ Len(ts) = n
  BY <1>1, TypesInFacts
<1>3. PICK bs : bs = NewItems(t, v)
  OBVIOUS
<1>4. PICK b \in Bytes : b = New[t][v] /\ b = Put(t, bs)
  BY <1>3, NewDef
<1>5. Encoders(t, Reencode)
  BY ReencodeDef, TypeFacts DEF Encoders
<1>6. Without(bs)
  <2>1. SUFFICES ASSUME ~Without(bs) PROVE FALSE
    OBVIOUS
  <2>2. Fits(t, bs)
    BY <1>3, TypesInFacts
  <2>3. Put(t, bs) = Poison
    BY <1>5, <2>1, <2>2, PutByFacts DEF Put
  <2> QED
    BY <1>4, <2>3, RaisesFacts
<1>7. Proper(ts, bs) /\ Kept(Reencode, ts, bs)
  BY <1>2, <1>3, <1>6, ItemsAreProper
<1>8. /\ b \in Seq(Byte) /\ InPlace(ts, bs, BodyOf(t, b))
      /\ t.kind = "dynamic" => ReadLength(b) = Len(v) /\ Len(b) >= LengthSize
      /\ Items(t, b) = Decode(ts, BodyOf(t, b))
  BY <1>2, <1>3, <1>4, <1>7, PutIsInPlace
<1>9. Items(t, b) = bs \/ (EndsEmpty(ts) /\ Items(t, b) = <<Poison>>)
  BY <1>2, <1>7, <1>8, DecodeInPlace
<1>10. Reencode[t][b] \in {b, Poison}
  <2>1. Reencode[t][b] = Put(t, Items(t, b))
    BY ReencodeDef
  <2>2. CASE Items(t, b) = bs
    BY <1>4, <2>1, <2>2
  <2>3. CASE Items(t, b) = <<Poison>>
    <3>1. Fits(t, Items(t, b))
      BY ItemsFit
    <3>2. ~Without(<<Poison>>)
      <4>1. << >> \in Seq(Bytes)
        OBVIOUS
      <4> QED
        BY <4>1, WithoutFacts
    <3>3. Put(t, Items(t, b)) = Poison
      BY <1>5, <2>3, <3>1, <3>2, PutByFacts DEF Put
    <3> QED
      BY <2>1, <3>3
  <2> QED
    BY <1>9, <2>2, <2>3
<1>11. Found(t, v, b)
  BY <1>2, <1>3, <1>7, <1>8, <1>9, <1>10 DEF Found
<1>12. ASSUME ~IsDynamic[t] PROVE Len(b) = Size[t]
  <2>1. t.kind # "dynamic" /\ \A j \in DOMAIN t.of : ~IsDynamic[t.of[j]]
    BY <1>12, DynamicDef
  <2>2. BodyOf(t, b) = b /\ ChildTypes(t, t.size) = ts
    BY <1>1, <1>2, <2>1, ValueFacts DEF BodyOf, TypesIn
  <2>3. ASSUME NEW i \in 1..n PROVE ~IsDynamic[ts[i]]
    <3>1. PICK j \in DOMAIN t.of : ts[i] = t.of[j]
      BY <1>1, <1>2, TypesInFacts
    <3> QED
      BY <2>1, <3>1
  <2>4. PICK dynamic : dynamic = {k \in 1..Len(ts) : IsDynamic[ts[k]]}
    OBVIOUS
  <2>5. dynamic = {} /\ AreDynamic(ts, dynamic)
    BY <1>2, <2>3, <2>4 DEF AreDynamic
  <2>6. TailAt(ts, bs, n + 1) = HeadAt(ts, n + 1)
    BY <1>2, <1>7, <2>5, StopFacts
  <2>7. Len(b) = TailAt(ts, bs, n + 1)
    BY <1>2, <1>8, <2>2 DEF InPlace
  <2>8. Size[t] = HeadAt(ChildTypes(t, t.size), Len(ChildTypes(t, t.size)) + 1)
    BY SizeDef
  <2> QED
    BY <1>2, <2>2, <2>6, <2>7, <2>8
<1>13. t.kind # "bool"
  BY DEF Leaves
<1> QED
  BY <1>4, <1>8, <1>11, <1>12, <1>13 DEF Well

\* The bytes of every value of every type are of the length the type says, its items are
\* at their places in them and found there, or cannot be read at all, and encoding them
\* anew gives the same.
LEMMA AllIsWell == \A t \in Types : MadeWell(t)
<1> DEFINE P == {t \in Types : MadeWell(t)}
<1>1. ASSUME NEW t \in Types, \A i \in DOMAIN t.of : t.of[i] \in P PROVE t \in P
  BY <1>1, LeafIsWell, ItemsMakeWell
<1>2. P = Types
  <2>1. P \in SUBSET Types
    OBVIOUS
  <2> HIDE DEF P
  <2> QED
    BY <1>1, <2>1, TypeInduction
<1> QED
  BY <1>2

-----------------------------------------------------------------------------
(* What changes a value.                                                   *)

\* Putting an item in place of another gives a value of the same type and length.
LEMMA ReplacedValue ==
  ASSUME NEW t \in Types, t.kind \notin Leaves, NEW v \in Values[t], NEW i \in 1..Len(v),
         NEW x \in Values[TypesIn(t, v)[i]]
  PROVE  /\ [v EXCEPT ![i] = x] \in Values[t] /\ Len([v EXCEPT ![i] = x]) = Len(v)
         /\ TypesIn(t, [v EXCEPT ![i] = x]) = TypesIn(t, v)
         /\ NewItems(t, [v EXCEPT ![i] = x])
              = [NewItems(t, v) EXCEPT ![i] = New[TypesIn(t, v)[i]][x]]
<1>1. PICK n \in Nat : n = Len(v)
  BY ValueFacts
<1>2. /\ DOMAIN v = 1..n /\ i \in 1..n /\ v = [k \in 1..n |-> v[k]]
      /\ Len(TypesIn(t, v)) = n
      /\ \A k \in 1..n : v[k] \in Values[TypesIn(t, v)[k]]
  BY <1>1, ValueFacts DEF TypesIn
<1>3. PICK w : w = [v EXCEPT ![i] = x]
  OBVIOUS
<1>4. w = [k \in 1..n |-> IF k = i THEN x ELSE v[k]] /\ DOMAIN w = 1..n
  BY <1>2, <1>3
<1>5. Len(w) = n
  <2>1. w \in Seq({w[k] : k \in 1..n})
    BY <1>4
  <2> QED
    BY <1>4, <2>1
<1>6. MadeOfItems(t) /\ t.kind \in Arrays \cup Tuples /\ MaxItems \in Nat
  BY TypeFacts, AbiAssumption
<1>7. w \in Values[t]
  <2>1. CASE t.kind = "static"
    <3>1. Values[t] = [1..t.size -> Values[t.of[1]]]
      BY <1>6, <2>1 DEF MadeOfItems
    <3>2. TypesIn(t, v)[i] = t.of[1]
      BY <1>1, <1>2, <2>1, ChildFacts DEF TypesIn, Arrays
    <3>3. PICK V : V = Values[t.of[1]]
      OBVIOUS
    <3>4. v \in [1..t.size -> V] /\ x \in V
      BY <3>1, <3>2, <3>3, Zenon
    <3>5. w \in [1..t.size -> V]
      BY <1>3, <3>4
    <3> QED
      BY <3>1, <3>3, <3>5, Zenon
  <2>2. CASE t.kind = "dynamic"
    <3>1. PICK m \in 0..MaxItems : v \in [1..m -> Values[t.of[1]]]
      BY <1>6, <2>2 DEF MadeOfItems
    <3>2. TypesIn(t, v)[i] = t.of[1]
      <4>1. t.kind \in Arrays
        BY <2>2 DEF Arrays
      <4> QED
        BY <1>1, <1>2, <4>1, ChildFacts DEF TypesIn
    <3>3. w \in [1..m -> Values[t.of[1]]]
      <4>1. PICK V : V = Values[t.of[1]]
        OBVIOUS
      <4>2. v \in [1..m -> V] /\ x \in V
        BY <3>1, <3>2, <4>1, Zenon
      <4>3. w \in [1..m -> V]
        BY <1>3, <4>2
      <4> QED
        BY <4>1, <4>3, Zenon
    <3> QED
      BY <1>6, <2>2, <3>3 DEF MadeOfItems
  <2>3. CASE t.kind \in Tuples
    <3>1. TypesIn(t, v)[i] = t.of[i]
      <4>1. t.kind \notin Arrays
        BY <2>3 DEF Tuples, Arrays
      <4> QED
        BY <1>1, <4>1, ChildFacts DEF TypesIn
    <3> QED
      BY <1>2, <1>3, <1>6, <2>3, <3>1 DEF MadeOfItems
  <2> QED
    BY <1>6, <2>1, <2>2, <2>3 DEF Arrays
<1>8. TypesIn(t, w) = TypesIn(t, v)
  BY <1>1, <1>5 DEF TypesIn
<1>9. NewItems(t, w) = [NewItems(t, v) EXCEPT ![i] = New[TypesIn(t, v)[i]][x]]
  <2>1. PICK ts : ts = TypesIn(t, v)
    OBVIOUS
  <2>2. NewItems(t, v) = [k \in 1..n |-> New[ts[k]][v[k]]]
    BY <1>2, <2>1 DEF NewItems, ItemsBy, TypesIn
  <2>3. NewItems(t, w) = [k \in 1..n |-> New[ts[k]][w[k]]]
    BY <1>4, <1>8, <2>1 DEF NewItems, ItemsBy, TypesIn
  <2>4. PICK y : y = New[ts[i]][x]
    OBVIOUS
  <2>5. ASSUME NEW k \in 1..n PROVE New[ts[k]][w[k]] = IF k = i THEN y ELSE New[ts[k]][v[k]]
    BY <1>4, <2>4
  <2>6. NewItems(t, w) = [k \in 1..n |-> IF k = i THEN y ELSE New[ts[k]][v[k]]]
    BY <2>3, <2>5
  <2>7. [NewItems(t, v) EXCEPT ![i] = y] = [k \in 1..n |-> IF k = i THEN y ELSE New[ts[k]][v[k]]]
    BY <1>2, <2>2
  <2> QED
    BY <2>1, <2>4, <2>6, <2>7
<1> QED
  BY <1>1, <1>3, <1>5, <1>7, <1>8, <1>9

\* c has the items of a and then those of b.
OneAfter(S, a, b, c) ==
  /\ c \in Seq(S) /\ Len(c) = Len(a) + Len(b) /\ c = [k \in 1..(Len(a) + Len(b)) |-> c[k]]
  /\ \A k \in 1..Len(a) : c[k] = a[k]
  /\ \A k \in 1..Len(b) : c[Len(a) + k] = b[k]

\* What is at each place of two sequences put together.
LEMMA TwoTogether ==
  ASSUME NEW S, NEW a \in Seq(S), NEW b \in Seq(S)
  PROVE  OneAfter(S, a, b, a \o b)
<1>1. PICK s \in Seq(S) : s = a \o b /\ Len(s) = Len(a) + Len(b)
  <2>1. a \o b \in Seq(S)
    OBVIOUS
  <2>2. Len(a \o b) = Len(a) + Len(b)
    OBVIOUS
  <2> QED
    BY <2>1, <2>2
<1>2. s = [k \in 1..Len(s) |-> s[k]]
  OBVIOUS
<1>3. ASSUME NEW k \in 1..Len(a) PROVE (a \o b)[k] = a[k]
  OBVIOUS
<1>4. ASSUME NEW k \in 1..Len(b) PROVE (a \o b)[Len(a) + k] = b[k]
  OBVIOUS
<1> QED
  BY <1>1, <1>2, <1>3, <1>4 DEF OneAfter

\* Items added to a dynamic array.
LEMMA ExtendedValue ==
  ASSUME NEW t \in Types, t.kind = "dynamic", NEW v \in Values[t], NEW n \in Nat,
         Len(v) + n <= MaxItems, NEW vs \in [1..n -> Values[t.of[1]]]
  PROVE  /\ v \o vs \in Values[t]
         /\ [i \in 1..n |-> New[t.of[1]][vs[i]]] \in Seq(Bytes)
         /\ NewItems(t, v \o vs) = NewItems(t, v) \o [i \in 1..n |-> New[t.of[1]][vs[i]]]
<1>1. MadeOfItems(t) /\ MaxItems \in Nat /\ t.of[1] \in Types
  BY TypeFacts, AbiAssumption DEF Arrays
<1>2. PICK m \in 0..MaxItems : v \in [1..m -> Values[t.of[1]]]
  BY <1>1 DEF MadeOfItems
<1>3. PICK V : V = Values[t.of[1]]
  OBVIOUS
<1>4. v \in Seq(V) /\ vs \in Seq(V) /\ Len(v) = m /\ Len(vs) = n /\ m \in Nat
  BY <1>2, <1>3
<1>5. PICK w : w = v \o vs
  OBVIOUS
<1>6. PICK l \in Nat : l = m + n /\ l \in 0..MaxItems
  BY <1>1, <1>4
<1>7. /\ w \in Seq(V) /\ Len(w) = l /\ \A k \in 1..m : w[k] = v[k]
      /\ \A k \in 1..n : w[m + k] = vs[k]
  <2>1. OneAfter(V, v, vs, w)
    BY <1>4, <1>5, TwoTogether
  <2> QED
    BY <1>4, <1>6, <2>1 DEF OneAfter
<1>8. w \in [1..l -> V]
  BY <1>7
<1>9. w \in Values[t]
  BY <1>1, <1>3, <1>6, <1>8 DEF MadeOfItems
<1>10. PICK u : u = t.of[1]
  OBVIOUS
<1>11. /\ \A k \in 1..m : ChildTypes(t, m)[k] = u
       /\ \A k \in 1..l : ChildTypes(t, l)[k] = u
  BY <1>4, <1>6, <1>10, ChildFacts DEF Arrays
<1>12. NewItems(t, v) = [k \in 1..m |-> New[u][v[k]]]
  BY <1>2, <1>4, <1>11 DEF NewItems, ItemsBy
<1>13. NewItems(t, w) = [k \in 1..l |-> New[u][w[k]]]
  BY <1>7, <1>8, <1>11 DEF NewItems, ItemsBy
<1>14. PICK g : g = [k \in 1..n |-> New[u][vs[k]]]
  OBVIOUS
<1>15. \A x \in V : New[u][x] \in Bytes
  BY <1>1, <1>3, <1>10, NewDef
<1>16. g \in Seq(Bytes) /\ Len(g) = n
  <2>1. g \in [1..n -> Bytes]
    BY <1>3, <1>14, <1>15
  <2> QED
    BY <2>1
<1>17. NewItems(t, v) \in Seq(Bytes) /\ Len(NewItems(t, v)) = m
  <2>1. NewItems(t, v) \in [1..m -> Bytes]
    BY <1>2, <1>3, <1>12, <1>15
  <2> QED
    BY <1>4, <2>1
<1>18. PICK f : f = NewItems(t, v)
  OBVIOUS
<1>19. /\ f \o g = [k \in 1..l |-> (f \o g)[k]] /\ \A k \in 1..m : (f \o g)[k] = f[k]
       /\ \A k \in 1..n : (f \o g)[m + k] = g[k]
  <2>1. f \in Seq(Bytes) /\ Len(f) = m
    BY <1>17, <1>18
  <2>2. OneAfter(Bytes, f, g, f \o g)
    BY <1>16, <2>1, TwoTogether
  <2>3. Len(f) = m /\ Len(g) = n /\ l = m + n
    BY <1>6, <1>16, <2>1
  <2> QED
    BY <2>2, <2>3, Zenon DEF OneAfter
<1>20. ASSUME NEW k \in 1..l PROVE (f \o g)[k] = New[u][w[k]]
  <2>1. CASE k \in 1..m
    BY <1>7, <1>12, <1>18, <1>19, <2>1
  <2>2. CASE ~(k \in 1..m)
    <3>1. PICK j \in 1..n : k = m + j
      <4>1. k - m \in 1..n /\ k = m + (k - m)
        BY <1>4, <1>6, <2>2
      <4> QED
        BY <4>1
    <3>2. (f \o g)[k] = g[j] /\ w[k] = vs[j]
      BY <1>7, <1>19, <3>1
    <3> QED
      BY <1>14, <3>2
  <2> QED
    BY <2>1, <2>2
<1>21. f \o g = [k \in 1..l |-> New[u][w[k]]]
  BY <1>19, <1>20
<1> QED
  BY <1>5, <1>9, <1>10, <1>13, <1>14, <1>16, <1>18, <1>21

\* The last item of a dynamic array taken off.
LEMMA ShortenedValue ==
  ASSUME NEW t \in Types, t.kind = "dynamic", NEW v \in Values[t], Len(v) > 0
  PROVE  /\ Front(v) \in Values[t]
         /\ NewItems(t, v) # << >> /\ NewItems(t, Front(v)) = Front(NewItems(t, v))
<1>1. MadeOfItems(t) /\ MaxItems \in Nat /\ t.of[1] \in Types
  BY TypeFacts, AbiAssumption DEF Arrays
<1>2. PICK m \in 0..MaxItems : v \in [1..m -> Values[t.of[1]]]
  BY <1>1 DEF MadeOfItems
<1>3. PICK V : V = Values[t.of[1]]
  OBVIOUS
<1>4. v \in Seq(V) /\ Len(v) = m /\ m \in Nat
  BY <1>2, <1>3
<1>5. PICK l \in Nat : m = l + 1 /\ l = Len(v) - 1
  BY <1>4
<1>6. PICK w : w = Front(v)
  OBVIOUS
<1>7. w \in [1..l -> V] /\ \A k \in 1..l : w[k] = v[k]
  <2>1. w = SubSeq(v, 1, l)
    BY <1>5, <1>6 DEF Front
  <2>2. l <= Len(v)
    BY <1>4, <1>5
  <2>3. w = [k \in 1..l |-> v[k]]
    BY <1>4, <2>1, <2>2
  <2>4. ASSUME NEW k \in 1..l PROVE v[k] \in V
    BY <1>4, <2>2
  <2> QED
    BY <2>3, <2>4
<1>8. w \in Values[t] /\ w \in Seq(V) /\ Len(w) = l
  <2>1. l \in 0..MaxItems
    BY <1>1, <1>2, <1>5
  <2>2. w \in Values[t]
    BY <1>1, <1>3, <1>7, <2>1 DEF MadeOfItems
  <2> QED
    BY <1>7, <2>2
<1>9. PICK u : u = t.of[1]
  OBVIOUS
<1>10. /\ \A k \in 1..m : ChildTypes(t, m)[k] = u
       /\ \A k \in 1..l : ChildTypes(t, l)[k] = u
  BY <1>4, <1>9, ChildFacts DEF Arrays
<1>11. NewItems(t, v) = [k \in 1..m |-> New[u][v[k]]]
  BY <1>2, <1>4, <1>10 DEF NewItems, ItemsBy
<1>12. NewItems(t, w) = [k \in 1..l |-> New[u][w[k]]]
  BY <1>7, <1>8, <1>10 DEF NewItems, ItemsBy
<1>13. PICK f \in Seq(Bytes) : f = NewItems(t, v) /\ Len(f) = m
  <2>1. \A x \in V : New[u][x] \in Bytes
    BY <1>1, <1>3, <1>9, NewDef
  <2>2. NewItems(t, v) \in [1..m -> Bytes]
    BY <1>2, <1>3, <1>11, <2>1
  <2> QED
    BY <1>4, <2>2
<1>14. Front(f) = [k \in 1..l |-> f[k]]
  <2>1. Front(f) = SubSeq(f, 1, l)
    BY <1>5, <1>13 DEF Front
  <2> QED
    BY <1>5, <1>13, <2>1
<1>15. [k \in 1..l |-> f[k]] = [k \in 1..l |-> New[u][w[k]]]
  BY <1>5, <1>7, <1>11, <1>13
<1> QED
  BY <1>5, <1>6, <1>8, <1>12, <1>13, <1>14, <1>15

-----------------------------------------------------------------------------
(* What an operation stores.                                               *)

\* Items one of which raises are not put together.
LEMMA NothingIsPut ==
  ASSUME NEW t \in Types, NEW bs, Fits(t, bs), ~Without(bs)
  PROVE  Put(t, bs) = Poison
<1>1. Encoders(t, Reencode)
  BY ReencodeDef, TypeFacts DEF Encoders
<1> QED
  BY <1>1, PutByFacts DEF Put

\* What has an item that raises does not fit together.
LEMMA RaisingItem ==
  ASSUME NEW t \in Types, NEW bs \in Seq(Bytes), NEW i \in 1..Len(bs), Raises(bs[i])
  PROVE  Put(t, bs) = Poison
<1>1. ~Without(bs)
  BY DEF Without
<1>2. Fits(t, bs)
  BY <1>1 DEF Fits
<1> QED
  BY <1>1, <1>2, NothingIsPut

\* The items of what was made of a value are those it was made of, or none can be read.
LEMMA MadeItems ==
  ASSUME NEW t \in Types, t.kind \notin Leaves, NEW v \in Values[t], ~Raises(New[t][v])
  PROVE  /\ Items(t, New[t][v]) \in {NewItems(t, v), <<Poison>>}
         /\ NewItems(t, v) \in Seq(Seq(Byte)) /\ NewItems(t, v) \in Seq(Bytes)
         /\ Len(NewItems(t, v)) = Len(v) /\ Without(NewItems(t, v)) /\ ~Without(<<Poison>>)
         /\ New[t][v] \in Seq(Byte)
<1>1. Well(t, v, New[t][v])
  BY AllIsWell DEF MadeWell
<1>2. Found(t, v, New[t][v]) /\ New[t][v] \in Seq(Byte)
  BY <1>1 DEF Well
<1>3. Items(t, New[t][v]) \in {NewItems(t, v), <<Poison>>}
  BY <1>2 DEF Found
<1>4. NewItems(t, v) \in Seq(Seq(Byte))
  BY <1>2 DEF Found, Proper
<1>5. NewItems(t, v) \in Seq(Bytes) /\ Len(NewItems(t, v)) = Len(v)
  BY TypesInFacts
<1>6. Without(NewItems(t, v)) /\ ~Without(<<Poison>>)
  BY <1>4, <1>5, WithoutFacts
<1> QED
  BY <1>2, <1>3, <1>4, <1>5, <1>6

\* Putting an item in place of another makes the value that has it there.
LEMMA ItemIsSet ==
  ASSUME NEW t \in Types, t.kind \notin Leaves, NEW v \in Values[t], ~Raises(New[t][v]),
         NEW index \in Indexes(Len(v)), NEW i \in 1..Len(v), Position(Len(v), index) = i,
         NEW x \in Values[TypesIn(t, v)[i]], NEW item,
         Items(t, New[t][v]) = NewItems(t, v) => item \in {New[TypesIn(t, v)[i]][x], Poison}
  PROVE  SetItem(t, New[t][v], index, item) \in {New[t][[v EXCEPT ![i] = x]], Poison}
<1>1. PICK bs : bs = Items(t, New[t][v])
  OBVIOUS
<1>2. SetItem(t, New[t][v], index, item) = Replaced(t, bs, index, item)
  BY <1>1 DEF SetItem
<1>3. CASE bs = <<Poison>>
  BY <1>2, <1>3, MadeItems DEF Replaced
<1>4. CASE bs = NewItems(t, v)
  <2>1. bs \in Seq(Bytes) /\ Len(bs) = Len(v) /\ Without(bs)
    BY <1>4, MadeItems
  <2>2. i \in DOMAIN bs
    BY <2>1
  <2>3. Replaced(t, bs, index, item) = Put(t, [bs EXCEPT ![i] = item])
    BY <2>1, <2>2 DEF Replaced
  <2>4. CASE item = Poison
    <3>1. PICK cs : cs = [bs EXCEPT ![i] = item]
      OBVIOUS
    <3>2. cs \in Seq(Bytes) /\ Len(cs) = Len(bs) /\ cs[i] = Poison
      BY <2>1, <2>2, <2>4, <3>1, RaisesFacts
    <3>3. Put(t, cs) = Poison
      BY <2>1, <3>2, RaisingItem, RaisesFacts
    <3> QED
      BY <1>2, <2>3, <3>1, <3>3
  <2>5. CASE item = New[TypesIn(t, v)[i]][x]
    <3>1. PICK w : w = [v EXCEPT ![i] = x]
      OBVIOUS
    <3>2. w \in Values[t] /\ NewItems(t, w) = [bs EXCEPT ![i] = item]
      <4>1. /\ [v EXCEPT ![i] = x] \in Values[t]
            /\ NewItems(t, [v EXCEPT ![i] = x])
                 = [NewItems(t, v) EXCEPT ![i] = New[TypesIn(t, v)[i]][x]]
        BY ReplacedValue
      <4> QED
        BY <1>4, <2>5, <3>1, <4>1, Zenon
    <3>3. New[t][w] = Put(t, NewItems(t, w))
      BY <3>2, NewDef
    <3> QED
      BY <1>2, <2>3, <3>1, <3>2, <3>3
  <2> QED
    BY <1>1, <1>4, <2>4, <2>5
<1> QED
  BY <1>1, <1>3, <1>4, MadeItems

\* Adding items to a dynamic array makes the value that has them, too.
LEMMA ItemsAreAdded ==
  ASSUME NEW t \in Types, t.kind = "dynamic", NEW v \in Values[t], ~Raises(New[t][v]),
         NEW n \in Nat, Len(v) + n <= MaxItems, NEW vs \in [1..n -> Values[t.of[1]]]
  PROVE  Extended(t, New[t][v], [i \in 1..n |-> New[t.of[1]][vs[i]]])
           \in {New[t][v \o vs], Poison}
<1>1. t.kind \notin Leaves
  BY DEF Leaves
<1>2. PICK items : items = [i \in 1..n |-> New[t.of[1]][vs[i]]]
  OBVIOUS
<1>3. /\ v \o vs \in Values[t] /\ items \in Seq(Bytes)
      /\ NewItems(t, v \o vs) = NewItems(t, v) \o items
  BY <1>2, ExtendedValue
<1>4. PICK bs : bs = Items(t, New[t][v])
  OBVIOUS
<1>5. Extended(t, New[t][v], items) = Put(t, bs \o items)
  BY <1>4 DEF Extended
<1>6. CASE bs = <<Poison>>
  <2>1. <<Poison>> \in Seq(Bytes) /\ Len(<<Poison>>) = 1 /\ <<Poison>>[1] = Poison
    BY RaisesFacts
  <2>2. PICK cs : cs = bs \o items
    OBVIOUS
  <2>3. OneAfter(Bytes, bs, items, cs)
    BY <1>3, <1>6, <2>1, <2>2, TwoTogether
  <2>4. cs \in Seq(Bytes) /\ 1 \in 1..Len(cs) /\ cs[1] = Poison
    <3>1. Len(items) \in Nat
      BY <1>3
    <3> QED
      BY <1>6, <2>1, <2>3, <3>1 DEF OneAfter
  <2>5. Put(t, cs) = Poison
    BY <2>4, RaisingItem, RaisesFacts
  <2> QED
    BY <1>2, <1>5, <2>2, <2>5
<1>7. CASE bs = NewItems(t, v)
  <2>1. New[t][v \o vs] = Put(t, NewItems(t, v \o vs))
    BY <1>1, <1>3, NewDef
  <2> QED
    BY <1>2, <1>3, <1>5, <1>7, <2>1
<1> QED
  BY <1>1, <1>4, <1>6, <1>7, MadeItems

\* Taking the last item off makes the value without it.
LEMMA ItemIsPopped ==
  ASSUME NEW t \in Types, t.kind = "dynamic", NEW v \in Values[t], ~Raises(New[t][v]), Len(v) > 0
  PROVE  Popped(t, New[t][v]) \in {New[t][Front(v)], Poison}
<1>1. t.kind \notin Leaves
  BY DEF Leaves
<1>2. PICK bs : bs = Items(t, New[t][v])
  OBVIOUS
<1>3. Popped(t, New[t][v]) = Shortened(t, bs)
  BY <1>2 DEF Popped
<1>4. CASE bs = <<Poison>>
  BY <1>1, <1>3, <1>4, MadeItems DEF Shortened
<1>5. CASE bs = NewItems(t, v)
  <2>1. Shortened(t, bs) = Put(t, Front(bs))
    BY <1>1, <1>5, MadeItems, ShortenedValue DEF Shortened
  <2>2. New[t][Front(v)] = Put(t, NewItems(t, Front(v)))
    BY <1>1, ShortenedValue, NewDef
  <2> QED
    BY <1>3, <1>5, <2>1, <2>2, ShortenedValue
<1> QED
  BY <1>1, <1>2, <1>4, <1>5, MadeItems

-----------------------------------------------------------------------------
(* The inductive invariant: the bytes are those the constructor gives to   *)
(* what was put in. They did not raise, unless the object is a struct, and *)
(* then each of its fields has the bytes of its value.                     *)

AbiInv ==
  /\ object = [type |-> Type, bytes |-> object.bytes, fields |-> object.fields]
  /\ Type \in Types /\ Type.kind \notin Leaves
  /\ contents \in Values[Type]
  /\ object.bytes = New[Type][contents]
  /\ Type.kind # "struct" => ~Raises(object.bytes)
  /\ Type.kind = "struct" => object.fields = NewItems(Type, contents) /\ Without(object.fields)

\* Storing what was made of a value, or nothing, keeps the invariant.
LEMMA StoreKeepsInv ==
  ASSUME AbiInv, Type.kind # "struct", NEW v \in Values[Type], NEW b \in {New[Type][v], Poison},
         Store(b, v)
  PROVE  AbiInv'
<1>1. ~Raises(b) /\ object' = [object EXCEPT !.bytes = b] /\ contents' = v
  BY DEF Store
<1>2. b = New[Type][v]
  BY <1>1, RaisesFacts
<1>3. object' = [type |-> Type, bytes |-> b, fields |-> object.fields]
  <2>1. object = [type |-> Type, bytes |-> object.bytes, fields |-> object.fields]
    BY DEF AbiInv
  <2> QED
    BY <1>1, <2>1
<1>4. Type' = Type /\ object'.bytes = b /\ object'.fields = object.fields
  BY <1>3 DEF Type
<1>5. Type \in Types /\ Type.kind \notin Leaves
  BY DEF AbiInv
<1> QED
  BY <1>1, <1>2, <1>3, <1>4, <1>5 DEF AbiInv

\* Storing a field that was made of a value, or nothing, keeps the invariant, whether or not
\* the fields can be encoded then.
LEMMA StoreFieldKeepsInv ==
  ASSUME AbiInv, Type.kind = "struct", NEW i \in 1..Len(contents),
         NEW x \in Values[TypesIn(Type, contents)[i]],
         NEW b \in {New[TypesIn(Type, contents)[i]][x], Poison},
         StoreField(i, b, [contents EXCEPT ![i] = x])
  PROVE  AbiInv'
<1>1. PICK t, v : /\ t \in Types /\ v \in Values[t] /\ t = Type /\ v = contents
                  /\ t.kind \notin Leaves /\ t.kind = "struct"
                  /\ object.fields = NewItems(t, v) /\ Without(NewItems(t, v))
  BY DEF AbiInv
<1>2. ~Raises(b) /\ contents' = [v EXCEPT ![i] = x]
  BY <1>1 DEF StoreField
<1>3. b = New[TypesIn(t, v)[i]][x]
  BY <1>1, <1>2, RaisesFacts
<1>4. PICK w \in Values[t] :
        w = [v EXCEPT ![i] = x] /\ NewItems(t, w) = [NewItems(t, v) EXCEPT ![i] = b]
  <2>1. i \in 1..Len(v) /\ x \in Values[TypesIn(t, v)[i]]
    BY <1>1
  <2>2. /\ [v EXCEPT ![i] = x] \in Values[t]
        /\ NewItems(t, [v EXCEPT ![i] = x])
             = [NewItems(t, v) EXCEPT ![i] = New[TypesIn(t, v)[i]][x]]
    BY <1>1, <2>1, ReplacedValue
  <2> QED
    BY <1>3, <2>2
<1>5. object' = [type |-> t, bytes |-> Put(t, NewItems(t, w)), fields |-> NewItems(t, w)]
  <2>1. PICK fields : fields = [object.fields EXCEPT ![i] = b]
    OBVIOUS
  <2>2. fields = NewItems(t, w)
    BY <1>1, <1>4, <2>1
  <2>3. object' = [type |-> t, bytes |-> Put(t, fields), fields |-> fields]
    BY <1>1, <2>1 DEF StoreField, AskedBytes
  <2> QED
    BY <2>2, <2>3
<1>6. Put(t, NewItems(t, w)) = New[t][w]
  BY <1>1, NewDef
<1>7. Without(NewItems(t, w))
  <2>1. PICK bs \in Seq(Bytes) : bs = NewItems(t, v) /\ Without(bs)
    BY <1>1, TypesInFacts
  <2>2. \A k \in DOMAIN bs : ~Raises(bs[k])
    BY <2>1 DEF Without
  <2>3. \A k \in DOMAIN bs : ~Raises([bs EXCEPT ![i] = b][k])
    BY <1>2, <2>2
  <2> QED
    BY <1>4, <2>1, <2>3 DEF Without
<1>8. Type' = t /\ object'.bytes = New[t][w] /\ object'.fields = NewItems(t, w)
  BY <1>5, <1>6 DEF Type
<1> QED
  BY <1>1, <1>2, <1>4, <1>5, <1>7, <1>8 DEF AbiInv

\* A place of a list by an index from either end.
LEMMA PositionFacts ==
  ASSUME NEW n \in Nat, NEW index \in Indexes(n)
  PROVE  Position(n, index) \in 1..n
BY DEF Indexes, Position

\* The fields of a new struct are those its bytes are made of.
LEMMA FieldsAreItems ==
  ASSUME NEW t \in Types, t.kind = "struct", NEW v \in Values[t]
  PROVE  FieldsOf(t, v) = NewItems(t, v)
<1>1. t.kind \notin Leaves /\ t.kind \notin Arrays
  BY DEF Leaves, Arrays
<1>2. ChildTypes(t, Len(v)) = t.of
  BY <1>1 DEF ChildTypes
<1>3. DOMAIN v = DOMAIN t.of
  BY <1>1, <1>2, ValueFacts
<1> QED
  BY <1>2, <1>3 DEF FieldsOf, NewItems, ItemsBy

\* The first state has the invariant.
LEMMA InitHasInv ==
  ASSUME AbiInit
  PROVE  AbiInv
<1>1. PICK t \in {t \in Types : t.kind \notin Leaves} : \E v \in Values[t] :
        /\ ~Raises(New[t][v])
        /\ object = [type |-> t, bytes |-> New[t][v], fields |-> FieldsOf(t, v)]
        /\ contents = v
  BY DEF AbiInit
<1>2. PICK v \in Values[t] :
        /\ ~Raises(New[t][v])
        /\ object = [type |-> t, bytes |-> New[t][v], fields |-> FieldsOf(t, v)]
        /\ contents = v
  BY <1>1
<1>3. Type = t /\ object.bytes = New[t][v] /\ object.fields = FieldsOf(t, v)
  BY <1>2 DEF Type
<1>4. t.kind = "struct" => object.fields = NewItems(t, v)
  BY <1>1, <1>3, FieldsAreItems
<1>5. Without(NewItems(t, v))
  BY <1>1, <1>2, MadeItems
<1> QED
  BY <1>1, <1>2, <1>3, <1>4, <1>5 DEF AbiInv

\* Assigning an item of an array keeps the invariant.
LEMMA AssignKeepsInv ==
  ASSUME AbiInv, Assign
  PROVE  AbiInv'
<1>1. PICK t, v :
        /\ t \in Types /\ v \in Values[t] /\ t = Type /\ v = contents
        /\ t.kind \notin Leaves /\ t.kind # "struct" /\ object.bytes = New[t][v]
        /\ ~Raises(New[t][v])
  BY DEF AbiInv, Assign, Arrays
<1>2. PICK index \in Indexes(Len(v)) : \E x \in Values[ItemType(Position(Len(v), index))] :
        Store(SetItem(Type, object.bytes, index, New[ItemType(Position(Len(v), index))][x]),
              [contents EXCEPT ![Position(Len(v), index)] = x])
  BY <1>1 DEF Assign
<1>3. PICK i \in 1..Len(v) : i = Position(Len(v), index)
  BY <1>1, ValueFacts, PositionFacts
<1>4. ItemType(i) = TypesIn(t, v)[i]
  BY <1>1 DEF ItemType, TypesIn
<1>5. PICK x \in Values[TypesIn(t, v)[i]] :
        Store(SetItem(t, New[t][v], index, New[TypesIn(t, v)[i]][x]), [v EXCEPT ![i] = x])
  BY <1>1, <1>2, <1>3, <1>4
<1>6. [v EXCEPT ![i] = x] \in Values[t]
  BY <1>1, ReplacedValue
<1>7. SetItem(t, New[t][v], index, New[TypesIn(t, v)[i]][x])
        \in {New[t][[v EXCEPT ![i] = x]], Poison}
  BY <1>1, <1>3, ItemIsSet
<1> QED
  BY <1>1, <1>5, <1>6, <1>7, StoreKeepsInv

\* Assigning a field of a struct keeps the invariant.
LEMMA AssignFieldKeepsInv ==
  ASSUME AbiInv, AssignField
  PROVE  AbiInv'
<1>1. PICK t, v : /\ t \in Types /\ v \in Values[t] /\ t = Type /\ v = contents
                  /\ t.kind \notin Leaves /\ t.kind = "struct"
  BY DEF AbiInv, AssignField
<1>2. DOMAIN v = 1..Len(v)
  BY <1>1, ValueFacts
<1>3. \A k \in 1..Len(v) : ItemType(k) = TypesIn(t, v)[k]
  BY <1>1 DEF ItemType, TypesIn
<1>4. PICK i \in 1..Len(v) : \E x \in Values[ItemType(i)] :
        StoreField(i, New[ItemType(i)][x], [contents EXCEPT ![i] = x])
  BY <1>1, <1>2 DEF AssignField
<1>5. PICK x \in Values[TypesIn(t, v)[i]] :
        StoreField(i, New[TypesIn(t, v)[i]][x], [contents EXCEPT ![i] = x])
  BY <1>3, <1>4
<1> QED
  BY <1>1, <1>5, StoreFieldKeepsInv

\* Adding items keeps the invariant.
LEMMA ExtendKeepsInv ==
  ASSUME AbiInv, Extend
  PROVE  AbiInv'
<1>1. PICK t, v :
        /\ t \in Types /\ v \in Values[t] /\ t = Type /\ v = contents
        /\ t.kind \notin Leaves /\ t.kind # "struct" /\ object.bytes = New[t][v]
        /\ ~Raises(New[t][v])
  BY DEF AbiInv, Extend
<1>2. t.kind = "dynamic"
  BY <1>1 DEF Extend
<1>3. PICK n \in 1..(MaxItems - Len(v)) : \E vs \in [1..n -> Values[t.of[1]]] :
        Store(Extended(t, New[t][v], [i \in 1..n |-> New[t.of[1]][vs[i]]]), v \o vs)
  BY <1>1 DEF Extend
<1>4. PICK vs \in [1..n -> Values[t.of[1]]] :
        Store(Extended(t, New[t][v], [i \in 1..n |-> New[t.of[1]][vs[i]]]), v \o vs)
  BY <1>3
<1>5. n \in Nat /\ Len(v) + n <= MaxItems
  BY <1>1, <1>3, ValueFacts, AbiAssumption
<1>6. v \o vs \in Values[t]
  BY <1>1, <1>2, <1>5, ExtendedValue
<1>7. Extended(t, New[t][v], [i \in 1..n |-> New[t.of[1]][vs[i]]]) \in {New[t][v \o vs], Poison}
  BY <1>1, <1>2, <1>5, ItemsAreAdded
<1> QED
  BY <1>1, <1>4, <1>6, <1>7, StoreKeepsInv

\* Taking the last item off keeps the invariant.
LEMMA PopKeepsInv ==
  ASSUME AbiInv, Pop
  PROVE  AbiInv'
<1>1. PICK t, v :
        /\ t \in Types /\ v \in Values[t] /\ t = Type /\ v = contents
        /\ t.kind \notin Leaves /\ t.kind # "struct" /\ object.bytes = New[t][v]
        /\ ~Raises(New[t][v])
  BY DEF AbiInv, Pop
<1>2. t.kind = "dynamic" /\ Len(v) > 0 /\ Store(Popped(t, New[t][v]), Front(v))
  BY <1>1 DEF Pop
<1>3. Front(v) \in Values[t] /\ Popped(t, New[t][v]) \in {New[t][Front(v)], Poison}
  BY <1>1, <1>2, ShortenedValue, ItemIsPopped
<1> QED
  BY <1>1, <1>2, <1>3, StoreKeepsInv

\* An item that is itself an object, if the items can be read: it was made of the value
\* that is in its place.
LEMMA InnerIsMade ==
  ASSUME NEW t \in Types, t.kind \notin Leaves, NEW v \in Values[t], ~Raises(New[t][v]),
         NEW i \in 1..Len(v), Items(t, New[t][v]) = NewItems(t, v)
  PROVE  /\ Items(t, New[t][v])[i] = New[TypesIn(t, v)[i]][v[i]]
         /\ ~Raises(New[TypesIn(t, v)[i]][v[i]])
<1>1. NewItems(t, v)[i] = New[TypesIn(t, v)[i]][v[i]]
  BY TypesInFacts
<1>2. NewItems(t, v) \in Seq(Seq(Byte)) /\ Len(NewItems(t, v)) = Len(v)
  BY MadeItems
<1>3. NewItems(t, v)[i] \in Seq(Byte)
  BY <1>2
<1> QED
  BY <1>1, <1>3, RaisesFacts

\* The types of the items of a value, and the values of its items.
LEMMA InnerFacts ==
  ASSUME NEW t \in Types, t.kind \notin Leaves, NEW v \in Values[t], NEW i \in 1..Len(v)
  PROVE  TypesIn(t, v)[i] \in Types /\ v[i] \in Values[TypesIn(t, v)[i]]
<1>1. TypesIn(t, v) \in Seq(Types) /\ Len(TypesIn(t, v)) = Len(v)
  BY TypesInFacts
<1>2. v[i] \in Values[TypesIn(t, v)[i]]
  BY TypesInFacts
<1> QED
  BY <1>1, <1>2

\* The index of a place.
LEMMA IndexOfPlace ==
  ASSUME NEW n \in Nat, NEW i \in 1..n
  PROVE  i - 1 \in Indexes(n) /\ Position(n, i - 1) = i
BY DEF Indexes, Position

\* Putting back an item that is an object of its own, and was made of its value, keeps the
\* invariant when it is made of another value now.
LEMMA StoreItemKeepsInv ==
  ASSUME AbiInv, NEW i \in 1..Len(contents), NEW it, it = TypesIn(Type, contents)[i],
         NEW y \in Values[it], NEW item, StoreItem(i, item, [contents EXCEPT ![i] = y]),
         Inner(i) = New[it][contents[i]] /\ ~Raises(New[it][contents[i]])
           => item \in {New[it][y], Poison}
  PROVE  AbiInv'
<1>1. PICK t, v : /\ t \in Types /\ v \in Values[t] /\ t = Type /\ v = contents
                  /\ t.kind \notin Leaves /\ object.bytes = New[t][v]
  BY DEF AbiInv
<1>2. Len(v) \in Nat
  BY <1>1, ValueFacts
<1>3. CASE t.kind = "struct"
  <2>1. StoreField(i, item, [v EXCEPT ![i] = y])
    BY <1>1, <1>3 DEF StoreItem, Arrays
  <2>2. PICK bs \in Seq(Bytes) : bs = NewItems(t, v) /\ bs = object.fields /\ Len(bs) = Len(v)
                                /\ Without(bs) /\ bs[i] = New[it][v[i]]
    BY <1>1, <1>3, TypesInFacts DEF AbiInv
  <2>3. Inner(i) = New[it][v[i]] /\ ~Raises(New[it][v[i]])
    BY <1>1, <1>3, <2>2 DEF Inner, Without
  <2>4. item \in {New[it][y], Poison}
    BY <1>1, <2>3
  <2> QED
    BY <1>1, <1>3, <2>1, <2>4, StoreFieldKeepsInv
<1>4. CASE t.kind # "struct"
  <2>1. ~Raises(New[t][v])
    BY <1>1, <1>4 DEF AbiInv
  <2>2. Store(SetItem(t, New[t][v], i - 1, item), [v EXCEPT ![i] = y])
    BY <1>1, <1>4 DEF StoreItem
  <2>3. Inner(i) = Items(t, New[t][v])[i]
    BY <1>1, <1>4 DEF Inner
  <2>4. ASSUME Items(t, New[t][v]) = NewItems(t, v) PROVE item \in {New[it][y], Poison}
    <3>1. Inner(i) = New[it][v[i]] /\ ~Raises(New[it][v[i]])
      BY <1>1, <2>1, <2>3, <2>4, InnerIsMade
    <3> QED
      BY <1>1, <3>1
  <2>5. i - 1 \in Indexes(Len(v)) /\ Position(Len(v), i - 1) = i
    BY <1>1, <1>2, IndexOfPlace
  <2>6. SetItem(t, New[t][v], i - 1, item) \in {New[t][[v EXCEPT ![i] = y]], Poison}
    BY <1>1, <2>1, <2>4, <2>5, ItemIsSet
  <2>7. [v EXCEPT ![i] = y] \in Values[t]
    BY <1>1, ReplacedValue
  <2> QED
    BY <1>1, <1>4, <2>2, <2>6, <2>7, StoreKeepsInv
<1> QED
  BY <1>3, <1>4

\* Assigning an item of an item keeps the invariant.
LEMMA AssignInsideKeepsInv ==
  ASSUME AbiInv, AssignInside
  PROVE  AbiInv'
<1>1. PICK t, v : t \in Types /\ v \in Values[t] /\ t = Type /\ v = contents
                  /\ t.kind \notin Leaves
  BY DEF AbiInv
<1>2. Len(v) \in Nat /\ DOMAIN v = 1..Len(v)
  BY <1>1, ValueFacts
<1>3. \A k \in 1..Len(v) : ItemType(k) = TypesIn(t, v)[k]
  BY <1>1 DEF ItemType, TypesIn
<1>4. PICK i \in 1..Len(v) :
        /\ ItemType(i).kind \in Arrays
        /\ \E j \in Indexes(Len(v[i])) : \E x \in Values[ItemType(i).of[1]] :
             StoreItem(i, SetItem(ItemType(i), Inner(i), j, New[ItemType(i).of[1]][x]),
                       [contents EXCEPT ![i] =
                          [contents[i] EXCEPT ![Position(Len(v[i]), j)] = x]])
  BY <1>1, <1>2 DEF AssignInside
<1>5. PICK it : it = TypesIn(t, v)[i]
  OBVIOUS
<1>6. it = ItemType(i) /\ it.kind \in Arrays /\ it.kind \notin Leaves
  BY <1>3, <1>4, <1>5 DEF Arrays, Leaves
<1>7. it \in Types /\ v[i] \in Values[it]
  BY <1>1, <1>5, InnerFacts
<1>8. PICK w \in Values[it] : w = v[i]
  BY <1>7
<1>9. PICK j \in Indexes(Len(w)) : \E x \in Values[it.of[1]] :
        StoreItem(i, SetItem(it, Inner(i), j, New[it.of[1]][x]),
                  [v EXCEPT ![i] = [w EXCEPT ![Position(Len(w), j)] = x]])
  BY <1>1, <1>4, <1>6, <1>8
<1>10. PICK x \in Values[it.of[1]] :
        StoreItem(i, SetItem(it, Inner(i), j, New[it.of[1]][x]),
                  [v EXCEPT ![i] = [w EXCEPT ![Position(Len(w), j)] = x]])
  BY <1>9
<1>11. PICK k \in 1..Len(w) : k = Position(Len(w), j)
  BY <1>6, <1>7, <1>8, ValueFacts, PositionFacts
<1>12. TypesIn(it, w)[k] = it.of[1]
  <2>1. Len(w) \in Nat
    BY <1>6, <1>7, <1>8, ValueFacts
  <2> QED
    BY <1>6, <1>7, <2>1, ChildFacts DEF TypesIn
<1>13. PICK y \in Values[it] : y = [w EXCEPT ![k] = x]
  BY <1>6, <1>7, <1>12, ReplacedValue
<1>14. PICK item : item = SetItem(it, Inner(i), j, New[it.of[1]][x])
  OBVIOUS
<1>15. ASSUME Inner(i) = New[it][w], ~Raises(New[it][w]) PROVE item \in {New[it][y], Poison}
  <2>1. New[it.of[1]][x] \in {New[TypesIn(it, w)[k]][x], Poison}
    BY <1>12
  <2>2. SetItem(it, New[it][w], j, New[it.of[1]][x]) \in {New[it][[w EXCEPT ![k] = x]], Poison}
    BY <1>6, <1>7, <1>11, <1>12, <1>15, <2>1, ItemIsSet
  <2> QED
    BY <1>13, <1>14, <1>15, <2>2
<1>16. StoreItem(i, item, [contents EXCEPT ![i] = y])
  BY <1>1, <1>10, <1>11, <1>13, <1>14
<1> QED
  BY <1>1, <1>5, <1>8, <1>15, <1>16, StoreItemKeepsInv

\* Adding an item to an item keeps the invariant.
LEMMA AppendInsideKeepsInv ==
  ASSUME AbiInv, AppendInside
  PROVE  AbiInv'
<1>1. PICK t, v : t \in Types /\ v \in Values[t] /\ t = Type /\ v = contents
                  /\ t.kind \notin Leaves
  BY DEF AbiInv
<1>2. Len(v) \in Nat /\ DOMAIN v = 1..Len(v)
  BY <1>1, ValueFacts
<1>3. \A k \in 1..Len(v) : ItemType(k) = TypesIn(t, v)[k]
  BY <1>1 DEF ItemType, TypesIn
<1>4. PICK i \in 1..Len(v) :
        /\ ItemType(i).kind = "dynamic" /\ Len(v[i]) < MaxItems
        /\ \E x \in Values[ItemType(i).of[1]] :
             StoreItem(i, Extended(ItemType(i), Inner(i), <<New[ItemType(i).of[1]][x]>>),
                       [contents EXCEPT ![i] = Append(contents[i], x)])
  BY <1>1, <1>2 DEF AppendInside
<1>5. PICK it : it = TypesIn(t, v)[i]
  OBVIOUS
<1>6. it = ItemType(i) /\ it.kind = "dynamic" /\ it.kind \notin Leaves
  BY <1>3, <1>4, <1>5 DEF Leaves
<1>7. it \in Types /\ v[i] \in Values[it]
  BY <1>1, <1>5, InnerFacts
<1>8. PICK w \in Values[it] : w = v[i]
  BY <1>7
<1>9. PICK x \in Values[it.of[1]] :
        StoreItem(i, Extended(it, Inner(i), <<New[it.of[1]][x]>>),
                  [v EXCEPT ![i] = Append(w, x)])
  BY <1>1, <1>4, <1>6, <1>8
<1>10. PICK n \in Nat : n = 1
  OBVIOUS
<1>11. Len(w) + n <= MaxItems
  BY <1>4, <1>6, <1>7, <1>8, <1>10, ValueFacts, AbiAssumption
<1>12. PICK vs \in [1..n -> Values[it.of[1]]] : vs = <<x>>
  <2>1. <<x>> \in [1..1 -> Values[it.of[1]]]
    <3>1. <<x>> = [k \in 1..1 |-> x]
      OBVIOUS
    <3> QED
      BY <3>1
  <2> QED
    BY <1>10, <2>1
<1>13. [k \in 1..n |-> New[it.of[1]][vs[k]]] = <<New[it.of[1]][x]>>
  BY <1>10, <1>12
<1>14. PICK y \in Values[it] : y = w \o vs
  BY <1>6, <1>7, <1>11, ExtendedValue
<1>15. Append(w, x) = y
  <2>1. w \in Seq(Values[it.of[1]])
    <3>1. MadeOfItems(it) /\ MaxItems \in Nat
      BY <1>7, TypeFacts, AbiAssumption
    <3>2. PICK m \in 0..MaxItems : w \in [1..m -> Values[it.of[1]]]
      BY <1>6, <1>8, <3>1 DEF MadeOfItems
    <3> QED
      BY <3>2
  <2> QED
    BY <1>12, <1>14, <2>1
<1>16. PICK item : item = Extended(it, Inner(i), <<New[it.of[1]][x]>>)
  OBVIOUS
<1>17. ASSUME Inner(i) = New[it][w], ~Raises(New[it][w]) PROVE item \in {New[it][y], Poison}
  <2>1. Extended(it, New[it][w], [k \in 1..n |-> New[it.of[1]][vs[k]]])
          \in {New[it][w \o vs], Poison}
    BY <1>6, <1>7, <1>11, <1>17, ItemsAreAdded
  <2> QED
    BY <1>13, <1>14, <1>16, <1>17, <2>1
<1>18. StoreItem(i, item, [contents EXCEPT ![i] = y])
  BY <1>1, <1>9, <1>15, <1>16
<1> QED
  BY <1>1, <1>5, <1>8, <1>17, <1>18, StoreItemKeepsInv

\* Every step keeps the invariant.
LEMMA NextKeepsInv ==
  ASSUME AbiInv, [AbiNext]_abiVars
  PROVE  AbiInv'
<1>1. CASE MakeTuple
  <2>1. PICK v \in Values[Type] : Store(New[Type][v], v)
    BY <1>1 DEF MakeTuple
  <2>2. Type.kind # "struct"
    BY <1>1 DEF MakeTuple
  <2> QED
    BY <2>1, <2>2, StoreKeepsInv
<1>2. CASE UNCHANGED abiVars
  BY <1>2 DEF abiVars, AbiInv, Type
<1> QED
  BY <1>1, <1>2, AssignKeepsInv, AssignFieldKeepsInv, ExtendKeepsInv, PopKeepsInv,
     AssignInsideKeepsInv, AppendInsideKeepsInv DEF AbiNext

\* The invariant holds in every state.
LEMMA AbiInvariant == AbiSpec => []AbiInv
<1>1. AbiInit => AbiInv
  BY InitHasInv
<1>2. AbiInv /\ [AbiNext]_abiVars => AbiInv'
  BY NextKeepsInv
<1> QED
  BY <1>1, <1>2, PTL DEF AbiSpec

-----------------------------------------------------------------------------
(* The bytes in which a value is found.                                    *)

\* The items read from b are those of v, when g says so of the types of the items.
FoundBy(g, t, v, b) ==
  /\ Len(Items(t, b)) = Len(v)
  /\ \A i \in DOMAIN v : Items(t, b)[i] \in g[ChildTypes(t, Len(v))[i]][v[i]]

\* Two functions that agree on the types of the items agree on those of a value.
LEMMA SameOnItems ==
  ASSUME NEW t \in Types, t.kind \notin Leaves, NEW v \in Values[t], NEW g, NEW h,
         \A j \in DOMAIN t.of : g[t.of[j]] = h[t.of[j]]
  PROVE  \A i \in 1..Len(v) : g[ChildTypes(t, Len(v))[i]] = h[ChildTypes(t, Len(v))[i]]
<1>1. Len(v) \in Nat /\ DOMAIN v = 1..Len(v)
  BY ValueFacts
<1>2. PICK ts \in Seq(Types) : ts = ChildTypes(t, Len(v)) /\ Len(ts) = Len(v)
  BY ValueFacts
<1>3. ASSUME NEW i \in 1..Len(v) PROVE g[ts[i]] = h[ts[i]]
  <2>1. i \in DOMAIN ts
    BY <1>2
  <2>2. PICK j \in DOMAIN t.of : ts[i] = t.of[j]
    BY <1>1, <1>2, <2>1, ChildFacts
  <2> QED
    BY <2>2
<1> QED
  BY <1>2, <1>3

\* A value is found in bytes when a leaf is read as it, or each of its items is found.
LEMMA ReadAsDef ==
  \A t \in Types : \A v \in Values[t] : \A b :
    b \in ReadAs[t][v] <=> /\ b \in Seq(Byte)
                           /\ IF t.kind \in Leaves THEN ReadsLeaf(t, v, b)
                              ELSE FoundBy(ReadAs, t, v, b)
<1> DEFINE Body(g, t) == [v \in Values[t] |-> {b \in Seq(Byte) :
                            IF t.kind \in Leaves THEN ReadsLeaf(t, v, b) ELSE FoundBy(g, t, v, b)}]
           Is(f) == f = [t \in Types |-> Body(f, t)]
           T == [t \in Types |-> [Values[t] -> SUBSET Seq(Byte)]]
           G == [t \in Types |-> [g \in Into(Types, T) |-> Body(g, t)]]
<1>1. \A t \in Types : \A g \in Into(Types, T) : G[t][g] = Body(g, t)
  OBVIOUS
<1>2. \A t \in Types : T[t] = [Values[t] -> SUBSET Seq(Byte)]
  OBVIOUS
<1> HIDE DEF T, G
<1>3. ASSUME NEW t \in Types, NEW g PROVE Body(g, t) \in [Values[t] -> SUBSET Seq(Byte)]
  OBVIOUS
<1>4. ASSUME NEW t \in Types, NEW g, NEW h, \A j \in DOMAIN t.of : g[t.of[j]] = h[t.of[j]]
      PROVE  Body(g, t) = Body(h, t)
  <2>1. ASSUME NEW v \in Values[t], NEW b, t.kind \notin Leaves
        PROVE  FoundBy(g, t, v, b) <=> FoundBy(h, t, v, b)
    <3>1. DOMAIN v = 1..Len(v)
      BY <2>1, ValueFacts
    <3>2. \A i \in 1..Len(v) : g[ChildTypes(t, Len(v))[i]] = h[ChildTypes(t, Len(v))[i]]
      BY <1>4, <2>1, SameOnItems
    <3> QED
      BY <3>1, <3>2 DEF FoundBy
  <2> QED
    BY <2>1
<1>5. PICK f \in Into(Types, T) : \A t \in Types : f[t] = G[t][f]
  <2> HIDE DEF Body
  <2>1. \A t \in Types : T[t] # {}
    <3> TAKE t \in Types
    <3>1. [v \in Values[t] |-> {}] \in [Values[t] -> SUBSET Seq(Byte)]
      OBVIOUS
    <3> QED
      BY <1>2, <3>1
  <2>2. \A t \in Types : \A g \in Into(Types, T) : G[t][g] \in T[t]
    BY <1>1, <1>2, <1>3
  <2>3. \A t \in Types : \A g, h \in Into(Types, T) :
          (\A i \in DOMAIN t.of : g[t.of[i]] = h[t.of[i]]) => G[t][g] = G[t][h]
    BY <1>1, <1>4
  <2>4. ByItems(T, G)
    BY <2>1, <2>2, <2>3 DEF ByItems
  <2> QED
    BY <2>4, TypeRecursion
<1>6. Is(f)
  <2> HIDE DEF Body
  <2>1. f = [t \in Types |-> f[t]]
    BY IntoFacts
  <2> QED
    BY <1>1, <1>5, <2>1
<1>7. Is(CHOOSE u : Is(u))
  <2> HIDE DEF Is
  <2> QED
    BY <1>6
<1>8. Is(ReadAs)
  BY <1>7 DEF ReadAs, FoundBy
<1>9. \A t \in Types : ReadAs[t] = Body(ReadAs, t)
  <2> HIDE DEF Body
  <2> QED
    BY <1>8
<1>10. ASSUME NEW t \in Types, NEW v \in Values[t]
       PROVE  ReadAs[t][v] = {b \in Seq(Byte) : IF t.kind \in Leaves THEN ReadsLeaf(t, v, b)
                                               ELSE FoundBy(ReadAs, t, v, b)}
  <2>1. Body(ReadAs, t)[v] = {b \in Seq(Byte) : IF t.kind \in Leaves THEN ReadsLeaf(t, v, b)
                                               ELSE FoundBy(ReadAs, t, v, b)}
    OBVIOUS
  <2> HIDE DEF Body
  <2> QED
    BY <1>9, <2>1
<1> QED
  BY <1>10

\* Items of no size end a list of any length of the same type, or none.
LEMMA ReadableItems ==
  ASSUME NEW t \in Types, t.kind \notin Leaves, NEW v \in Values[t], Readable[t]
  PROVE  /\ ~EndsEmpty(TypesIn(t, v))
         /\ \A i \in 1..Len(v) : Readable[TypesIn(t, v)[i]]
<1>1. PICK n \in Nat : n = Len(v)
  BY ValueFacts
<1>2. PICK ts \in Seq(Types) : ts = TypesIn(t, v) /\ Len(ts) = n
  BY <1>1, TypesInFacts
<1>3. \A j \in DOMAIN t.of : Readable[t.of[j]]
  BY ReadableDef
<1>4. ~EndsEmpty(ChildTypes(t, IF t.kind = "dynamic" THEN 2 ELSE t.size))
  BY ReadableDef
<1>5. ~EndsEmpty(ts)
  <2>1. CASE t.kind = "dynamic"
    <3>1. SUFFICES ASSUME EndsEmpty(ts) PROVE FALSE
      OBVIOUS
    <3>2. n > 1 /\ StaticLength[Last(ts)] = 0 /\ ~IsDynamic[Last(ts)] /\ Last(ts) = ts[n]
      BY <1>2, <3>1 DEF EndsEmpty, Last
    <3>3. ts[n] = t.of[1]
      BY <1>1, <1>2, <2>1, <3>2, ChildFacts DEF TypesIn, Arrays
    <3>4. PICK us : us = ChildTypes(t, 2)
      OBVIOUS
    <3>5. us \in Seq(Types) /\ Len(us) = 2 /\ us[2] = t.of[1]
      <4>1. PICK m \in Nat : m = 2
        OBVIOUS
      <4>2. us \in Seq(Types) /\ Len(us) = m /\ \A k \in 1..m : us[k] = t.of[1]
        BY <2>1, <3>4, <4>1, ChildFacts DEF Arrays
      <4> QED
        BY <4>1, <4>2
    <3>6. Last(us) = t.of[1]
      BY <3>5 DEF Last
    <3>7. EndsEmpty(us)
      BY <3>2, <3>3, <3>5, <3>6 DEF EndsEmpty
    <3> QED
      BY <1>4, <2>1, <3>4, <3>7
  <2>2. CASE t.kind # "dynamic"
    BY <1>1, <1>2, <1>4, <2>2, ValueFacts DEF TypesIn
  <2> QED
    BY <2>1, <2>2
<1>6. ASSUME NEW i \in 1..n PROVE Readable[ts[i]]
  <2>1. PICK j \in DOMAIN t.of : ts[i] = t.of[j]
    BY <1>1, <1>2, TypesInFacts
  <2> QED
    BY <1>3, <2>1
<1> QED
  BY <1>1, <1>2, <1>5, <1>6

\* All that was made of values of a type is found.
FoundAll(t) ==
  Readable[t] => \A v \in Values[t] : ~Raises(New[t][v]) => New[t][v] \in ReadAs[t][v]

\* Every value is found in the bytes that were made of it, when it can be read at all.
LEMMA AllIsFound == \A t \in Types : FoundAll(t)
<1> DEFINE P == {t \in Types : FoundAll(t)}
<1>1. ASSUME NEW t \in Types, \A i \in DOMAIN t.of : t.of[i] \in P PROVE t \in P
  <2>1. SUFFICES ASSUME Readable[t], NEW v \in Values[t], ~Raises(New[t][v])
                 PROVE  New[t][v] \in ReadAs[t][v]
    BY DEF FoundAll
  <2>2. CASE t.kind \in Leaves
    <3>1. New[t][v] = NewLeaf(t, v)
      BY <2>2, NewDef
    <3>2. NewLeaf(t, v) \in Seq(Byte) /\ ReadsLeaf(t, v, NewLeaf(t, v))
      BY <2>1, <2>2, <3>1, LeafFacts
    <3> QED
      BY <2>2, <3>1, <3>2, ReadAsDef
  <2>3. CASE t.kind \notin Leaves
    <3>1. PICK b : b = New[t][v]
      OBVIOUS
    <3>2. Well(t, v, b)
      BY <2>1, <3>1, AllIsWell DEF MadeWell
    <3>3. b \in Seq(Byte) /\ Found(t, v, b)
      BY <2>3, <3>2 DEF Well
    <3>4. Items(t, b) = NewItems(t, v)
      BY <2>1, <2>3, <3>3, ReadableItems DEF Found
    <3>5. Len(Items(t, b)) = Len(v) /\ DOMAIN v = 1..Len(v)
      BY <2>3, <3>4, TypesInFacts
    <3>6. ASSUME NEW i \in 1..Len(v) PROVE Items(t, b)[i] \in ReadAs[TypesIn(t, v)[i]][v[i]]
      <4>1. PICK u \in Types : u = TypesIn(t, v)[i] /\ v[i] \in Values[u]
        BY <2>3, InnerFacts
      <4>2. Items(t, b)[i] = New[u][v[i]] /\ ~Raises(New[u][v[i]])
        BY <2>1, <2>3, <3>1, <3>4, <4>1, InnerIsMade
      <4>3. PICK j \in DOMAIN t.of : u = t.of[j]
        BY <2>3, <4>1, TypesInFacts
      <4>4. FoundAll(u)
        BY <1>1, <4>3
      <4>5. Readable[u]
        BY <2>1, <2>3, <4>1, ReadableItems
      <4> QED
        BY <4>1, <4>2, <4>4, <4>5 DEF FoundAll
    <3>7. FoundBy(ReadAs, t, v, b)
      BY <3>5, <3>6 DEF FoundBy, TypesIn
    <3> QED
      BY <2>3, <3>1, <3>3, <3>7, ReadAsDef
  <2> QED
    BY <2>2, <2>3
<1>2. P = Types
  <2>1. P \in SUBSET Types
    OBVIOUS
  <2> HIDE DEF P
  <2> QED
    BY <1>1, <2>1, TypeInduction
<1> QED
  BY <1>2

-----------------------------------------------------------------------------
(* Theorems.                                                               *)

\* The object is of one of the types, its bytes are bytes unless it is a struct whose fields
\* have no encoding, and each value in it is one of the type of its place.
THEOREM AbiTypes == AbiSpec => []AbiTypeOK
<1>1. ASSUME AbiInv PROVE AbiTypeOK
  <2>1. PICK t, v : /\ t \in Types /\ v \in Values[t] /\ t = Type /\ v = contents
                    /\ t.kind \notin Leaves /\ object.bytes = New[t][v]
                    /\ t.kind # "struct" => ~Raises(New[t][v])
    BY <1>1 DEF AbiInv
  <2>2. HasBytes => object.bytes \in Seq(Byte)
    BY <2>1, MadeItems DEF HasBytes
  <2>3. HasBytes => \A i \in DOMAIN object.bytes : object.bytes[i] \in Byte
    BY <2>2
  <2>4. HasBytes \/ Type.kind = "struct"
    BY <2>1 DEF HasBytes
  <2>5. \A i \in DOMAIN v : v[i] \in Values[ItemType(i)]
    BY <2>1, ValueFacts DEF ItemType
  <2> QED
    BY <2>1, <2>3, <2>4, <2>5 DEF AbiTypeOK
<1> QED
  BY <1>1, AbiInvariant, PTL

\* The bytes are those of an object made anew of what is in this one, whatever was assigned
\* before: no assignment that failed leaves a trace in them, and a struct that has no bytes
\* has them again as soon as its fields fit.
THEOREM FailuresLeaveNoTrace == AbiSpec => []NoTraceOfFailures
<1>1. ASSUME AbiInv PROVE NoTraceOfFailures
  BY <1>1 DEF AbiInv, NoTraceOfFailures
<1> QED
  BY <1>1, AbiInvariant, PTL

\* The length that size_of and boxes take from a static type is that of the bytes of every
\* value of it, whatever was changed in it, and a dynamic type has none, or holds an array
\* that has none of its dynamic items.
THEOREM LengthsAreStatic == AbiSpec => []LengthIsStatic
<1>1. ASSUME AbiInv PROVE LengthIsStatic
  <2>1. PICK t, v : /\ t \in Types /\ v \in Values[t] /\ t = Type /\ v = contents
                    /\ t.kind \notin Leaves /\ object.bytes = New[t][v]
    BY <1>1 DEF AbiInv
  <2>2. ~Raises(New[t][v]) => Well(t, v, New[t][v])
    BY <2>1, AllIsWell DEF MadeWell
  <2>3. t.kind # "bool"
    BY <2>1 DEF Leaves
  <2>4. HasBytes /\ ~IsDynamic[t] => Len(New[t][v]) = Size[t] /\ StaticLength[t] = Size[t]
    BY <2>1, <2>2, <2>3, StaticLengthIsSize DEF Well, HasBytes
  <2>5. IsDynamic[t] => StaticLength[t] = NoLength \/ Hollow[t]
    BY <2>1, DynamicHasNoLength
  <2> QED
    BY <2>1, <2>4, <2>5 DEF LengthIsStatic
<1> QED
  BY <1>1, AbiInvariant, PTL

\* What was put in is found again in the bytes after every change, down to the leaves; and
\* where an item of no size ends items that are all static, nothing can be read.
THEOREM ItemsFound == AbiSpec => []ItemsAreFound
<1>1. ASSUME AbiInv PROVE ItemsAreFound
  <2>1. PICK t, v : /\ t \in Types /\ v \in Values[t] /\ t = Type /\ v = contents
                    /\ t.kind \notin Leaves /\ object.bytes = New[t][v]
    BY <1>1 DEF AbiInv
  <2>2. HasBytes /\ Readable[t] => New[t][v] \in ReadAs[t][v]
    BY <2>1, AllIsFound DEF FoundAll, HasBytes
  <2>3. PICK ts \in Seq(Types) : ts = TypesIn(t, v)
    BY <2>1, TypesInFacts
  <2>4. CASE Raises(New[t][v])
    <3>1. Items(t, New[t][v]) = <<Poison>>
      BY <2>4 DEF Items
    <3> QED
      BY <2>1, <2>2, <3>1 DEF ItemsAreFound
  <2>5. ASSUME ~Raises(New[t][v]), EndsEmpty(ts), \A i \in DOMAIN ts : ~IsDynamic[ts[i]]
        PROVE  Items(t, New[t][v]) = <<Poison>>
    <3>1. Found(t, v, New[t][v])
      BY <2>1, <2>5, AllIsWell DEF MadeWell, Well
    <3>2. PICK bs : bs = NewItems(t, v)
      OBVIOUS
    <3>3. PICK b : b = BodyOf(t, New[t][v])
      OBVIOUS
    <3>4. Proper(ts, bs) /\ InPlace(ts, bs, b) /\ Items(t, New[t][v]) = Decode(ts, b)
      BY <2>3, <3>1, <3>2, <3>3 DEF Found
    <3>5. \A i \in 1..Len(ts) : ~IsDynamic[ts[i]]
      BY <2>5
    <3> QED
      BY <2>5, <3>4, <3>5, NothingIsNotFound
  <2> QED
    BY <2>1, <2>2, <2>3, <2>4, <2>5 DEF ItemsAreFound, TypesIn
<1> QED
  BY <1>1, AbiInvariant, PTL

-----------------------------------------------------------------------------
(* What was made of a value is what ARC4 says of its bytes.                *)

\* The bools that share a byte with the one at its start are those of its run that are
\* less than ByteBits after it.
LEMMA RunInByte ==
  ASSUME NEW ts \in Seq(Types), NEW i \in 1..Len(ts), IsStart(ts, i), ts[i].kind = "bool",
         NEW k \in 0..(ByteBits - 1)
  PROVE  /\ i + k \in 1..Len(ts) /\ ts[i + k].kind = "bool"
         /\ RunStart(ts, i + k) = RunStart(ts, i)
         <=> k \in 0..Sharing(ts, i)
<1>1. PICK n \in Nat : n = Len(ts)
  OBVIOUS
<1>2. PICK m \in Nat : m = Sharing(ts, i) /\ i + m <= n
  BY <1>1, StartFacts
<1>3. ASSUME k \in 0..m
      PROVE  /\ i + k \in 1..n /\ ts[i + k].kind = "bool" /\ RunStart(ts, i + k) = RunStart(ts, i)
  <2>1. CASE k = 0
    BY <1>1, <2>1
  <2>2. CASE k # 0
    <3>1. PICK j \in i..(i + m) : j = i + k /\ j > i
      BY <1>2, <1>3, <2>2
    <3>2. ts[j].kind = "bool" /\ RunStart(ts, j) = RunStart(ts, i)
      BY <1>2, <3>1, StartFacts
    <3> QED
      BY <1>1, <1>2, <1>3, <3>1, <3>2
  <2> QED
    BY <2>1, <2>2
<1>4. ASSUME i + k \in 1..n, ts[i + k].kind = "bool", RunStart(ts, i + k) = RunStart(ts, i),
             ~(k \in 0..m)
      PROVE  FALSE
  <2>1. PICK a \in Nat : a = BoolsFrom(ts, i, 1, FALSE) /\ i + a <= n
    <3>1. BoolsFrom(ts, i, 1, FALSE) \in 0..(n - i)
      BY <1>1, RunFacts
    <3>2. PICK a \in 0..(n - i) : a = BoolsFrom(ts, i, 1, FALSE)
      BY <3>1
    <3>3. i \in Nat /\ i <= n
      BY <1>1
    <3>4. a \in Nat /\ i + a <= n
      BY <1>1, <3>3
    <3> QED
      BY <3>2, <3>4
  <2>14. a \in Nat /\ i + a <= n
    BY <2>1
  <2>15. i \in Nat /\ n \in Nat /\ k \in Nat
    OBVIOUS
  <2>2. PICK c \in Nat : c = ByteBits - 1
    BY SizeFacts
  <2>3. m \in {c, a}
    <3>1. m = Min({c, a})
      BY <1>2, <2>1, <2>2 DEF Sharing
    <3>2. c \in Nat /\ a \in Nat
      BY <2>1, <2>2
    <3>3. PICK l \in Nat : c <= l /\ a <= l
      <4>1. c <= c + a /\ a <= c + a /\ c + a \in Nat
        BY <3>2
      <4> QED
        BY <4>1
    <3>4. {c, a} \in SUBSET (0..l) /\ {c, a} # {}
      BY <3>2, <3>3
    <3> QED
      BY <3>1, <3>4, MinIsLeast
  <2>4. m < k /\ k <= c
    BY <1>4, <2>2
  <2>5. m = a
    BY <2>3, <2>4
  <2>6. a < n - i
    <3>1. i + k <= n
      BY <1>4
    <3>2. a < k
      BY <2>4, <2>5
    <3> QED
      BY <2>14, <2>15, <3>1, <3>2
  <2>7. ts[i + a + 1].kind # "bool"
    <3>1. i + a # n
      BY <2>6, <2>14, <2>15
    <3> QED
      BY <1>1, <2>1, <3>1, RunFacts
  <2>8. PICK j \in 1..n : j = i + k
    BY <1>4
  <2>9. RunStart(ts, i) \in 1..i
    BY RunFacts
  <2>10. \A l \in RunStart(ts, i)..j : ts[l].kind = "bool"
    BY <1>1, <1>4, <2>8, RunFacts
  <2>11. i + a + 1 \in RunStart(ts, i)..j
    <3>1. PICK r \in 1..i : r = RunStart(ts, i)
      BY <2>9
    <3>2. i + a + 1 \in r..j
      <4>1. a < k
        BY <2>4, <2>5
      <4>2. r \in Nat /\ r <= i
        OBVIOUS
      <4> QED
        BY <2>8, <2>14, <2>15, <4>1, <4>2
    <3> QED
      BY <3>1, <3>2
  <2> QED
    BY <2>7, <2>10, <2>11
<1> QED
  BY <1>1, <1>2, <1>3, <1>4

\* The bits of the byte at the start of bools of a value, as the specification has them.
RunBits(ts, v, s) ==
  {k \in 0..(ByteBits - 1) : /\ s + k \in DOMAIN ts /\ ts[s + k].kind = "bool"
                             /\ RunStart(ts, s + k) = RunStart(ts, s) /\ v[s + k]}

\* They are those that the bools are put in.
LEMMA RunIsCompressed ==
  ASSUME NEW ts \in Seq(Types), NEW i \in 1..Len(ts), IsStart(ts, i), ts[i].kind = "bool",
         NEW bs \in Seq(Seq(Byte)), Len(bs) = Len(ts), NEW v,
         \A j \in 1..Len(ts) : ts[j].kind = "bool" => (bs[j] = <<TrueByte>> <=> v[j])
  PROVE  Compress(SubSeq(bs, i, i + Sharing(ts, i)))
           = <<FromBits({ByteBits - 1 - k : k \in RunBits(ts, v, i)})>>
<1>1. PICK n \in Nat : n = Len(ts) /\ n = Len(bs)
  OBVIOUS
<1>2. PICK m \in Nat : m = Sharing(ts, i) /\ i + m <= n /\ m < ByteBits
  <2>1. Sharing(ts, i) \in 0..(Len(ts) - i)
    BY StartFacts, Zenon
  <2>2. Sharing(ts, i) < ByteBits
    BY StartFacts, Zenon
  <2> QED
    BY <1>1, <2>1, <2>2
<1>3. PICK s \in Seq(Seq(Byte)) : /\ s = SubSeq(bs, i, i + m) /\ Len(s) = m + 1
                                  /\ \A k \in 1..(m + 1) : s[k] = bs[i + k - 1]
  <2>1. m \in 0..(Len(bs) - i) /\ i \in 1..Len(bs)
    BY <1>1, <1>2
  <2>2. PICK l \in 0..(Len(bs) - i) : l = m
    BY <2>1
  <2>3. PICK S : S = Seq(Byte)
    OBVIOUS
  <2>4. bs \in Seq(S)
    BY <2>3
  <2>5. /\ SubSeq(bs, i, i + l) \in Seq(S) /\ Len(SubSeq(bs, i, i + l)) = l + 1
        /\ \A k \in 1..(l + 1) : SubSeq(bs, i, i + l)[k] = bs[i + k - 1]
    BY <2>1, <2>4, RunOfItems
  <2> QED
    BY <2>2, <2>3, <2>5
<1>4. PICK d \in Nat : d = ByteBits /\ m < d
  BY <1>2, SizeFacts
<1>5. ASSUME NEW k \in 0..(d - 1) PROVE k \in RunBits(ts, v, i) <=> k \in 0..m /\ v[i + k]
  <2>1. /\ i + k \in 1..n /\ ts[i + k].kind = "bool" /\ RunStart(ts, i + k) = RunStart(ts, i)
        <=> k \in 0..m
    BY <1>1, <1>2, <1>4, RunInByte
  <2>2. DOMAIN ts = 1..n
    BY <1>1
  <2> QED
    BY <1>4, <2>1, <2>2 DEF RunBits
<1>6. ASSUME NEW k \in 0..m PROVE s[k + 1] = <<TrueByte>> <=> v[i + k]
  <2>1. k + 1 \in 1..(m + 1) /\ i + (k + 1) - 1 = i + k
    OBVIOUS
  <2>2. s[k + 1] = bs[i + k]
    BY <1>3, <2>1
  <2>3. k \in 0..(ByteBits - 1)
    BY <1>4
  <2>4. i + k \in 1..Len(ts) /\ ts[i + k].kind = "bool"
    BY <1>2, <2>3, RunInByte
  <2> QED
    BY <2>2, <2>4
<1>7. {d - k : k \in {k \in DOMAIN s : s[k] = <<TrueByte>>}} = {d - 1 - k : k \in RunBits(ts, v, i)}
  <2>1. DOMAIN s = 1..(m + 1)
    BY <1>3
  <2>2. ASSUME NEW k \in DOMAIN s, s[k] = <<TrueByte>>
        PROVE  \E j \in RunBits(ts, v, i) : d - k = d - 1 - j
    <3>1. PICK j \in 0..m : k = j + 1
      <4>1. k - 1 \in 0..m /\ k = (k - 1) + 1
        BY <2>1
      <4> QED
        BY <4>1
    <3>2. v[i + j]
      BY <1>6, <2>2, <3>1, Zenon
    <3>3. j \in RunBits(ts, v, i)
      <4>1. j \in 0..(d - 1)
        BY <1>4
      <4> QED
        BY <1>5, <3>2, <4>1
    <3>4. d - k = d - 1 - j
      BY <3>1
    <3> QED
      BY <3>3, <3>4
  <2>3. ASSUME NEW j \in RunBits(ts, v, i)
        PROVE  \E k \in {k \in DOMAIN s : s[k] = <<TrueByte>>} : d - 1 - j = d - k
    <3>1. j \in 0..(d - 1)
      BY <1>4 DEF RunBits
    <3>2. j \in 0..m /\ v[i + j]
      BY <1>5, <3>1
    <3>3. s[j + 1] = <<TrueByte>> /\ j + 1 \in DOMAIN s
      BY <1>6, <2>1, <3>2
    <3>4. d - 1 - j = d - (j + 1)
      BY <3>1
    <3> QED
      BY <3>3, <3>4
  <2>4. PICK S : S = {k \in DOMAIN s : s[k] = <<TrueByte>>}
    OBVIOUS
  <2>5. \A k \in S : d - k \in {d - 1 - j : j \in RunBits(ts, v, i)}
    BY <2>2, <2>4, Zenon
  <2>6. \A j \in RunBits(ts, v, i) : d - 1 - j \in {d - k : k \in S}
    BY <2>3, <2>4, Zenon
  <2>7. {d - k : k \in S} = {d - 1 - k : k \in RunBits(ts, v, i)}
    BY <2>5, <2>6, Zenon
  <2> QED
    BY <2>4, <2>7
<1> QED
  BY <1>2, <1>3, <1>4, <1>7 DEF Compress

\* The parts of what is laid out: where a dynamic item starts and stops.
Begins(ts, b, i) == IntOf(Slice(b, HeadAt(ts, i), HeadAt(ts, i) + LengthSize))
Stops(ts, b, dynamic, i) ==
  IF i = Max(dynamic) THEN Len(b) ELSE Begins(ts, b, Min({j \in dynamic : j > i}))

\* Where the dynamic items begin, and where the static ones end if there are none.
HeadsEnd(ts, b, dynamic) ==
  IF dynamic = {} THEN Len(b) = HeadAt(ts, Len(ts) + 1)
  ELSE Begins(ts, b, Min(dynamic)) = HeadAt(ts, Len(ts) + 1)

\* A dynamic item, a bool, another static item.
TailIs(encodings, ts, v, b, dynamic, i) ==
  /\ Begins(ts, b, i) <= Stops(ts, b, dynamic, i)
  /\ Slice(b, Begins(ts, b, i), Stops(ts, b, dynamic, i)) \in encodings[ts[i]][v[i]]
HeadIs(encodings, ts, v, b, i) ==
  IF ts[i].kind = "bool"
  THEN Cost(Size, ts, i) = 1 =>
         b[HeadAt(ts, i) + 1] = FromBits({ByteBits - 1 - k : k \in RunBits(ts, v, i)})
  ELSE Slice(b, HeadAt(ts, i), HeadAt(ts, i + 1)) \in encodings[ts[i]][v[i]]

\* These are all of it.
LEMMA LaidOutDef ==
  ASSUME NEW encodings, NEW ts \in Seq(Types), NEW v, NEW b, NEW dynamic, AreDynamic(ts, dynamic)
  PROVE  LaidOut(encodings, ts, v, b) <=>
           /\ Len(v) = Len(ts) /\ HeadsEnd(ts, b, dynamic)
           /\ \A i \in dynamic : TailIs(encodings, ts, v, b, dynamic, i)
           /\ \A i \in 1..Len(ts) : i \notin dynamic => HeadIs(encodings, ts, v, b, i)
<1>1. DOMAIN ts = 1..Len(ts)
  OBVIOUS
<1>2. dynamic = {i \in DOMAIN ts : IsDynamic[ts[i]]}
  BY <1>1 DEF AreDynamic
<1>3. LaidOut(encodings, ts, v, b) <=>
           /\ Len(v) = Len(ts) /\ HeadsEnd(ts, b, dynamic)
           /\ \A i \in dynamic : TailIs(encodings, ts, v, b, dynamic, i)
           /\ \A i \in DOMAIN ts \ dynamic : HeadIs(encodings, ts, v, b, i)
  BY <1>2, Zenon DEF LaidOut, HeadsEnd, TailIs, HeadIs, Begins, Stops, RunBits
<1> QED
  BY <1>1, <1>3

\* It depends only on what the types of the items have.
LEMMA LaidOutSame ==
  ASSUME NEW g, NEW h, NEW ts \in Seq(Types), \A i \in 1..Len(ts) : g[ts[i]] = h[ts[i]],
         NEW v, NEW b
  PROVE  LaidOut(g, ts, v, b) <=> LaidOut(h, ts, v, b)
<1>1. PICK dynamic : AreDynamic(ts, dynamic)
  BY DEF AreDynamic
<1>2. \A i \in dynamic : TailIs(g, ts, v, b, dynamic, i) <=> TailIs(h, ts, v, b, dynamic, i)
  BY <1>1 DEF AreDynamic, TailIs
<1>3. \A i \in 1..Len(ts) : HeadIs(g, ts, v, b, i) <=> HeadIs(h, ts, v, b, i)
  BY DEF HeadIs
<1> QED
  BY <1>1, <1>2, <1>3, LaidOutDef

\* Each item of a value is among the encodings of its type.
Encoded(encodings, ts, v, bs) ==
  /\ Len(v) = Len(ts)
  /\ \A i \in 1..Len(ts) : IF ts[i].kind = "bool" THEN bs[i] = <<TrueByte>> <=> v[i]
                           ELSE bs[i] \in encodings[ts[i]][v[i]]

\* Items in place are laid out.
LEMMA PlacedIsLaidOut ==
  ASSUME NEW ts \in Seq(Types), NEW bs, Proper(ts, bs), NEW b, InPlace(ts, bs, b),
         NEW encodings, NEW v, Encoded(encodings, ts, v, bs)
  PROVE  LaidOut(encodings, ts, v, b)
<1>1. PICK n \in Nat : n = Len(ts)
  OBVIOUS
<1>2. PICK dynamic : AreDynamic(ts, dynamic)
  BY DEF AreDynamic
<1>3. /\ \A i \in dynamic : i \in 1..n /\ IsDynamic[ts[i]] /\ ts[i] \in Types
      /\ \A i \in 1..n : i \notin dynamic => ~IsDynamic[ts[i]]
  BY <1>1, <1>2 DEF AreDynamic
<1>4. Len(v) = Len(ts) /\ b \in Seq(Byte) /\ Len(b) = TailAt(ts, bs, n + 1)
  BY <1>1 DEF Encoded, InPlace
<1>5. ASSUME NEW i \in 1..n
      PROVE  /\ HeadAt(ts, i) \in Nat /\ HeadAt(ts, i + 1) \in Nat /\ Cost(Size, ts, i) \in Nat
             /\ HeadAt(ts, i + 1) = HeadAt(ts, i) + Cost(Size, ts, i)
             /\ HeadAt(ts, i + 1) <= Len(b)
             /\ Slice(b, HeadAt(ts, i), HeadAt(ts, i + 1)) = HeadOf(ts, bs)[i]
  <2>1. i + 1 \in 1..(n + 1) /\ i \in 1..(n + 1)
    OBVIOUS
  <2> QED
    BY <1>1, <2>1, HeadAtFacts DEF InPlace
<1>6. ASSUME NEW i \in dynamic PROVE Begins(ts, b, i) = TailAt(ts, bs, i)
  <2>1. i \in 1..n /\ IsDynamic[ts[i]] /\ ts[i] \in Types
    BY <1>3
  <2>2. HeadAt(ts, i + 1) = HeadAt(ts, i) + LengthSize
    <3>1. Size[ts[i]] \in Nat
      BY <2>1, SizeDef
    <3>2. Cost(Size, ts, i) = LengthSize
      BY <1>1, <2>1, <3>1, CostFacts
    <3> QED
      BY <1>5, <2>1, <3>2
  <2>3. IntOf(HeadOf(ts, bs)[i]) = TailAt(ts, bs, i)
    BY <1>1, <2>1 DEF InPlace
  <2> QED
    BY <1>5, <2>1, <2>2, <2>3 DEF Begins
<1>7. HeadsEnd(ts, b, dynamic)
  <2>1. CASE dynamic = {}
    <3>1. TailAt(ts, bs, n + 1) = HeadAt(ts, n + 1)
      BY <1>1, <1>2, <2>1, StopFacts
    <3> QED
      BY <1>1, <1>4, <2>1, <3>1 DEF HeadsEnd
  <2>2. CASE dynamic # {}
    <3>1. Min(dynamic) \in dynamic /\ TailAt(ts, bs, Min(dynamic)) = HeadAt(ts, n + 1)
      BY <1>1, <1>2, <2>2, StopFacts
    <3> QED
      BY <1>1, <1>6, <2>2, <3>1 DEF HeadsEnd
  <2> QED
    BY <2>1, <2>2
<1>8. ASSUME NEW i \in dynamic PROVE TailIs(encodings, ts, v, b, dynamic, i)
  <2>1. i \in 1..n /\ IsDynamic[ts[i]] /\ ts[i] \in Types
    BY <1>3
  <2>2. Begins(ts, b, i) = TailAt(ts, bs, i)
    BY <1>6
  <2>3. Stops(ts, b, dynamic, i) = TailAt(ts, bs, i + 1)
    <3>3. IF i = Max(dynamic) THEN TailAt(ts, bs, i + 1) = TailAt(ts, bs, Len(ts) + 1)
          ELSE /\ Min({k \in dynamic : k > i}) \in dynamic
               /\ TailAt(ts, bs, Min({k \in dynamic : k > i})) = TailAt(ts, bs, i + 1)
      <4>1. NextTail(ts, bs, dynamic, i)
        BY <1>2, StopFacts, Zenon
      <4> QED
        BY <4>1, Zenon DEF NextTail
    <3>1. CASE i = Max(dynamic)
      <4>1. TailAt(ts, bs, i + 1) = TailAt(ts, bs, Len(ts) + 1)
        BY <3>1, <3>3, Zenon
      <4>2. TailAt(ts, bs, i + 1) = Len(b)
        BY <1>1, <1>4, <4>1, Zenon
      <4> QED
        BY <3>1, <4>2 DEF Stops
    <3>2. CASE i # Max(dynamic)
      <4>1. PICK j : j = Min({k \in dynamic : k > i})
        OBVIOUS
      <4>2. j \in dynamic /\ TailAt(ts, bs, j) = TailAt(ts, bs, i + 1)
        <5>1. /\ Min({k \in dynamic : k > i}) \in dynamic
              /\ TailAt(ts, bs, Min({k \in dynamic : k > i})) = TailAt(ts, bs, i + 1)
          BY <3>2, <3>3, Zenon
        <5> QED
          BY <4>1, <5>1
      <4>3. Begins(ts, b, j) = TailAt(ts, bs, j)
        BY <1>6, <4>2
      <4> QED
        BY <3>2, <4>1, <4>2, <4>3 DEF Stops
    <3> QED
      BY <3>1, <3>2
  <2>4. Slice(b, TailAt(ts, bs, i), TailAt(ts, bs, i + 1)) = TailOf(ts, bs)[i]
    BY <1>1, <2>1 DEF InPlace
  <2>5. TailOf(ts, bs)[i] = bs[i]
    BY <1>1, <2>1 DEF TailOf
  <2>6. ts[i].kind # "bool"
    <3>1. Size[ts[i]] \in Nat
      BY <2>1, SizeDef
    <3> QED
      BY <1>1, <2>1, <3>1, CostFacts
  <2>7. bs[i] \in encodings[ts[i]][v[i]]
    BY <1>1, <2>1, <2>6 DEF Encoded
  <2>8. TailAt(ts, bs, i) <= TailAt(ts, bs, i + 1)
    <3>1. i \in 1..(n + 1)
      BY <2>1
    <3>2. TailAt(ts, bs, i) \in Nat
      BY <1>1, <3>1, TailFacts
    <3>3. TailAt(ts, bs, i + 1) = TailAt(ts, bs, i) + Len(TailOf(ts, bs)[i])
      BY <1>1, <2>1, TailFacts
    <3>4. TailOf(ts, bs)[i] \in Seq(Byte)
      BY <1>1, <2>1, TailFacts
    <3>5. Len(TailOf(ts, bs)[i]) \in Nat
      BY <3>4
    <3> QED
      BY <3>2, <3>3, <3>5
  <2> QED
    BY <2>2, <2>3, <2>4, <2>5, <2>7, <2>8 DEF TailIs
<1>9. ASSUME NEW i \in 1..n, i \notin dynamic PROVE HeadIs(encodings, ts, v, b, i)
  <2>1. ts[i] \in Types /\ ~IsDynamic[ts[i]] /\ Size[ts[i]] \in Nat
    <3>1. ts[i] \in Types
      BY <1>1
    <3> QED
      BY <1>3, <1>9, <3>1, SizeDef
  <2>2. CASE ts[i].kind # "bool"
    <3>1. IsStart(ts, i)
      BY <2>2 DEF IsStart
    <3>2. HeadOf(ts, bs)[i] = bs[i]
      BY <1>1, <2>1, <2>2, <3>1 DEF HeadOf
    <3> QED
      BY <1>1, <1>5, <2>2, <3>2 DEF HeadIs, Encoded
  <2>3. CASE ts[i].kind = "bool"
    <3>1. SUFFICES ASSUME Cost(Size, ts, i) = 1
                   PROVE  b[HeadAt(ts, i) + 1] =
                            FromBits({ByteBits - 1 - k : k \in RunBits(ts, v, i)})
      BY <2>3 DEF HeadIs
    <3>2. IsStart(ts, i)
      BY <1>1, <2>1, <2>3, <3>1, CostFacts
    <3>3. HeadOf(ts, bs)[i] = Compress(SubSeq(bs, i, i + Sharing(ts, i)))
      BY <1>1, <2>1, <2>3, <3>2 DEF HeadOf
    <3>4. bs \in Seq(Seq(Byte)) /\ Len(bs) = Len(ts)
      BY DEF Proper
    <3>5. \A j \in 1..Len(ts) : ts[j].kind = "bool" => (bs[j] = <<TrueByte>> <=> v[j])
      BY DEF Encoded
    <3>6. HeadOf(ts, bs)[i] = <<FromBits({ByteBits - 1 - k : k \in RunBits(ts, v, i)})>>
      BY <1>1, <2>3, <3>2, <3>3, <3>4, <3>5, RunIsCompressed
    <3>7. PICK at \in Nat : at = HeadAt(ts, i) /\ at + 1 = HeadAt(ts, i + 1) /\ at + 1 <= Len(b)
      BY <1>5, <3>1
    <3>8. Slice(b, at, at + 1)[1] = b[at + 1]
      <4>1. at \in 0..Len(b) /\ at + 1 \in at..Len(b) /\ at \in Int /\ at + 1 \in Int
        <5>1. Len(b) \in Nat
          BY <1>4
        <5> QED
          BY <3>7, <5>1
      <4>2. 1 \in 1..((at + 1) - at)
        OBVIOUS
      <4> QED
        BY <1>4, <4>1, <4>2, SliceFacts
    <3>9. Slice(b, at, at + 1) = HeadOf(ts, bs)[i]
      BY <1>5, <3>7
    <3> QED
      BY <3>6, <3>7, <3>8, <3>9
  <2> QED
    BY <2>2, <2>3
<1> QED
  BY <1>1, <1>2, <1>4, <1>7, <1>8, <1>9, LaidOutDef

\* What the bytes of an array, a tuple or a struct are, when g says so of its items.
EncodesBy(g, t, v, b) ==
  IF t.kind = "dynamic"
  THEN /\ Len(b) >= LengthSize /\ ReadLength(b) = Len(v)
       /\ LaidOut(g, ChildTypes(t, Len(v)), v, Slice(b, LengthSize, Len(b)))
  ELSE LaidOut(g, ChildTypes(t, t.size), v, b)

\* The encodings of a value are those of a leaf, or what its items make.
LEMMA EncodingsDef ==
  \A t \in Types : \A v \in Values[t] : \A b :
    b \in Encodings[t][v] <=>
      /\ b \in Seq(Byte)
      /\ IF t.kind \in Leaves THEN EncodesLeaf(t, v, b) ELSE EncodesBy(Encodings, t, v, b)
<1> DEFINE Body(g, t) == [v \in Values[t] |-> {b \in Seq(Byte) :
                            IF t.kind \in Leaves THEN EncodesLeaf(t, v, b)
                            ELSE EncodesBy(g, t, v, b)}]
           Is(f) == f = [t \in Types |-> Body(f, t)]
           T == [t \in Types |-> [Values[t] -> SUBSET Seq(Byte)]]
           G == [t \in Types |-> [g \in Into(Types, T) |-> Body(g, t)]]
<1>1. \A t \in Types : \A g \in Into(Types, T) : G[t][g] = Body(g, t)
  OBVIOUS
<1>2. \A t \in Types : T[t] = [Values[t] -> SUBSET Seq(Byte)]
  OBVIOUS
<1> HIDE DEF T, G
<1>3. ASSUME NEW t \in Types, NEW g PROVE Body(g, t) \in [Values[t] -> SUBSET Seq(Byte)]
  OBVIOUS
<1>4. ASSUME NEW t \in Types, NEW g, NEW h, \A j \in DOMAIN t.of : g[t.of[j]] = h[t.of[j]]
      PROVE  Body(g, t) = Body(h, t)
  <2>1. ASSUME NEW v \in Values[t], NEW b, t.kind \notin Leaves
        PROVE  EncodesBy(g, t, v, b) <=> EncodesBy(h, t, v, b)
    <3>1. PICK ts \in Seq(Types) : ts = ChildTypes(t, Len(v)) /\ Len(ts) = Len(v)
      BY <2>1, ValueFacts
    <3>2. \A i \in 1..Len(ts) : g[ts[i]] = h[ts[i]]
      BY <1>4, <2>1, <3>1, SameOnItems
    <3>3. \A c : LaidOut(g, ts, v, c) <=> LaidOut(h, ts, v, c)
      BY <3>2, LaidOutSame
    <3>4. t.kind # "dynamic" => ChildTypes(t, t.size) = ts
      BY <2>1, <3>1, ValueFacts
    <3> QED
      BY <3>1, <3>3, <3>4 DEF EncodesBy
  <2> QED
    BY <2>1
<1>5. PICK f \in Into(Types, T) : \A t \in Types : f[t] = G[t][f]
  <2> HIDE DEF Body
  <2>1. \A t \in Types : T[t] # {}
    <3> TAKE t \in Types
    <3>1. [v \in Values[t] |-> {}] \in [Values[t] -> SUBSET Seq(Byte)]
      OBVIOUS
    <3> QED
      BY <1>2, <3>1
  <2>2. \A t \in Types : \A g \in Into(Types, T) : G[t][g] \in T[t]
    BY <1>1, <1>2, <1>3
  <2>3. \A t \in Types : \A g, h \in Into(Types, T) :
          (\A i \in DOMAIN t.of : g[t.of[i]] = h[t.of[i]]) => G[t][g] = G[t][h]
    BY <1>1, <1>4
  <2>4. ByItems(T, G)
    BY <2>1, <2>2, <2>3 DEF ByItems
  <2> QED
    BY <2>4, TypeRecursion
<1>6. Is(f)
  <2> HIDE DEF Body
  <2>1. f = [t \in Types |-> f[t]]
    BY IntoFacts
  <2> QED
    BY <1>1, <1>5, <2>1
<1>7. Is(CHOOSE u : Is(u))
  <2> HIDE DEF Is
  <2> QED
    BY <1>6
<1>8. Is(Encodings)
  BY <1>7 DEF Encodings, EncodesBy
<1>9. \A t \in Types : Encodings[t] = Body(Encodings, t)
  <2> HIDE DEF Body
  <2> QED
    BY <1>8
<1>10. ASSUME NEW t \in Types, NEW v \in Values[t]
       PROVE  Encodings[t][v] = {b \in Seq(Byte) : IF t.kind \in Leaves THEN EncodesLeaf(t, v, b)
                                                  ELSE EncodesBy(Encodings, t, v, b)}
  <2>1. Body(Encodings, t)[v] = {b \in Seq(Byte) : IF t.kind \in Leaves THEN EncodesLeaf(t, v, b)
                                                  ELSE EncodesBy(Encodings, t, v, b)}
    OBVIOUS
  <2> HIDE DEF Body
  <2> QED
    BY <1>9, <2>1
<1> QED
  BY <1>10

\* All that was made of values of a type encodes them.
EncodesAll(t) == \A v \in Values[t] : ~Raises(New[t][v]) => New[t][v] \in Encodings[t][v]

\* A bool is made of one bit, which is the bool.
LEMMA BoolIsBit ==
  ASSUME NEW t \in Types, t.kind = "bool", NEW v \in Values[t]
  PROVE  New[t][v] = <<TrueByte>> <=> v
<1>1. New[t][v] = NewBool(v)
  BY NewDef DEF NewLeaf, Leaves
<1>2. v \in BOOLEAN
  BY TypeFacts DEF MadeOfItems
<1> QED
  BY <1>1, <1>2, NewBoolFacts

\* Whatever is made of a value is an encoding of it.
LEMMA AllIsEncoding == \A t \in Types : EncodesAll(t)
<1> DEFINE P == {t \in Types : EncodesAll(t)}
<1>1. ASSUME NEW t \in Types, \A i \in DOMAIN t.of : t.of[i] \in P PROVE t \in P
  <2>1. SUFFICES ASSUME NEW v \in Values[t], ~Raises(New[t][v])
                 PROVE  New[t][v] \in Encodings[t][v]
    BY DEF EncodesAll
  <2>2. CASE t.kind \in Leaves
    <3>1. New[t][v] = NewLeaf(t, v)
      BY <2>2, NewDef
    <3>2. NewLeaf(t, v) \in Seq(Byte) /\ EncodesLeaf(t, v, NewLeaf(t, v))
      BY <2>1, <2>2, <3>1, LeafFacts
    <3> QED
      BY <2>2, <3>1, <3>2, EncodingsDef
  <2>3. CASE t.kind \notin Leaves
    <3>1. PICK b : b = New[t][v]
      OBVIOUS
    <3>2. Well(t, v, b)
      BY <2>1, <3>1, AllIsWell DEF MadeWell
    <3>3. b \in Seq(Byte) /\ Found(t, v, b)
      BY <2>3, <3>2 DEF Well
    <3>4. PICK ts \in Seq(Types) : ts = TypesIn(t, v) /\ Len(ts) = Len(v)
      BY <2>3, TypesInFacts
    <3>5. PICK bs : bs = NewItems(t, v)
      OBVIOUS
    <3>6. Proper(ts, bs) /\ InPlace(ts, bs, BodyOf(t, b))
      BY <3>3, <3>4, <3>5 DEF Found
    <3>7. bs \in Seq(Seq(Byte)) /\ Len(bs) = Len(v)
      BY <2>1, <2>3, <3>5, MadeItems
    <3>8. ASSUME NEW i \in 1..Len(v)
          PROVE  IF ts[i].kind = "bool" THEN bs[i] = <<TrueByte>> <=> v[i]
                 ELSE bs[i] \in Encodings[ts[i]][v[i]]
      <4>1. ts[i] \in Types /\ v[i] \in Values[ts[i]]
        BY <2>3, <3>4, InnerFacts
      <4>2. bs[i] = New[ts[i]][v[i]]
        BY <2>3, <3>4, <3>5, TypesInFacts
      <4>3. ~Raises(bs[i])
        <5>1. bs[i] \in Seq(Byte)
          BY <3>7
        <5> QED
          BY <5>1, RaisesFacts
      <4>4. PICK j \in DOMAIN t.of : ts[i] = t.of[j]
        BY <2>3, <3>4, TypesInFacts
      <4>5. EncodesAll(ts[i])
        BY <1>1, <4>4
      <4>6. bs[i] \in Encodings[ts[i]][v[i]]
        BY <4>1, <4>2, <4>3, <4>5 DEF EncodesAll
      <4>7. ts[i].kind = "bool" => (bs[i] = <<TrueByte>> <=> v[i])
        BY <4>1, <4>2, BoolIsBit
      <4> QED
        BY <4>6, <4>7
    <3>9. Encoded(Encodings, ts, v, bs)
      BY <3>4, <3>8 DEF Encoded
    <3>10. LaidOut(Encodings, ts, v, BodyOf(t, b))
      BY <3>6, <3>9, PlacedIsLaidOut
    <3>11. EncodesBy(Encodings, t, v, b)
      <4>1. CASE t.kind = "dynamic"
        BY <3>3, <3>4, <3>10, <4>1 DEF EncodesBy, Found, BodyOf, TypesIn
      <4>2. CASE t.kind # "dynamic"
        <5>1. ChildTypes(t, t.size) = ts /\ BodyOf(t, b) = b
          BY <2>3, <3>4, <4>2, ValueFacts DEF TypesIn, BodyOf
        <5> QED
          BY <3>10, <4>2, <5>1 DEF EncodesBy
      <4> QED
        BY <4>1, <4>2
    <3> QED
      BY <2>3, <3>1, <3>3, <3>11, EncodingsDef
  <2> QED
    BY <2>2, <2>3
<1>2. P = Types
  <2>1. P \in SUBSET Types
    OBVIOUS
  <2> HIDE DEF P
  <2> QED
    BY <1>1, <2>1, TypeInduction
<1> QED
  BY <1>2

\* After every change the bytes are the ARC4 encoding of what was put in: each item at its
\* place, bools packed in runs, each offset where its item starts, nothing more.
THEOREM BytesAreEncoded == AbiSpec => []BytesAreEncoding
<1>1. ASSUME AbiInv PROVE BytesAreEncoding
  BY <1>1, AllIsEncoding DEF AbiInv, EncodesAll, BytesAreEncoding, HasBytes
<1> QED
  BY <1>1, AbiInvariant, PTL

-----------------------------------------------------------------------------
(* Native values. Functions of their types, each defined by what it is for *)
(* the types of the items, are of values of any kind, so that they are in  *)
(* no set that is there before them.                                       *)

\* What the assumption says of a native type.
LEMMA NativeFacts ==
  ASSUME NEW n \in Natives
  PROVE  /\ n.kind \in Composite \cup NativeLeaves /\ n.size \in Nat /\ n.of \in Seq(Natives)
         /\ \A i \in DOMAIN n.of : n.of[i] \in Natives /\ Depth[n.of[i]] < Depth[n]
         /\ Depth[n] \in Nat
         /\ n.kind \in NativeLeaves => n.of = << >>
         /\ n.kind \in Composite \ {"tuple", "Struct"} => Len(n.of) = 1 /\ 1 \in DOMAIN n.of
         /\ Arc4Type[n] \in Types
<1>1. /\ n.kind \in Composite \cup NativeLeaves /\ n.size \in Nat /\ n.of \in Seq(Natives)
      /\ Depth[n] \in Nat /\ \A i \in DOMAIN n.of : Depth[n.of[i]] < Depth[n]
  BY NativesAssumption DEF TypesOK
<1>2. /\ n.kind \in NativeLeaves => n.of = << >>
      /\ n.kind \in Composite \ {"tuple", "Struct"} => Len(n.of) = 1
      /\ Arc4Type[n] \in Types
  BY NativesAssumption
<1>3. \A i \in DOMAIN n.of : n.of[i] \in Natives
  BY <1>1
<1>4. Len(n.of) = 1 => 1 \in DOMAIN n.of
  BY <1>1
<1> QED
  BY <1>1, <1>2, <1>3, <1>4

\* Whatever holds of a native type as it holds of those of its items holds of all.
LEMMA NativeInduction ==
  ASSUME NEW P \in SUBSET Natives,
         \A n \in Natives : (\A i \in DOMAIN n.of : n.of[i] \in P) => n \in P
  PROVE  P = Natives
<1> DEFINE rank == [n \in Natives |-> Depth[n]]
<1>1. rank \in [Natives -> Nat] /\ \A n \in Natives : rank[n] = Depth[n]
  BY NativeFacts
<1> HIDE DEF rank
<1>2. ASSUME NEW n \in Natives, \A m \in Natives : rank[m] < rank[n] => m \in P PROVE n \in P
  <2>1. \A i \in DOMAIN n.of : n.of[i] \in Natives /\ Depth[n.of[i]] < Depth[n]
    BY NativeFacts
  <2>2. \A i \in DOMAIN n.of : n.of[i] \in P
    BY <1>1, <1>2, <2>1
  <2> QED
    BY <2>2
<1>3. \A n \in Natives : (\A m \in Natives : rank[m] < rank[n] => m \in P) => n \in P
  BY <1>2
<1>4. Hereditary(Natives, rank, P)
  BY <1>1, <1>3 DEF Hereditary
<1> QED
  BY <1>4, RankInduction

\* What the functions are for a native type, when f is what they are for its items.
TypeBody(f, n) == TypeOf(n, [i \in DOMAIN n.of |-> f[n.of[i]]])
ToArc4Body(f, n) == [v \in Values[Arc4Type[n]] |->
  IF n.kind \in Composite
  THEN Put(Arc4Type[n], [i \in DOMAIN v |-> f[Elements(n, Len(v))[i]][v[i]]])
  ELSE New[Arc4Type[n]][v]]
ToNativeBody(f, n) == [b \in Bytes |->
  IF n.kind \in NativeLeaves THEN LeafNative(n, b)
  ELSE LET bs == Items(Arc4Type[n], b)
       IN  IF Without(bs) THEN [i \in DOMAIN bs |-> f[Elements(n, Len(bs))[i]][bs[i]]]
           ELSE Poison]
FitBody(f, n) == [v \in Values[Arc4Type[n]] |->
  /\ n.kind = "Bytes" => LengthSize + Len(v) <= MaxBytesSize
  /\ n.kind \in Composite => \A i \in DOMAIN v : f[Elements(n, Len(v))[i]][v[i]]]

BodyBy(which, f, n) == CASE which = "type" -> TypeBody(f, n)
                         [] which = "arc4" -> ToArc4Body(f, n)
                         [] which = "native" -> ToNativeBody(f, n)
                         [] which = "fit" -> FitBody(f, n)

\* Such a function depends only on what it is for the items.
Respects(which) ==
  \A n \in Natives : \A g, h :
    (\A i \in DOMAIN n.of : g[n.of[i]] = h[n.of[i]]) => BodyBy(which, g, n) = BodyBy(which, h, n)

\* f is as it should be for all types less deep than d.
Good(which, f, d) == \A n \in Natives : Depth[n] < d => f[n] = BodyBy(which, f, n)

\* It is the same as another one there.
LEMMA GoodAreSame ==
  ASSUME NEW which, Respects(which), NEW d \in Nat, NEW f, Good(which, f, d),
         NEW g, Good(which, g, d)
  PROVE  \A n \in Natives : Depth[n] < d => f[n] = g[n]
<1> DEFINE P == {n \in Natives : Depth[n] < d => f[n] = g[n]}
<1>1. ASSUME NEW n \in Natives, \A i \in DOMAIN n.of : n.of[i] \in P PROVE n \in P
  <2>1. SUFFICES ASSUME Depth[n] < d PROVE f[n] = g[n]
    OBVIOUS
  <2>2. \A i \in DOMAIN n.of : Depth[n.of[i]] < d
    <3> TAKE i \in DOMAIN n.of
    <3>1. /\ n.of[i] \in Natives /\ Depth[n.of[i]] < Depth[n]
          /\ Depth[n] \in Nat
      BY NativeFacts
    <3>2. Depth[n.of[i]] \in Nat
      BY <3>1, NativeFacts
    <3> QED
      BY <2>1, <3>1, <3>2
  <2>3. \A i \in DOMAIN n.of : f[n.of[i]] = g[n.of[i]]
    BY <1>1, <2>2
  <2>4. BodyBy(which, f, n) = BodyBy(which, g, n)
    BY <2>3 DEF Respects
  <2> QED
    BY <2>1, <2>4 DEF Good
<1>2. P = Natives
  <2>1. P \in SUBSET Natives
    OBVIOUS
  <2> HIDE DEF P
  <2> QED
    BY <1>1, <2>1, NativeInduction
<1> QED
  BY <1>2

\* There is one for each depth.
LEMMA GoodExists ==
  ASSUME NEW which, Respects(which), NEW d \in Nat
  PROVE  \E f : Good(which, f, d)
<1> DEFINE P == {k \in Nat : \E f : Good(which, f, k)}
<1>1. 0 \in P
  <2>1. \A n \in Natives : ~(Depth[n] < 0)
    BY NativeFacts
  <2>2. Good(which, << >>, 0)
    BY <2>1 DEF Good
  <2> QED
    BY <2>2
<1>2. ASSUME NEW k \in P PROVE k + 1 \in P
  <2>1. PICK f : Good(which, f, k)
    OBVIOUS
  <2>2. PICK g : g = [n \in Natives |-> IF Depth[n] < k THEN f[n] ELSE BodyBy(which, f, n)]
    OBVIOUS
  <2>3. ASSUME NEW n \in Natives, Depth[n] < k + 1 PROVE g[n] = BodyBy(which, g, n)
    <3>1. \A i \in DOMAIN n.of : g[n.of[i]] = f[n.of[i]]
      <4> TAKE i \in DOMAIN n.of
      <4>1. n.of[i] \in Natives /\ Depth[n.of[i]] < Depth[n] /\ Depth[n] \in Nat
        BY NativeFacts
      <4>2. Depth[n.of[i]] \in Nat
        BY <4>1, NativeFacts
      <4>3. Depth[n.of[i]] < k
        BY <2>3, <4>1, <4>2
      <4> QED
        BY <2>2, <4>1, <4>3
    <3>2. BodyBy(which, g, n) = BodyBy(which, f, n)
      BY <3>1 DEF Respects
    <3>3. g[n] = BodyBy(which, f, n)
      BY <2>1, <2>2 DEF Good
    <3> QED
      BY <3>2, <3>3
  <2>4. Good(which, g, k + 1)
    BY <2>3 DEF Good
  <2> QED
    BY <2>4
<1>3. P = Nat
  <2>1. P \in SUBSET Nat
    OBVIOUS
  <2> HIDE DEF P
  <2> QED
    BY <1>1, <1>2, <2>1, Induction
<1> QED
  BY <1>3

\* A function that is as it should be everywhere exists.
LEMMA NativeRecursion ==
  ASSUME NEW which, Respects(which)
  PROVE  \E f : f = [n \in Natives |-> BodyBy(which, f, n)]
<1> DEFINE G(d) == CHOOSE f : Good(which, f, d)
<1>1. \A d \in Nat : Good(which, G(d), d)
  <2> TAKE d \in Nat
  <2>1. \E f : Good(which, f, d)
    BY GoodExists
  <2> QED
    BY <2>1
<1> HIDE DEF G
<1>2. PICK f : f = [n \in Natives |-> G(Depth[n] + 1)[n]]
  OBVIOUS
<1>3. ASSUME NEW n \in Natives PROVE f[n] = BodyBy(which, f, n)
  <2>1. PICK d \in Nat : d = Depth[n] + 1 /\ Depth[n] < d
    <3>1. Depth[n] \in Nat
      BY NativeFacts
    <3>2. Depth[n] + 1 \in Nat /\ Depth[n] < Depth[n] + 1
      BY <3>1
    <3> QED
      BY <3>2
  <2>2. PICK g : g = G(d) /\ Good(which, g, d)
    BY <1>1
  <2>3. f[n] = BodyBy(which, g, n)
    BY <1>2, <2>1, <2>2 DEF Good
  <2>4. \A i \in DOMAIN n.of : f[n.of[i]] = g[n.of[i]]
    <3> TAKE i \in DOMAIN n.of
    <3>1. PICK m \in Natives : m = n.of[i] /\ Depth[m] < Depth[n]
      BY NativeFacts
    <3>2. PICK c \in Nat : c = Depth[m] + 1 /\ Depth[m] < c
      <4>1. Depth[m] \in Nat
        BY NativeFacts
      <4>2. Depth[m] + 1 \in Nat /\ Depth[m] < Depth[m] + 1
        BY <4>1
      <4> QED
        BY <4>2
    <3>3. c <= d
      BY <2>1, <3>1, <3>2, NativeFacts
    <3>4. PICK h : h = G(c) /\ Good(which, h, c)
      BY <1>1
    <3>5. Good(which, g, c)
      <4>1. \A l \in Natives : Depth[l] < c => Depth[l] < d
        BY <3>3, NativeFacts
      <4> QED
        BY <2>2, <4>1 DEF Good
    <3>6. h[m] = g[m]
      BY <3>2, <3>4, <3>5, GoodAreSame
    <3> QED
      BY <1>2, <3>1, <3>2, <3>4, <3>6
  <2>5. BodyBy(which, f, n) = BodyBy(which, g, n)
    BY <2>4 DEF Respects
  <2> QED
    BY <2>3, <2>5
<1>4. f = [n \in Natives |-> BodyBy(which, f, n)]
  BY <1>2, <1>3
<1> QED
  BY <1>4

\* The ARC4 type of a native type is made of those of its items.
LEMMA Arc4TypeDef ==
  \A n \in Natives : Arc4Type[n] = TypeOf(n, [i \in DOMAIN n.of |-> Arc4Type[n.of[i]]])
<1> DEFINE Is(f) == f = [n \in Natives |-> TypeBody(f, n)]
<1>1. Respects("type")
  <2>1. SUFFICES ASSUME NEW n \in Natives, NEW g, NEW h,
                        \A i \in DOMAIN n.of : g[n.of[i]] = h[n.of[i]]
                 PROVE  BodyBy("type", g, n) = BodyBy("type", h, n)
    BY DEF Respects
  <2>2. [i \in DOMAIN n.of |-> g[n.of[i]]] = [i \in DOMAIN n.of |-> h[n.of[i]]]
    BY <2>1
  <2>3. TypeBody(g, n) = TypeBody(h, n)
    BY <2>2 DEF TypeBody
  <2> QED
    BY <2>3 DEF BodyBy
<1>2. PICK f : f = [n \in Natives |-> BodyBy("type", f, n)]
  BY <1>1, NativeRecursion
<1>3. Is(f)
  <2>1. \A n : BodyBy("type", f, n) = TypeBody(f, n)
    BY DEF BodyBy
  <2> QED
    BY <1>2, <2>1
<1>4. Is(CHOOSE u : Is(u))
  <2> HIDE DEF Is
  <2> QED
    BY <1>3
<1>5. Is(Arc4Type)
  BY <1>4 DEF Arc4Type, TypeBody
<1> QED
  BY <1>5 DEF TypeBody

\* The ARC4 types of the leaves.
LEMMA LeafTypes ==
  \A n \in Natives :
    /\ n.kind = "bool" => Arc4Type[n].kind = "bool"
    /\ n.kind = "UInt64" => Arc4Type[n].kind = "uint" /\ Arc4Type[n].size = WordBytes
    /\ n.kind = "BigUInt" => Arc4Type[n].kind = "uint" /\ Arc4Type[n].size = BigBytes
    /\ n.kind = "String" => Arc4Type[n].kind = "string"
    /\ n.kind = "Bytes" => Arc4Type[n].kind = "dynamic" /\ Arc4Type[n].of = <<ByteT>>
    /\ n.kind = "FixedBytes" =>
         Arc4Type[n].kind = "static" /\ Arc4Type[n].size = n.size /\ Arc4Type[n].of = <<ByteT>>
<1> TAKE n \in Natives
<1>1. PICK of : Arc4Type[n] = TypeOf(n, of)
  BY Arc4TypeDef
<1>2. ASSUME n.kind = "bool" PROVE Arc4Type[n] = BoolT
  BY <1>1, <1>2 DEF TypeOf
<1>3. ASSUME n.kind = "UInt64" PROVE Arc4Type[n] = UIntT(WordBytes)
  BY <1>1, <1>3 DEF TypeOf
<1>4. ASSUME n.kind = "BigUInt" PROVE Arc4Type[n] = UIntT(BigBytes)
  BY <1>1, <1>4 DEF TypeOf
<1>5. ASSUME n.kind = "String" PROVE Arc4Type[n] = StringT
  BY <1>1, <1>5 DEF TypeOf
<1>6. ASSUME n.kind = "Bytes" PROVE Arc4Type[n] = DynamicT(ByteT)
  BY <1>1, <1>6 DEF TypeOf
<1>7. ASSUME n.kind = "FixedBytes" PROVE Arc4Type[n] = StaticT(ByteT, n.size)
  BY <1>1, <1>7 DEF TypeOf
<1>8. /\ BoolT.kind = "bool" /\ StringT.kind = "string"
      /\ \A size : UIntT(size).kind = "uint" /\ UIntT(size).size = size
  BY DEF BoolT, StringT, UIntT, Simple
<1>9. /\ DynamicT(ByteT).kind = "dynamic" /\ DynamicT(ByteT).of = <<ByteT>>
      /\ \A size : /\ StaticT(ByteT, size).kind = "static" /\ StaticT(ByteT, size).size = size
                   /\ StaticT(ByteT, size).of = <<ByteT>>
  BY DEF DynamicT, StaticT
<1> QED
  BY <1>2, <1>3, <1>4, <1>5, <1>6, <1>7, <1>8, <1>9

\* The ARC4 types of what has items.
LEMMA CompositeTypes ==
  ASSUME NEW n \in Natives, n.kind \in Composite
  PROVE  /\ Arc4Type[n].kind \in Arrays \cup Tuples /\ Arc4Type[n].kind \notin Leaves
         /\ n.kind \in {"tuple", "Struct"} =>
              /\ Arc4Type[n].kind \in Tuples
              /\ Arc4Type[n].of = [i \in DOMAIN n.of |-> Arc4Type[n.of[i]]]
         /\ n.kind \notin {"tuple", "Struct"} =>
              Arc4Type[n].kind \in Arrays /\ Arc4Type[n].of[1] = Arc4Type[n.of[1]]
<1>1. PICK of : of = [i \in DOMAIN n.of |-> Arc4Type[n.of[i]]]
  OBVIOUS
<1>2. Arc4Type[n] = TypeOf(n, of)
  BY <1>1, Arc4TypeDef
<1>3. CASE n.kind \in {"Array", "ImmutableArray"}
  <2>1. Arc4Type[n] = DynamicT(of[1])
    BY <1>2, <1>3 DEF TypeOf
  <2>2. Arc4Type[n].kind = "dynamic" /\ Arc4Type[n].of[1] = of[1]
    BY <2>1 DEF DynamicT
  <2>3. of[1] = Arc4Type[n.of[1]]
    BY <1>1, <1>3, NativeFacts DEF Composite
  <2> QED
    BY <1>3, <2>2, <2>3 DEF Arrays, Leaves
<1>4. CASE n.kind \in {"FixedArray", "ImmutableFixedArray"}
  <2>1. Arc4Type[n] = StaticT(of[1], n.size)
    BY <1>2, <1>4 DEF TypeOf
  <2>2. Arc4Type[n].kind = "static" /\ Arc4Type[n].of[1] = of[1]
    BY <2>1 DEF StaticT
  <2>3. of[1] = Arc4Type[n.of[1]]
    BY <1>1, <1>4, NativeFacts DEF Composite
  <2> QED
    BY <1>4, <2>2, <2>3 DEF Arrays, Leaves
<1>5. CASE n.kind = "Struct"
  <2>1. Arc4Type[n] = StructT(of)
    BY <1>2, <1>5 DEF TypeOf
  <2> QED
    BY <1>1, <1>5, <2>1 DEF StructT, Tuples, Leaves
<1>6. CASE n.kind = "tuple"
  <2>1. Arc4Type[n] = TupleT(of)
    BY <1>2, <1>6 DEF TypeOf
  <2> QED
    BY <1>1, <1>6, <2>1 DEF TupleT, Tuples, Leaves
<1> QED
  BY <1>3, <1>4, <1>5, <1>6 DEF Composite

\* The native types of items have the ARC4 types of the items.
LEMMA ElementFacts ==
  ASSUME NEW n \in Natives, n.kind \in Composite, NEW m \in Nat,
         Len(ChildTypes(Arc4Type[n], m)) = m
  PROVE  \A i \in 1..m : /\ \E j \in DOMAIN n.of : Elements(n, m)[i] = n.of[j]
                         /\ Elements(n, m)[i] \in Natives
                         /\ Arc4Type[Elements(n, m)[i]] = ChildTypes(Arc4Type[n], m)[i]
<1> TAKE i \in 1..m
<1>1. PICK t \in Types : t = Arc4Type[n]
  BY NativeFacts
<1>2. n.of \in Seq(Natives) /\ \A j \in DOMAIN n.of : n.of[j] \in Natives
  BY NativeFacts
<1>3. CASE n.kind \in {"tuple", "Struct"}
  <2>1. t.kind \in Tuples /\ t.of = [j \in DOMAIN n.of |-> Arc4Type[n.of[j]]]
    BY <1>1, <1>3, CompositeTypes
  <2>2. ChildTypes(t, m) = t.of
    BY <1>1, <2>1, ChildFacts DEF Tuples, Arrays
  <2>3. i \in DOMAIN t.of
    <3>1. t.of \in Seq(Types) /\ Len(t.of) = m
      BY <1>1, <2>2, TypeFacts
    <3> QED
      BY <3>1
  <2>4. i \in DOMAIN n.of /\ Elements(n, m)[i] = n.of[i]
    BY <1>3, <2>1, <2>3 DEF Elements
  <2> QED
    BY <1>1, <1>2, <2>1, <2>2, <2>4
<1>4. CASE n.kind \notin {"tuple", "Struct"}
  <2>1. t.kind \in Arrays /\ t.of[1] = Arc4Type[n.of[1]]
    BY <1>1, <1>4, CompositeTypes
  <2>2. 1 \in DOMAIN n.of
    BY <1>4, NativeFacts
  <2>3. Elements(n, m)[i] = n.of[1]
    BY <1>4 DEF Elements
  <2>4. ChildTypes(t, m)[i] = t.of[1]
    BY <1>1, <2>1, ChildFacts
  <2> QED
    BY <1>1, <1>2, <2>1, <2>2, <2>3, <2>4
<1> QED
  BY <1>3, <1>4

\* The items of a value.
LEMMA ElementsOfValue ==
  ASSUME NEW n \in Natives, n.kind \in Composite, NEW v \in Values[Arc4Type[n]]
  PROVE  /\ Len(v) \in Nat /\ DOMAIN v = 1..Len(v)
         /\ \A i \in 1..Len(v) : /\ \E j \in DOMAIN n.of : Elements(n, Len(v))[i] = n.of[j]
                                 /\ Elements(n, Len(v))[i] \in Natives
                                 /\ Arc4Type[Elements(n, Len(v))[i]] = TypesIn(Arc4Type[n], v)[i]
                                 /\ v[i] \in Values[Arc4Type[Elements(n, Len(v))[i]]]
<1>1. PICK t \in Types : t = Arc4Type[n]
  BY NativeFacts
<1>2. t.kind \notin Leaves /\ v \in Values[t]
  BY <1>1, CompositeTypes
<1>3. PICK m \in Nat : m = Len(v)
  BY <1>2, ValueFacts
<1>4. DOMAIN v = 1..m /\ Len(ChildTypes(t, m)) = m
  BY <1>2, <1>3, ValueFacts
<1>5. \A i \in 1..m : v[i] \in Values[ChildTypes(t, m)[i]]
  BY <1>2, <1>3, ValueFacts
<1>6. \A i \in 1..m : /\ \E j \in DOMAIN n.of : Elements(n, m)[i] = n.of[j]
                      /\ Elements(n, m)[i] \in Natives
                      /\ Arc4Type[Elements(n, m)[i]] = ChildTypes(t, m)[i]
  BY <1>1, <1>4, ElementFacts
<1> QED
  BY <1>1, <1>3, <1>4, <1>5, <1>6 DEF TypesIn

-----------------------------------------------------------------------------
(* Types that are compared as the same: those of a struct and of a tuple.  *)

\* Each type of one sequence is compared as the same as that of the other.
Match(ts, us) ==
  /\ ts \in Seq(Types) /\ us \in Seq(Types) /\ Len(us) = Len(ts)
  /\ \A i \in 1..Len(ts) : SameType[ts[i]][us[i]]

\* Such types are of the same kind, but for structs and tuples.
LEMMA SameKinds ==
  ASSUME NEW s \in Types, NEW t \in Types, SameType[s][t]
  PROVE  /\ s.kind \in Tuples <=> t.kind \in Tuples
         /\ s.kind \notin Tuples => s.kind = t.kind
         /\ s.size = t.size /\ Len(s.of) = Len(t.of)
         /\ \A i \in DOMAIN s.of : i \in DOMAIN t.of /\ SameType[s.of[i]][t.of[i]]
<1>1. /\ Named(s) = Named(t) /\ s.size = t.size /\ Len(s.of) = Len(t.of)
      /\ \A i \in DOMAIN s.of : SameType[s.of[i]][t.of[i]]
  BY SameTypeDef
<1>2. s.of \in Seq(Types) /\ t.of \in Seq(Types)
  BY TypeFacts
<1>3. DOMAIN s.of = DOMAIN t.of
  BY <1>1, <1>2
<1>4. /\ s.kind \in Tuples <=> t.kind \in Tuples
      /\ s.kind \notin Tuples => s.kind = t.kind
  BY <1>1 DEF Named, Tuples
<1> QED
  BY <1>1, <1>3, <1>4

\* What depends on the kind is the same.
LEMMA SameByKind ==
  ASSUME NEW s \in Types, NEW t \in Types, SameType[s][t]
  PROVE  /\ \A kind \in Leaves \cup Arrays : s.kind = kind <=> t.kind = kind
         /\ s.kind \in Leaves <=> t.kind \in Leaves
         /\ s.kind \in Arrays <=> t.kind \in Arrays
<1>1. /\ s.kind \in Tuples <=> t.kind \in Tuples
      /\ s.kind \notin Tuples => s.kind = t.kind
  BY SameKinds
<1> QED
  BY <1>1 DEF Leaves, Arrays, Tuples

\* One is dynamic when the other is.
LEMMA SameDynamic ==
  \A s \in Types : \A t \in Types : SameType[s][t] => IsDynamic[s] = IsDynamic[t]
<1> DEFINE P == {s \in Types : \A t \in Types : SameType[s][t] => IsDynamic[s] = IsDynamic[t]}
<1>1. ASSUME NEW s \in Types, \A i \in DOMAIN s.of : s.of[i] \in P PROVE s \in P
  <2>1. SUFFICES ASSUME NEW t \in Types, SameType[s][t] PROVE IsDynamic[s] = IsDynamic[t]
    OBVIOUS
  <2>2. s.kind \in {"string", "dynamic"} <=> t.kind \in {"string", "dynamic"}
    BY <2>1, SameByKind DEF Leaves, Arrays
  <2>3. \A i \in DOMAIN s.of : IsDynamic[s.of[i]] = IsDynamic[t.of[i]]
    <3> TAKE i \in DOMAIN s.of
    <3>1. i \in DOMAIN t.of /\ SameType[s.of[i]][t.of[i]]
      BY <2>1, SameKinds
    <3>2. t.of[i] \in Types
      BY <3>1, TypeFacts
    <3> QED
      BY <1>1, <3>1, <3>2
  <2>4. DOMAIN s.of = DOMAIN t.of
    <3>1. Len(s.of) = Len(t.of)
      BY <2>1, SameKinds
    <3>2. s.of \in Seq(Types) /\ t.of \in Seq(Types)
      BY TypeFacts
    <3> QED
      BY <3>1, <3>2
  <2>5. /\ IsDynamic[s] \in BOOLEAN /\ IsDynamic[t] \in BOOLEAN
        /\ IsDynamic[s] <=> \/ s.kind \in {"string", "dynamic"}
                            \/ \E i \in DOMAIN s.of : IsDynamic[s.of[i]]
        /\ IsDynamic[t] <=> \/ t.kind \in {"string", "dynamic"}
                            \/ \E i \in DOMAIN t.of : IsDynamic[t.of[i]]
    BY DynamicDef
  <2>6. IsDynamic[s] <=> IsDynamic[t]
    BY <2>2, <2>3, <2>4, <2>5, Zenon
  <2> QED
    BY <2>5, <2>6
<1>2. P = Types
  <2>1. P \in SUBSET Types
    OBVIOUS
  <2> HIDE DEF P
  <2> QED
    BY <1>1, <2>1, TypeInduction
<1> QED
  BY <1>2

\* Types that match are bools, strings or dynamic together.
LEMMA MatchFacts ==
  ASSUME NEW ts, NEW us, Match(ts, us)
  PROVE  \A i \in 1..Len(ts) :
           /\ ts[i] \in Types /\ us[i] \in Types /\ SameType[ts[i]][us[i]]
           /\ ts[i].kind = "bool" <=> us[i].kind = "bool"
           /\ ts[i].kind = "string" <=> us[i].kind = "string"
           /\ IsDynamic[ts[i]] = IsDynamic[us[i]]
<1> TAKE i \in 1..Len(ts)
<1>1. ts[i] \in Types /\ us[i] \in Types /\ SameType[ts[i]][us[i]]
  <2>1. ts \in Seq(Types) /\ us \in Seq(Types) /\ Len(us) = Len(ts) /\ SameType[ts[i]][us[i]]
    BY DEF Match
  <2> QED
    BY <2>1
<1>2. /\ ts[i].kind = "bool" <=> us[i].kind = "bool"
      /\ ts[i].kind = "string" <=> us[i].kind = "string"
  BY <1>1, SameByKind DEF Leaves
<1> QED
  BY <1>1, <1>2, SameDynamic

\* The types of the items match.
LEMMA ItemsMatch ==
  ASSUME NEW s \in Types, NEW t \in Types, SameType[s][t], NEW n \in Nat
  PROVE  Match(ChildTypes(s, n), ChildTypes(t, n))
<1>1. PICK ts \in Seq(Types) : ts = ChildTypes(s, n)
  BY ChildFacts
<1>2. PICK us \in Seq(Types) : us = ChildTypes(t, n)
  BY ChildFacts
<1>3. s.kind \in Arrays <=> t.kind \in Arrays
  BY SameByKind
<1>4. Len(s.of) = Len(t.of) /\ \A i \in DOMAIN s.of : SameType[s.of[i]][t.of[i]]
  BY SameKinds
<1>5. CASE s.kind \in Arrays
  <2>1. 1 \in DOMAIN s.of
    BY <1>5, TypeFacts
  <2>2. SameType[s.of[1]][t.of[1]]
    BY <1>4, <2>1
  <2>3. Len(ts) = n /\ Len(us) = n
    BY <1>1, <1>2, <1>3, <1>5, ChildFacts
  <2>4. \A i \in 1..n : ts[i] = s.of[1] /\ us[i] = t.of[1]
    BY <1>1, <1>2, <1>3, <1>5, ChildFacts
  <2> QED
    BY <1>1, <1>2, <2>2, <2>3, <2>4 DEF Match
<1>6. CASE s.kind \notin Arrays
  <2>1. ts = s.of /\ us = t.of
    BY <1>1, <1>2, <1>3, <1>6, ChildFacts
  <2>2. \A i \in 1..Len(ts) : SameType[ts[i]][us[i]]
    BY <1>4, <2>1
  <2> QED
    BY <1>1, <1>2, <1>4, <2>1, <2>2 DEF Match
<1> QED
  BY <1>5, <1>6

\* Runs of bools are the same.
LEMMA SameRuns ==
  ASSUME NEW ts, NEW us, Match(ts, us), NEW i \in 1..Len(ts), NEW homogeneous \in BOOLEAN
  PROVE  /\ \A delta \in {-1, 1} :
              BoolsFrom(ts, i, delta, homogeneous) = BoolsFrom(us, i, delta, homogeneous)
         /\ RunStart(ts, i) = RunStart(us, i)
<1>1. Len(us) = Len(ts) /\ Len(ts) \in Nat /\ ts \in Seq(Types)
  BY DEF Match
<1>2. \A k \in 1..Len(ts) : ts[k].kind = "bool" <=> us[k].kind = "bool"
  BY MatchFacts
<1>3. ASSUME NEW delta \in {-1, 1}
      PROVE  BoolsFrom(ts, i, delta, homogeneous) = BoolsFrom(us, i, delta, homogeneous)
  <2>1. {n \in 0..Len(ts) : \A k \in 0..n :
              i + delta * k \in 1..Len(ts) /\ ts[i + delta * k].kind = "bool"}
        = {n \in 0..Len(us) : \A k \in 0..n :
              i + delta * k \in 1..Len(us) /\ us[i + delta * k].kind = "bool"}
    BY <1>1, <1>2, Zenon
  <2> QED
    BY <1>1, <2>1 DEF BoolsFrom
<1>4. RunStart(ts, i) = RunStart(us, i)
  <2>1. \A s \in 1..i : \A k \in s..i : k \in 1..Len(ts)
    BY <1>1
  <2>2. {s \in 1..i : \A k \in s..i : ts[k].kind = "bool"}
        = {s \in 1..i : \A k \in s..i : us[k].kind = "bool"}
    BY <1>2, <2>1, Zenon
  <2> QED
    BY <2>2 DEF RunStart
<1> QED
  BY <1>3, <1>4

\* Heads are at the same places when the sizes of the types are the same.
LEMMA SameHeads ==
  ASSUME NEW ts, NEW us, Match(ts, us), \A i \in 1..Len(ts) : Size[ts[i]] = Size[us[i]]
  PROVE  \A i \in 1..(Len(ts) + 1) : HeadAt(ts, i) = HeadAt(us, i)
<1>1. ts \in Seq(Types) /\ us \in Seq(Types) /\ Len(us) = Len(ts) /\ Len(ts) \in Nat
  BY DEF Match
<1>2. ASSUME NEW i \in 1..Len(ts) PROVE Cost(Size, ts, i) = Cost(Size, us, i)
  <2>1. /\ ts[i].kind = "bool" <=> us[i].kind = "bool"
        /\ IsDynamic[ts[i]] = IsDynamic[us[i]]
    BY MatchFacts
  <2>2. RunStart(ts, i) = RunStart(us, i)
    BY SameRuns
  <2>3. Size[ts[i]] = Size[us[i]]
    OBVIOUS
  <2> QED
    BY <2>1, <2>2, <2>3 DEF Cost
<1>3. /\ HeadAt(ts, 1) = 0 /\ HeadAt(us, 1) = 0
      /\ \A i \in 1..Len(ts) : HeadAt(ts, i + 1) = HeadAt(ts, i) + Cost(Size, ts, i)
      /\ \A i \in 1..Len(ts) : HeadAt(us, i + 1) = HeadAt(us, i) + Cost(Size, us, i)
  BY <1>1, HeadAtFacts
<1> DEFINE P == {n \in Nat : n <= Len(ts) => HeadAt(ts, n + 1) = HeadAt(us, n + 1)}
<1>4. 0 \in P
  BY <1>3
<1>5. ASSUME NEW n \in P PROVE n + 1 \in P
  <2>1. SUFFICES ASSUME n + 1 <= Len(ts) PROVE HeadAt(ts, (n + 1) + 1) = HeadAt(us, (n + 1) + 1)
    OBVIOUS
  <2>2. PICK i \in 1..Len(ts) : i = n + 1
    BY <1>1, <2>1
  <2>3. n \in Nat /\ n <= Len(ts)
    BY <1>1, <2>1
  <2>4. HeadAt(ts, i) = HeadAt(us, i)
    BY <2>2, <2>3
  <2>5. HeadAt(ts, i + 1) = HeadAt(us, i + 1)
    BY <1>2, <1>3, <2>4
  <2> QED
    BY <2>2, <2>5
<1>6. P = Nat
  <2>1. P \in SUBSET Nat
    OBVIOUS
  <2> HIDE DEF P
  <2> QED
    BY <1>4, <1>5, <2>1, Induction
<1> QED
  <2> TAKE i \in 1..(Len(ts) + 1)
  <2>1. PICK n \in Nat : i = n + 1 /\ n <= Len(ts)
    <3>1. i - 1 \in Nat /\ i = (i - 1) + 1 /\ i - 1 <= Len(ts)
      BY <1>1
    <3> QED
      BY <3>1
  <2>2. n \in P
    BY <1>6
  <2> QED
    BY <2>1, <2>2

\* Such types are of the same size.
LEMMA SameSizes ==
  \A s \in Types : \A t \in Types : SameType[s][t] => Size[s] = Size[t]
<1> DEFINE P == {s \in Types : \A t \in Types : SameType[s][t] => Size[s] = Size[t]}
<1>1. ASSUME NEW s \in Types, \A i \in DOMAIN s.of : s.of[i] \in P PROVE s \in P
  <2>1. SUFFICES ASSUME NEW t \in Types, SameType[s][t] PROVE Size[s] = Size[t]
    OBVIOUS
  <2>2. s.kind \in Leaves <=> t.kind \in Leaves
    BY <2>1, SameByKind
  <2>3. PICK n \in Nat : n = s.size /\ n = t.size
    BY <2>1, SameKinds, TypeFacts
  <2>4. CASE s.kind \in Leaves
    BY <2>2, <2>3, <2>4, SizeDef
  <2>5. CASE s.kind \notin Leaves
    <3>1. PICK ts : ts = ChildTypes(s, n)
      OBVIOUS
    <3>2. PICK us : us = ChildTypes(t, n)
      OBVIOUS
    <3>3. Match(ts, us)
      BY <2>1, <3>1, <3>2, ItemsMatch
    <3>4. Len(us) = Len(ts) /\ Len(ts) \in Nat /\ ts \in Seq(Types)
      BY <3>3 DEF Match
    <3>5. \A i \in 1..Len(ts) : Size[ts[i]] = Size[us[i]]
      <4> TAKE i \in 1..Len(ts)
      <4>1. us[i] \in Types /\ SameType[ts[i]][us[i]]
        BY <3>3, MatchFacts
      <4>2. PICK j \in DOMAIN s.of : ts[i] = s.of[j]
        <5>1. i \in DOMAIN ts
          BY <3>4
        <5> QED
          BY <3>1, <5>1, ChildFacts
      <4> QED
        BY <1>1, <4>1, <4>2
    <3>6. PICK m \in 1..(Len(ts) + 1) : m = Len(ts) + 1
      BY <3>4
    <3>7. HeadAt(ts, m) = HeadAt(us, m)
      BY <3>3, <3>5, SameHeads
    <3> QED
      BY <2>2, <2>3, <2>5, <3>1, <3>2, <3>4, <3>6, <3>7, SizeDef
  <2> QED
    BY <2>4, <2>5
<1>2. P = Types
  <2>1. P \in SUBSET Types
    OBVIOUS
  <2> HIDE DEF P
  <2> QED
    BY <1>1, <2>1, TypeInduction
<1> QED
  BY <1>2

\* Both sequences end in an item of no size, or neither.
LEMMA SameEnd ==
  ASSUME NEW ts, NEW us, Match(ts, us)
  PROVE  EndsEmpty(ts) <=> EndsEmpty(us)
<1>1. ts \in Seq(Types) /\ us \in Seq(Types) /\ Len(us) = Len(ts) /\ Len(ts) \in Nat
  BY DEF Match
<1>2. CASE Len(ts) > 1
  <2>1. PICK n \in 1..Len(ts) : n = Len(ts)
    BY <1>1, <1>2
  <2>2. Last(ts) = ts[n] /\ Last(us) = us[n]
    BY <1>1, <2>1 DEF Last
  <2>3. /\ ts[n] \in Types /\ us[n] \in Types /\ SameType[ts[n]][us[n]]
        /\ ts[n].kind = "bool" <=> us[n].kind = "bool"
        /\ IsDynamic[ts[n]] = IsDynamic[us[n]]
    BY MatchFacts
  <2>4. Size[ts[n]] = Size[us[n]]
    BY <2>3, SameSizes
  <2>5. ~IsDynamic[ts[n]] => StaticLength[ts[n]] = StaticLength[us[n]]
    <3>1. CASE ts[n].kind = "bool"
      BY <2>3, <3>1, StaticLengthDef
    <3>2. CASE ts[n].kind # "bool"
      BY <2>3, <2>4, <3>2, StaticLengthIsSize
    <3> QED
      BY <3>1, <3>2
  <2> QED
    BY <1>1, <1>2, <2>2, <2>3, <2>5 DEF EndsEmpty
<1>3. CASE ~(Len(ts) > 1)
  BY <1>1, <1>3 DEF EndsEmpty
<1> QED
  BY <1>2, <1>3

\* One can be read when the other can.
LEMMA SameReadable ==
  \A s \in Types : \A t \in Types : SameType[s][t] => Readable[s] = Readable[t]
<1> DEFINE P == {s \in Types : \A t \in Types : SameType[s][t] => Readable[s] = Readable[t]}
<1>1. ASSUME NEW s \in Types, \A i \in DOMAIN s.of : s.of[i] \in P PROVE s \in P
  <2>1. SUFFICES ASSUME NEW t \in Types, SameType[s][t] PROVE Readable[s] = Readable[t]
    OBVIOUS
  <2>2. \A i \in DOMAIN s.of : Readable[s.of[i]] = Readable[t.of[i]]
    <3> TAKE i \in DOMAIN s.of
    <3>1. i \in DOMAIN t.of /\ SameType[s.of[i]][t.of[i]]
      BY <2>1, SameKinds
    <3>2. t.of[i] \in Types
      BY <3>1, TypeFacts
    <3> QED
      BY <1>1, <3>1, <3>2
  <2>3. DOMAIN s.of = DOMAIN t.of
    <3>1. Len(s.of) = Len(t.of)
      BY <2>1, SameKinds
    <3>2. s.of \in Seq(Types) /\ t.of \in Seq(Types)
      BY TypeFacts
    <3> QED
      BY <3>1, <3>2
  <2>4. s.size \in Nat /\ s.size = t.size /\ (s.kind = "dynamic" <=> t.kind = "dynamic")
    BY <2>1, SameKinds, SameByKind, TypeFacts DEF Arrays
  <2>5. PICK n \in Nat : /\ n = (IF s.kind = "dynamic" THEN 2 ELSE s.size)
                         /\ n = (IF t.kind = "dynamic" THEN 2 ELSE t.size)
    <3>1. 2 \in Nat
      OBVIOUS
    <3> QED
      BY <2>4, <3>1
  <2>6. EndsEmpty(ChildTypes(s, n)) <=> EndsEmpty(ChildTypes(t, n))
    BY <2>1, ItemsMatch, SameEnd
  <2>7. /\ Readable[s] \in BOOLEAN /\ Readable[t] \in BOOLEAN
        /\ Readable[s] <=> /\ ~EndsEmpty(ChildTypes(s, n))
                           /\ \A i \in DOMAIN s.of : Readable[s.of[i]]
        /\ Readable[t] <=> /\ ~EndsEmpty(ChildTypes(t, n))
                           /\ \A i \in DOMAIN t.of : Readable[t.of[i]]
    BY <2>5, ReadableDef
  <2>8. Readable[s] <=> Readable[t]
    BY <2>2, <2>3, <2>6, <2>7, Zenon
  <2> QED
    BY <2>7, <2>8
<1>2. P = Types
  <2>1. P \in SUBSET Types
    OBVIOUS
  <2> HIDE DEF P
  <2> QED
    BY <1>1, <2>1, TypeInduction
<1> QED
  BY <1>2

-----------------------------------------------------------------------------
(* The bytes of a value do not depend on which of such types it has.       *)

\* Items are encoded anew in the same way by either type.
Alternate(ts, us, bs) ==
  /\ Match(ts, us) /\ Encodable(Reencode, ts, bs)
  /\ \A i \in 1..Len(ts) : IsDynamic[ts[i]] /\ ts[i].kind # "string" =>
       Reencode[ts[i]][bs[i]] = Reencode[us[i]][bs[i]]

\* Then so are they by the others.
LEMMA AlternateFacts ==
  ASSUME NEW ts, NEW us, NEW bs, Alternate(ts, us, bs)
  PROVE  /\ ts \in Seq(Types) /\ us \in Seq(Types) /\ Len(us) = Len(ts) /\ Len(ts) \in Nat
         /\ bs \in Seq(Seq(Byte)) /\ Len(bs) = Len(ts)
         /\ Encodable(Reencode, us, bs)
<1>1. ts \in Seq(Types) /\ us \in Seq(Types) /\ Len(us) = Len(ts) /\ Len(ts) \in Nat
  BY DEF Alternate, Match
<1>2. bs \in Seq(Seq(Byte)) /\ Len(bs) = Len(ts)
  BY DEF Alternate, Encodable
<1>3. ASSUME NEW i \in 1..Len(us), IsDynamic[us[i]], us[i].kind # "string"
      PROVE  Reencode[us[i]][bs[i]] \in Bytes
  <2>1. i \in 1..Len(ts)
    BY <1>1
  <2>2. IsDynamic[ts[i]] /\ ts[i].kind # "string"
    BY <1>3, <2>1, MatchFacts DEF Alternate
  <2>3. Reencode[ts[i]][bs[i]] \in Bytes
    BY <2>1, <2>2 DEF Alternate, Encodable
  <2>4. Reencode[ts[i]][bs[i]] = Reencode[us[i]][bs[i]]
    BY <2>1, <2>2 DEF Alternate
  <2> QED
    BY <2>3, <2>4
<1> QED
  BY <1>1, <1>2, <1>3 DEF Encodable

\* The parts from an item on are the same by either.
LEMMA AlternateStep ==
  ASSUME NEW ts, NEW us, NEW bs, Alternate(ts, us, bs),
         NEW homogeneous \in BOOLEAN, NEW i \in 1..(Len(ts) + 1), NEW f, NEW g,
         \A j \in 1..(Len(ts) + 1) : j > i => f[j] = g[j]
  PROVE  PartStep(Reencode, homogeneous, ts, bs, f, i)
           = PartStep(Reencode, homogeneous, us, bs, g, i)
<1>0. ts \in Seq(Types) /\ Len(bs) = Len(ts) /\ Len(us) = Len(ts) /\ Len(ts) \in Nat
  BY AlternateFacts
<1>1. CASE i > Len(ts)
  BY <1>0, <1>1 DEF PartStep
<1>2. CASE ~(i > Len(ts))
  <2>1. i \in 1..Len(ts)
    BY <1>0, <1>2
  <2>2. f[i + 1] = g[i + 1]
    <3>1. i + 1 \in 1..(Len(ts) + 1) /\ i + 1 > i
      BY <1>0, <2>1
    <3> QED
      BY <3>1
  <2>3. /\ ts[i].kind = "bool" <=> us[i].kind = "bool"
        /\ ts[i].kind = "string" <=> us[i].kind = "string"
        /\ IsDynamic[ts[i]] = IsDynamic[us[i]]
    BY <2>1, MatchFacts DEF Alternate
  <2>4. /\ BoolsFrom(ts, i, 1, homogeneous) = BoolsFrom(us, i, 1, homogeneous)
        /\ BoolsFrom(ts, i, -1, homogeneous) = BoolsFrom(us, i, -1, homogeneous)
    BY <2>1, SameRuns DEF Alternate
  <2>5. PICK n : n = InByte(ts, i, homogeneous) /\ n = InByte(us, i, homogeneous)
    BY <2>4 DEF InByte
  <2>6. ts[i].kind = "bool" => f[i + n + 1] = g[i + n + 1]
    <3> SUFFICES ASSUME ts[i].kind = "bool" PROVE f[i + n + 1] = g[i + n + 1]
      OBVIOUS
    <3>1. n \in 0..(Len(ts) - i)
      BY <1>0, <2>1, <2>5, InByteFacts
    <3>2. i + n + 1 \in 1..(Len(ts) + 1) /\ i + n + 1 > i
      BY <1>0, <2>1, <3>1
    <3> QED
      BY <3>2
  <2>7. IsDynamic[ts[i]] /\ ts[i].kind # "string" =>
          Reencode[ts[i]][bs[i]] = Reencode[us[i]][bs[i]]
    BY <2>1 DEF Alternate
  <2> QED
    BY <1>0, <1>2, <2>2, <2>3, <2>4, <2>5, <2>6, <2>7 DEF PartStep
<1> QED
  BY <1>1, <1>2

\* The parts are the same.
LEMMA AlternateParts ==
  ASSUME NEW ts, NEW us, NEW bs, Alternate(ts, us, bs), NEW homogeneous \in BOOLEAN
  PROVE  Parts(Reencode, homogeneous, ts, bs) = Parts(Reencode, homogeneous, us, bs)
<1>0. /\ ts \in Seq(Types) /\ us \in Seq(Types) /\ Len(us) = Len(ts) /\ Len(ts) \in Nat
      /\ Encodable(Reencode, us, bs) /\ Encodable(Reencode, ts, bs)
  BY AlternateFacts DEF Alternate
<1>2. PICK f : Parted(Reencode, homogeneous, ts, bs, f)
  BY <1>0, PartsFacts
<1>3. PICK g : Parted(Reencode, homogeneous, us, bs, g)
  BY <1>0, PartsFacts
<1> DEFINE S == 1..(Len(ts) + 1)
           rank == [i \in S |-> Len(ts) + 1 - i]
           P == {i \in S : f[i] = g[i]}
<1>4. rank \in [S -> Nat] /\ \A i \in S : rank[i] = Len(ts) + 1 - i
  BY <1>0
<1>5. ASSUME NEW i \in S, \A j \in S : rank[j] < rank[i] => j \in P PROVE i \in P
  <2>1. \A j \in 1..(Len(ts) + 1) : j > i => f[j] = g[j]
    BY <1>0, <1>4, <1>5
  <2>2. PartStep(Reencode, homogeneous, ts, bs, f, i)
          = PartStep(Reencode, homogeneous, us, bs, g, i)
    BY <2>1, AlternateStep
  <2> QED
    BY <1>0, <1>2, <1>3, <2>2 DEF Parted
<1>6. P = S
  <2>1. P \in SUBSET S
    OBVIOUS
  <2>2. \A i \in S : (\A j \in S : rank[j] < rank[i] => j \in P) => i \in P
    BY <1>5
  <2> HIDE DEF P, S, rank
  <2>3. Hereditary(S, rank, P)
    BY <1>4, <2>1, <2>2 DEF Hereditary
  <2> QED
    BY <2>3, RankInduction
<1>7. 1 \in P
  BY <1>0, <1>6
<1> QED
  BY <1>2, <1>3, <1>7 DEF Parted

\* A value that can be read is put together again as it was.
LEMMA MadeAgain ==
  ASSUME NEW t \in Types, t.kind \notin Leaves, NEW v \in Values[t], ~Raises(New[t][v]), Readable[t]
  PROVE  Items(t, New[t][v]) = NewItems(t, v) /\ Reencode[t][New[t][v]] = New[t][v]
<1>1. Found(t, v, New[t][v])
  BY AllIsWell DEF MadeWell, Well
<1>2. ~EndsEmpty(TypesIn(t, v))
  BY ReadableItems
<1>3. Items(t, New[t][v]) = NewItems(t, v)
  BY <1>1, <1>2 DEF Found
<1>4. New[t][v] \in Bytes /\ New[t][v] = Put(t, NewItems(t, v))
  BY NewDef
<1> QED
  BY <1>3, <1>4, ReencodeDef

\* A dynamic type that is not string has items.
LEMMA DynamicHasItems ==
  ASSUME NEW t \in Types, IsDynamic[t], t.kind # "string"
  PROVE  t.kind \notin Leaves
<1>1. t.kind \in Leaves => t.of = << >>
  BY TypeFacts
<1>2. t.kind = "dynamic" \/ \E i \in DOMAIN t.of : IsDynamic[t.of[i]]
  BY DynamicDef
<1> QED
  BY <1>1, <1>2 DEF Leaves

\* Items that were made are put together in the same way by either type.
LEMMA SamePut ==
  ASSUME NEW s \in Types, NEW t \in Types, SameType[s][t], NEW bs,
         Alternate(ChildTypes(s, Len(bs)), ChildTypes(t, Len(bs)), bs)
  PROVE  Put(s, bs) = Put(t, bs)
<1>1. s.kind = "dynamic" <=> t.kind = "dynamic"
  BY SameByKind DEF Arrays
<1>2. PICK h \in BOOLEAN : h = (s.kind \in Arrays) /\ h = (t.kind \in Arrays)
  <2>1. (s.kind \in Arrays) \in BOOLEAN
    OBVIOUS
  <2>2. s.kind \in Arrays <=> t.kind \in Arrays
    BY SameByKind
  <2>3. (s.kind \in Arrays) = (t.kind \in Arrays)
    BY <2>2
  <2>4. PICK h \in BOOLEAN : h = (s.kind \in Arrays)
    BY <2>1, Zenon
  <2>5. h = (t.kind \in Arrays)
    BY <2>3, <2>4, Zenon
  <2> QED
    BY <2>4, <2>5, Zenon
<1>3. PICK ts : ts = ChildTypes(s, Len(bs))
  OBVIOUS
<1>4. PICK us : us = ChildTypes(t, Len(bs))
  OBVIOUS
<1>5. Parts(Reencode, h, ts, bs) = Parts(Reencode, h, us, bs)
  BY <1>3, <1>4, AlternateParts
<1>6. Encode(Reencode, h, ts, bs) = Encode(Reencode, h, us, bs)
  BY <1>5 DEF Encode
<1>7. Put(s, bs) = OrRaise((IF s.kind = "dynamic" THEN EncodeLength(Len(bs)) ELSE <<>>)
                           \o Encode(Reencode, h, ts, bs))
  BY <1>2, <1>3, Zenon DEF Put, PutBy
<1>8. Put(t, bs) = OrRaise((IF t.kind = "dynamic" THEN EncodeLength(Len(bs)) ELSE <<>>)
                           \o Encode(Reencode, h, us, bs))
  BY <1>2, <1>4, Zenon DEF Put, PutBy
<1> QED
  BY <1>1, <1>6, <1>7, <1>8

\* A value of types that are the same is made the same by them.
SameMade(s) ==
  \A t \in Types : SameType[s][t] /\ Readable[t] =>
    \A v \in Values[s] \cap Values[t] : ~Raises(New[t][v]) => New[s][v] = New[t][v]

\* Leaves are.
LEMMA SameLeaf ==
  ASSUME NEW s \in Types, s.kind \in Leaves
  PROVE  SameMade(s)
<1> SUFFICES ASSUME NEW t \in Types, SameType[s][t], NEW v \in Values[s] \cap Values[t]
             PROVE  New[s][v] = New[t][v]
  BY DEF SameMade
<1>1. s.kind = t.kind /\ s.size = t.size /\ t.kind \in Leaves
  <2>1. s.kind \notin Tuples
    BY DEF Leaves, Tuples
  <2> QED
    BY <2>1, SameKinds
<1>2. NewLeaf(s, v) = NewLeaf(t, v)
  BY <1>1 DEF NewLeaf
<1> QED
  BY <1>1, <1>2, NewDef

\* What has items is, when the items are.
LEMMA SameItems ==
  ASSUME NEW s \in Types, s.kind \notin Leaves, \A j \in DOMAIN s.of : SameMade(s.of[j])
  PROVE  SameMade(s)
<1> SUFFICES ASSUME NEW t \in Types, SameType[s][t], Readable[t],
                    NEW v \in Values[s] \cap Values[t], ~Raises(New[t][v])
             PROVE  New[s][v] = New[t][v]
  BY DEF SameMade
<1>1. v \in Values[s] /\ v \in Values[t] /\ t.kind \notin Leaves
  BY SameByKind
<1>2. PICK n \in Nat : n = Len(v) /\ DOMAIN v = 1..n
  BY <1>1, TypesInFacts
<1>3. PICK ts : ts = TypesIn(s, v)
  OBVIOUS
<1>4. PICK us : us = TypesIn(t, v)
  OBVIOUS
<1>5. Match(ts, us) /\ Len(ts) = n
  BY <1>1, <1>2, <1>3, <1>4, ItemsMatch, TypesInFacts DEF TypesIn
<1>6. PICK bs : bs = NewItems(t, v)
  OBVIOUS
<1>7. bs \in Seq(Seq(Byte)) /\ Len(bs) = n
  BY <1>1, <1>2, <1>6, MadeItems
<1>8. ASSUME NEW i \in 1..n
      PROVE  /\ ts[i] \in Types /\ us[i] \in Types
             /\ v[i] \in Values[ts[i]] /\ v[i] \in Values[us[i]]
             /\ Readable[us[i]] /\ Readable[ts[i]]
             /\ bs[i] = New[us[i]][v[i]] /\ ~Raises(bs[i])
             /\ NewItems(s, v)[i] = bs[i] /\ New[ts[i]][v[i]] = bs[i]
  <2>1. ts[i] \in Types /\ us[i] \in Types /\ SameType[ts[i]][us[i]]
    BY <1>5, MatchFacts
  <2>2. v[i] \in Values[ts[i]] /\ v[i] \in Values[us[i]]
    BY <1>1, <1>2, <1>3, <1>4, TypesInFacts
  <2>3. Readable[us[i]]
    BY <1>1, <1>2, <1>4, ReadableItems
  <2>4. Readable[ts[i]]
    BY <2>1, <2>3, SameReadable
  <2>5. bs[i] = New[us[i]][v[i]]
    BY <1>1, <1>2, <1>4, <1>6, TypesInFacts
  <2>6. ~Raises(bs[i])
    <3>1. bs[i] \in Seq(Byte)
      BY <1>7
    <3> QED
      BY <3>1, RaisesFacts
  <2>7. PICK j \in DOMAIN s.of : ts[i] = s.of[j]
    BY <1>1, <1>2, <1>3, TypesInFacts
  <2>8. SameMade(ts[i])
    BY <2>7
  <2>9. New[ts[i]][v[i]] = bs[i]
    BY <2>1, <2>2, <2>3, <2>5, <2>6, <2>8 DEF SameMade
  <2>10. NewItems(s, v)[i] = New[ts[i]][v[i]]
    BY <1>1, <1>2, <1>3, TypesInFacts
  <2> QED
    BY <2>1, <2>2, <2>3, <2>4, <2>5, <2>6, <2>9, <2>10
<1>9. NewItems(s, v) = bs
  <2>1. NewItems(s, v) \in Seq(Bytes) /\ Len(NewItems(s, v)) = n
    BY <1>1, <1>2, TypesInFacts
  <2>2. bs \in Seq(Bytes)
    BY <1>1, <1>6, MadeItems
  <2>3. \A i \in 1..n : NewItems(s, v)[i] = bs[i]
    BY <1>8
  <2>4. PICK cs : cs = NewItems(s, v) /\ cs \in Seq(Bytes) /\ Len(cs) = n
    BY <2>1
  <2> QED
    BY <1>7, <2>2, <2>3, <2>4
<1>10. ASSUME NEW i \in 1..n, IsDynamic[ts[i]], ts[i].kind # "string"
       PROVE  Reencode[ts[i]][bs[i]] = bs[i] /\ Reencode[us[i]][bs[i]] = bs[i]
  <2>1. /\ ts[i] \in Types /\ us[i] \in Types
        /\ v[i] \in Values[ts[i]] /\ v[i] \in Values[us[i]]
        /\ Readable[us[i]] /\ Readable[ts[i]]
        /\ bs[i] = New[us[i]][v[i]] /\ ~Raises(bs[i]) /\ New[ts[i]][v[i]] = bs[i]
    BY <1>8
  <2>2. IsDynamic[us[i]] /\ us[i].kind # "string"
    BY <1>5, <1>10, MatchFacts
  <2>3. Reencode[us[i]][New[us[i]][v[i]]] = New[us[i]][v[i]]
    BY <2>1, <2>2, DynamicHasItems, MadeAgain
  <2>4. Reencode[ts[i]][New[ts[i]][v[i]]] = New[ts[i]][v[i]]
    BY <1>10, <2>1, DynamicHasItems, MadeAgain
  <2> QED
    BY <2>1, <2>3, <2>4
<1>11. \A i \in 1..n : bs[i] \in Bytes
  <2>1. \A i \in 1..n : bs[i] \in Seq(Byte)
    BY <1>7
  <2> QED
    BY <2>1, RaisesFacts
<1>12. Encodable(Reencode, ts, bs)
  <2>1. ASSUME NEW i \in 1..n, IsDynamic[ts[i]], ts[i].kind # "string"
        PROVE  Reencode[ts[i]][bs[i]] \in Bytes
    BY <1>10, <1>11, <2>1
  <2> QED
    BY <1>5, <1>7, <2>1 DEF Encodable
<1>13. Alternate(ts, us, bs)
  <2>1. \A i \in 1..n : IsDynamic[ts[i]] /\ ts[i].kind # "string" =>
          Reencode[ts[i]][bs[i]] = Reencode[us[i]][bs[i]]
    BY <1>10
  <2> QED
    BY <1>5, <1>12, <2>1 DEF Alternate
<1>14. ts = ChildTypes(s, Len(bs)) /\ us = ChildTypes(t, Len(bs))
  BY <1>2, <1>3, <1>4, <1>7 DEF TypesIn
<1>15. Put(s, bs) = Put(t, bs)
  BY <1>13, <1>14, SamePut
<1> QED
  BY <1>1, <1>6, <1>9, <1>15, NewDef

\* All are.
LEMMA AllMadeSame == \A s \in Types : SameMade(s)
<1> DEFINE P == {s \in Types : SameMade(s)}
<1>1. ASSUME NEW s \in Types, \A i \in DOMAIN s.of : s.of[i] \in P PROVE s \in P
  BY <1>1, SameLeaf, SameItems
<1>2. P = Types
  <2>1. P \in SUBSET Types
    OBVIOUS
  <2> HIDE DEF P
  <2> QED
    BY <1>1, <2>1, TypeInduction
<1> QED
  BY <1>2

-----------------------------------------------------------------------------
(* Native values and back.                                                 *)

\* The ARC4 value of a native one is made of those of its items.
LEMMA ToArc4Def ==
  \A n \in Natives : \A v \in Values[Arc4Type[n]] :
    ToArc4[n][v] =
      IF n.kind \in Composite
      THEN Put(Arc4Type[n], [i \in DOMAIN v |-> ToArc4[Elements(n, Len(v))[i]][v[i]]])
      ELSE New[Arc4Type[n]][v]
<1> DEFINE Is(f) == f = [n \in Natives |-> ToArc4Body(f, n)]
<1>1. Respects("arc4")
  <2>1. SUFFICES ASSUME NEW n \in Natives, NEW g, NEW h,
                        \A i \in DOMAIN n.of : g[n.of[i]] = h[n.of[i]]
                 PROVE  BodyBy("arc4", g, n) = BodyBy("arc4", h, n)
    BY DEF Respects
  <2>2. ASSUME NEW v \in Values[Arc4Type[n]], n.kind \in Composite
        PROVE  [i \in DOMAIN v |-> g[Elements(n, Len(v))[i]][v[i]]]
                 = [i \in DOMAIN v |-> h[Elements(n, Len(v))[i]][v[i]]]
    <3>1. \A i \in DOMAIN v : \E j \in DOMAIN n.of : Elements(n, Len(v))[i] = n.of[j]
      BY <2>2, ElementsOfValue
    <3>2. \A i \in DOMAIN v : g[Elements(n, Len(v))[i]] = h[Elements(n, Len(v))[i]]
      BY <2>1, <3>1
    <3> QED
      BY <3>2
  <2>3. ToArc4Body(g, n) = ToArc4Body(h, n)
    BY <2>2 DEF ToArc4Body
  <2> QED
    BY <2>3 DEF BodyBy
<1>2. PICK f : f = [n \in Natives |-> BodyBy("arc4", f, n)]
  BY <1>1, NativeRecursion
<1>3. Is(f)
  <2>1. \A n : BodyBy("arc4", f, n) = ToArc4Body(f, n)
    BY DEF BodyBy
  <2> QED
    BY <1>2, <2>1
<1>4. Is(CHOOSE u : Is(u))
  <2> HIDE DEF Is
  <2> QED
    BY <1>3
<1>5. Is(ToArc4)
  BY <1>4 DEF ToArc4, ToArc4Body
<1>6. \A n \in Natives : ToArc4[n] = ToArc4Body(ToArc4, n)
  BY <1>5
<1> QED
  BY <1>6 DEF ToArc4Body

\* Bytes must fit wherever they are in a value.
LEMMA BytesFitDef ==
  \A n \in Natives : \A v \in Values[Arc4Type[n]] :
    BytesFit[n][v] =
      (/\ n.kind = "Bytes" => LengthSize + Len(v) <= MaxBytesSize
       /\ n.kind \in Composite => \A i \in DOMAIN v : BytesFit[Elements(n, Len(v))[i]][v[i]])
<1> DEFINE Is(f) == f = [n \in Natives |-> FitBody(f, n)]
<1>1. Respects("fit")
  <2>1. SUFFICES ASSUME NEW n \in Natives, NEW g, NEW h,
                        \A i \in DOMAIN n.of : g[n.of[i]] = h[n.of[i]]
                 PROVE  BodyBy("fit", g, n) = BodyBy("fit", h, n)
    BY DEF Respects
  <2>2. ASSUME NEW v \in Values[Arc4Type[n]], n.kind \in Composite
        PROVE  (\A i \in DOMAIN v : g[Elements(n, Len(v))[i]][v[i]])
                 = (\A i \in DOMAIN v : h[Elements(n, Len(v))[i]][v[i]])
    <3>1. \A i \in DOMAIN v : \E j \in DOMAIN n.of : Elements(n, Len(v))[i] = n.of[j]
      BY <2>2, ElementsOfValue
    <3>2. \A i \in DOMAIN v : g[Elements(n, Len(v))[i]] = h[Elements(n, Len(v))[i]]
      BY <2>1, <3>1
    <3> QED
      BY <3>2
  <2>3. FitBody(g, n) = FitBody(h, n)
    BY <2>2 DEF FitBody
  <2> QED
    BY <2>3 DEF BodyBy
<1>2. PICK f : f = [n \in Natives |-> BodyBy("fit", f, n)]
  BY <1>1, NativeRecursion
<1>3. Is(f)
  <2>1. \A n : BodyBy("fit", f, n) = FitBody(f, n)
    BY DEF BodyBy
  <2> QED
    BY <1>2, <2>1
<1>4. Is(CHOOSE u : Is(u))
  <2> HIDE DEF Is
  <2> QED
    BY <1>3
<1>5. Is(BytesFit)
  BY <1>4 DEF BytesFit, FitBody
<1>6. \A n \in Natives : BytesFit[n] = FitBody(BytesFit, n)
  BY <1>5
<1> QED
  BY <1>6 DEF FitBody

\* The native value of an ARC4 one is made of those of its items.
LEMMA ToNativeDef ==
  \A n \in Natives : \A b \in Bytes :
    /\ n.kind \in NativeLeaves => ToNative[n][b] = LeafNative(n, b)
    /\ n.kind \in Composite /\ Without(Items(Arc4Type[n], b)) =>
         ToNative[n][b] = [i \in DOMAIN Items(Arc4Type[n], b) |->
           ToNative[Elements(n, Len(Items(Arc4Type[n], b)))[i]][Items(Arc4Type[n], b)[i]]]
<1> DEFINE Is(f) == f = [n \in Natives |-> ToNativeBody(f, n)]
<1>1. Respects("native")
  <2>1. SUFFICES ASSUME NEW n \in Natives, NEW g, NEW h,
                        \A i \in DOMAIN n.of : g[n.of[i]] = h[n.of[i]]
                 PROVE  BodyBy("native", g, n) = BodyBy("native", h, n)
    BY DEF Respects
  <2>2. ASSUME NEW b \in Bytes, n.kind \in Composite,
               NEW bs, bs = Items(Arc4Type[n], b), Without(bs)
        PROVE  [i \in DOMAIN bs |-> g[Elements(n, Len(bs))[i]][bs[i]]]
                 = [i \in DOMAIN bs |-> h[Elements(n, Len(bs))[i]][bs[i]]]
    <3>1. bs \in Seq(Bytes) /\ Len(ChildTypes(Arc4Type[n], Len(bs))) = Len(bs)
      BY <2>2, NativeFacts, ItemsFit DEF Fits
    <3>2. PICK m \in Nat : m = Len(bs) /\ DOMAIN bs = 1..m
      BY <3>1
    <3>3. \A i \in 1..m : \E j \in DOMAIN n.of : Elements(n, m)[i] = n.of[j]
      BY <2>2, <3>1, <3>2, ElementFacts
    <3>4. \A i \in DOMAIN bs : g[Elements(n, Len(bs))[i]] = h[Elements(n, Len(bs))[i]]
      BY <2>1, <3>2, <3>3
    <3> QED
      BY <3>4
  <2>3. n.kind \in Composite \/ n.kind \in NativeLeaves
    BY NativeFacts
  <2>4. ToNativeBody(g, n) = ToNativeBody(h, n)
    BY <2>2, <2>3 DEF ToNativeBody
  <2> QED
    BY <2>4 DEF BodyBy
<1>2. PICK f : f = [n \in Natives |-> BodyBy("native", f, n)]
  BY <1>1, NativeRecursion
<1>3. Is(f)
  <2>1. \A n : BodyBy("native", f, n) = ToNativeBody(f, n)
    BY DEF BodyBy
  <2> QED
    BY <1>2, <2>1
<1>4. Is(CHOOSE u : Is(u))
  <2> HIDE DEF Is
  <2> QED
    BY <1>3
<1>5. Is(ToNative)
  BY <1>4 DEF ToNative, ToNativeBody
<1>6. \A n \in Natives : ToNative[n] = ToNativeBody(ToNative, n)
  BY <1>5
<1>7. \A n \in Natives : n.kind \in Composite => n.kind \notin NativeLeaves
  BY DEF Composite, NativeLeaves
<1> QED
  BY <1>6, <1>7 DEF ToNativeBody

\* Serializing makes what the constructors make.
LEMMA SerializedIsMade ==
  \A n \in Natives : \A v \in Values[Arc4Type[n]] : ToArc4[n][v] = New[Arc4Type[n]][v]
<1> DEFINE P == {n \in Natives :
                   \A v \in Values[Arc4Type[n]] : ToArc4[n][v] = New[Arc4Type[n]][v]}
<1>1. ASSUME NEW n \in Natives, \A i \in DOMAIN n.of : n.of[i] \in P PROVE n \in P
  <2>1. SUFFICES ASSUME NEW v \in Values[Arc4Type[n]] PROVE ToArc4[n][v] = New[Arc4Type[n]][v]
    OBVIOUS
  <2>2. CASE n.kind \notin Composite
    BY <2>2, ToArc4Def
  <2>3. CASE n.kind \in Composite
    <3>1. PICK t \in Types : t = Arc4Type[n]
      BY NativeFacts
    <3>2. t.kind \notin Leaves /\ v \in Values[t]
      BY <2>3, <3>1, CompositeTypes
    <3>3. \A i \in DOMAIN v : ToArc4[Elements(n, Len(v))[i]][v[i]] = New[TypesIn(t, v)[i]][v[i]]
      <4> TAKE i \in DOMAIN v
      <4>1. PICK e : e = Elements(n, Len(v))[i]
        OBVIOUS
      <4>2. /\ \E j \in DOMAIN n.of : e = n.of[j]
            /\ Arc4Type[e] = TypesIn(t, v)[i] /\ v[i] \in Values[Arc4Type[e]]
        BY <2>3, <3>1, <4>1, ElementsOfValue
      <4>3. e \in P
        BY <1>1, <4>2
      <4>4. ToArc4[e][v[i]] = New[Arc4Type[e]][v[i]]
        BY <4>2, <4>3
      <4> QED
        BY <4>1, <4>2, <4>4
    <3>4. [i \in DOMAIN v |-> ToArc4[Elements(n, Len(v))[i]][v[i]]] = NewItems(t, v)
      BY <3>3 DEF NewItems, ItemsBy, TypesIn
    <3>5. New[t][v] = Put(t, NewItems(t, v))
      BY <3>2, NewDef
    <3> QED
      BY <2>3, <3>1, <3>4, <3>5, ToArc4Def
  <2> QED
    BY <2>2, <2>3
<1>2. P = Natives
  <2>1. P \in SUBSET Natives
    OBVIOUS
  <2> HIDE DEF P
  <2> QED
    BY <1>1, <2>1, NativeInduction
<1> QED
  BY <1>2

\* Bytes, one after the other, are their own encoding.
LEMMA BytesInPlace ==
  ASSUME NEW n \in Nat, NEW ts \in Seq(Types), Len(ts) = n, \A i \in 1..n : ts[i] = ByteT,
         NEW bs, Proper(ts, bs), NEW b, InPlace(ts, bs, b)
  PROVE  b \in Seq(Byte) /\ Len(b) = n /\ \A i \in 1..n : bs[i] = <<b[i]>> /\ b[i] \in Byte
<1>1. b \in Seq(Byte) /\ Len(b) \in Nat
  BY DEF InPlace
<1>2. /\ ByteT.kind = "byte" /\ ByteT.size = 1
      /\ ByteT.kind \in Leaves /\ ByteT.kind # "bool" /\ ByteT.kind \notin {"string", "dynamic"}
  BY DEF ByteT, Simple, Leaves
<1>3. ASSUME NEW i \in 1..n
      PROVE  ts[i] \in Types /\ ts[i].kind # "bool" /\ ~IsDynamic[ts[i]] /\ Size[ts[i]] = 1
  <2>1. ts[i] \in Types /\ ts[i] = ByteT
    OBVIOUS
  <2>2. ts[i].of = << >>
    BY <1>2, <2>1, TypeFacts
  <2>3. ~IsDynamic[ts[i]]
    BY <1>2, <2>1, <2>2, DynamicDef
  <2> QED
    BY <1>2, <2>1, <2>3, SizeDef
<1>4. ASSUME NEW i \in 1..n PROVE Cost(Size, ts, i) = 1 /\ IsStart(ts, i)
  <2>1. Size[ts[i]] \in Nat
    BY <1>3
  <2>2. Cost(Size, ts, i) = 1
    BY <1>3, <2>1, CostFacts
  <2>3. IsStart(ts, i)
    BY <1>3 DEF IsStart
  <2> QED
    BY <2>2, <2>3
<1>5. HeadAt(ts, 1) = 0 /\ \A i \in 1..n : HeadAt(ts, i + 1) = HeadAt(ts, i) + 1
  BY <1>4, HeadAtFacts
<1> DEFINE P == {k \in Nat : k <= n => HeadAt(ts, k + 1) = k}
<1>6. P = Nat
  <2>1. 0 \in P
    BY <1>5
  <2>2. ASSUME NEW k \in P PROVE k + 1 \in P
    <3>1. SUFFICES ASSUME k + 1 <= n PROVE HeadAt(ts, (k + 1) + 1) = k + 1
      OBVIOUS
    <3>2. k + 1 \in 1..n /\ k <= n
      BY <3>1
    <3>3. HeadAt(ts, k + 1) = k
      BY <3>2
    <3> QED
      BY <1>5, <3>2, <3>3
  <2>3. P \in SUBSET Nat
    OBVIOUS
  <2> HIDE DEF P
  <2> QED
    BY <2>1, <2>2, <2>3, Induction
<1>7. \A k \in 0..n : HeadAt(ts, k + 1) = k
  <2> TAKE k \in 0..n
  <2>1. k \in Nat /\ k <= n
    OBVIOUS
  <2>2. k \in P
    BY <1>6, <2>1
  <2> QED
    BY <2>1, <2>2
<1>8. Len(b) = n
  <2>1. PICK dynamic : dynamic = {k \in 1..Len(ts) : IsDynamic[ts[k]]}
    OBVIOUS
  <2>2. dynamic = {}
    BY <1>3, <2>1
  <2>3. AreDynamic(ts, dynamic)
    BY <2>1 DEF AreDynamic
  <2>4. TailAt(ts, bs, Len(ts) + 1) = HeadAt(ts, Len(ts) + 1)
    BY <2>2, <2>3, StopFacts
  <2>5. n \in 0..n
    OBVIOUS
  <2>6. HeadAt(ts, n + 1) = n
    BY <1>7, <2>5
  <2> QED
    BY <2>4, <2>6 DEF InPlace
<1>9. ASSUME NEW i \in 1..n PROVE bs[i] = <<b[i]>> /\ b[i] \in Byte
  <2>1. HeadOf(ts, bs)[i] = bs[i]
    BY <1>3, <1>4 DEF HeadOf
  <2>2. HeadAt(ts, i) = i - 1 /\ HeadAt(ts, i + 1) = i
    <3>1. i - 1 \in 0..n /\ i \in 0..n /\ (i - 1) + 1 = i
      OBVIOUS
    <3> QED
      BY <1>7, <3>1
  <2>3. Slice(b, HeadAt(ts, i), HeadAt(ts, i + 1)) = HeadOf(ts, bs)[i]
    BY DEF InPlace
  <2>4. Slice(b, i - 1, i) = bs[i]
    BY <2>1, <2>2, <2>3
  <2>5. PICK j \in Nat : j = i - 1 /\ i = j + 1 /\ j \in 0..Len(b) /\ i \in j..Len(b) /\ i - j = 1
    <3>1. i - 1 \in Nat /\ i = (i - 1) + 1 /\ i - 1 \in 0..Len(b) /\ i \in (i - 1)..Len(b)
          /\ i - (i - 1) = 1
      BY <1>8
    <3> QED
      BY <3>1
  <2>6. i \in Int /\ j \in Int
    OBVIOUS
  <2>7. Len(Slice(b, j, i)) = 1 /\ \A k \in 1..1 : Slice(b, j, i)[k] = b[j + k]
    <3>1. j \in 0..Len(b) /\ i \in j..Len(b)
      BY <2>5
    <3>2. Len(Slice(b, j, i)) = i - j /\ \A k \in 1..(i - j) : Slice(b, j, i)[k] = b[j + k]
      BY <1>1, <2>6, <3>1, SliceFacts
    <3> QED
      BY <2>5, <3>2
  <2>8. bs[i] \in Seq(Byte) /\ Len(bs[i]) = 1 /\ bs[i][1] = b[i]
    <3>1. Slice(b, j, i) \in Seq(Byte)
      BY <1>1, <2>6, SliceFacts
    <3>2. Slice(b, j, i)[1] = b[j + 1]
      BY <2>7
    <3> QED
      BY <2>4, <2>5, <2>7, <3>1, <3>2
  <2>9. b[i] \in Byte
    BY <1>1, <1>8
  <2> QED
    BY <2>8, <2>9
<1> QED
  BY <1>1, <1>8, <1>9

\* The bytes of an array of bytes are its value, after the length of a dynamic one.
LEMMA BytesBody ==
  ASSUME NEW t \in Types, t.kind \in Arrays, t.of = <<ByteT>>, NEW v \in Values[t],
         ~Raises(New[t][v])
  PROVE  v \in Seq(Byte) /\ BodyOf(t, New[t][v]) = v
<1>1. t.kind \notin Leaves /\ ByteT \in Types /\ ByteT.kind = "byte" /\ ByteT.size = 1
  <2>1. t.of[1] \in Types
    BY TypeFacts
  <2> QED
    BY <2>1 DEF Arrays, Leaves, ByteT, Simple
<1>2. PICK n \in Nat : n = Len(v) /\ v = [i \in 1..n |-> v[i]]
  BY <1>1, ValueFacts
<1>3. PICK ts \in Seq(Types) : ts = TypesIn(t, v) /\ Len(ts) = n
  <2>1. TypesIn(t, v) \in Seq(Types) /\ Len(TypesIn(t, v)) = Len(v)
    BY <1>1, TypesInFacts
  <2> QED
    BY <1>2, <2>1, Zenon
<1>4. \A i \in 1..n : ts[i] = ByteT
  BY <1>2, <1>3, ChildFacts DEF TypesIn
<1>5. PICK bs : bs = NewItems(t, v)
  OBVIOUS
<1>6. PICK b : b = BodyOf(t, New[t][v])
  OBVIOUS
<1>7. Proper(ts, bs) /\ InPlace(ts, bs, b)
  <2>1. Found(t, v, New[t][v])
    BY <1>1, AllIsWell DEF MadeWell, Well
  <2> QED
    BY <1>3, <1>5, <1>6, <2>1 DEF Found
<1>8. b \in Seq(Byte) /\ Len(b) = n /\ \A i \in 1..n : bs[i] = <<b[i]>> /\ b[i] \in Byte
  BY <1>3, <1>4, <1>7, BytesInPlace
<1>9. ASSUME NEW i \in 1..n PROVE v[i] = b[i]
  <2>1. bs[i] = New[ByteT][v[i]] /\ v[i] \in Values[ByteT]
    BY <1>1, <1>2, <1>3, <1>4, <1>5, TypesInFacts
  <2>2. New[ByteT][v[i]] = NewLeaf(ByteT, v[i]) /\ ByteT.kind \in Leaves
    BY <1>1, <2>1, NewDef DEF Leaves
  <2>3. bs[i] = <<b[i]>> /\ b[i] \in Byte
    BY <1>8
  <2>4. ~Raises(NewLeaf(ByteT, v[i]))
    <3>1. <<b[i]>> \in Seq(Byte)
      BY <2>3
    <3> QED
      BY <2>1, <2>2, <2>3, <3>1, RaisesFacts
  <2>5. ReadsLeaf(ByteT, v[i], NewLeaf(ByteT, v[i]))
    BY <1>1, <2>1, <2>2, <2>4, LeafFacts
  <2>6. IntOf(<<b[i]>>) = v[i]
    BY <1>1, <2>1, <2>2, <2>3, <2>5 DEF ReadsLeaf
  <2> QED
    BY <2>3, <2>6, IntOfOne
<1>10. b = v
  <2>1. b = [i \in 1..n |-> b[i]]
    BY <1>8
  <2>2. [i \in 1..n |-> b[i]] = [i \in 1..n |-> v[i]]
    BY <1>9
  <2> QED
    BY <1>2, <2>1, <2>2
<1> QED
  BY <1>6, <1>8, <1>10

\* The native value read from what was made of a value is that value.
Returns(n) ==
  \A v \in Values[Arc4Type[n]] :
    ~Raises(New[Arc4Type[n]][v]) /\ Readable[Arc4Type[n]] /\ BytesFit[n][v] =>
      ToNative[n][New[Arc4Type[n]][v]] = v

\* An integer of a word is read in whole.
LEMMA WordReturns ==
  ASSUME NEW b \in Seq(Byte), Len(b) = WordBytes
  PROVE  AsUInt64(b) = IntOf(b)
<1>1. IntOf(b) \in Nat /\ IntOf(b) < Pow(2, ByteBits * WordBytes)
  BY IntOfFacts
<1>2. MaxWord \in Nat /\ MaxWord + 1 = Pow(2, ByteBits * WordBytes)
  BY BaseFacts
<1> QED
  BY <1>1, <1>2 DEF AsUInt64

\* Leaves return.
LEMMA LeafReturns ==
  ASSUME NEW n \in Natives, n.kind \in {"bool", "UInt64", "BigUInt", "String"}
  PROVE  Returns(n)
<1> SUFFICES ASSUME NEW v \in Values[Arc4Type[n]], ~Raises(New[Arc4Type[n]][v])
             PROVE  ToNative[n][New[Arc4Type[n]][v]] = v
  BY DEF Returns
<1>1. PICK t \in Types : t = Arc4Type[n]
  BY NativeFacts
<1>2. t.kind \in Leaves
  BY <1>1, LeafTypes DEF Leaves
<1>3. PICK b : b = New[t][v]
  OBVIOUS
<1>4. b = NewLeaf(t, v) /\ b \in Bytes /\ v \in Values[t] /\ ~Raises(b)
  BY <1>1, <1>2, <1>3, NewDef
<1>5. b \in Seq(Byte) /\ ReadsLeaf(t, v, b) /\ (t.kind = "uint" => Len(b) = t.size)
  BY <1>2, <1>4, LeafFacts
<1>6. ToNative[n][b] = LeafNative(n, b)
  <2>1. n.kind \in NativeLeaves
    BY DEF NativeLeaves
  <2> QED
    BY <1>4, <2>1, ToNativeDef
<1>7. CASE n.kind = "bool"
  <2>1. t.kind = "bool"
    BY <1>1, <1>7, LeafTypes
  <2>2. v \in BOOLEAN
    BY <1>4, <2>1, TypeFacts DEF MadeOfItems
  <2>3. v <=> b = NewBool(TRUE)
    BY <1>5, <2>1 DEF ReadsLeaf
  <2>4. LeafNative(n, b) = (b = NewBool(TRUE))
    BY <1>7 DEF LeafNative
  <2>5. (b = NewBool(TRUE)) = v
    BY <2>2, <2>3
  <2> QED
    BY <1>1, <1>3, <1>6, <2>4, <2>5
<1>8. CASE n.kind = "UInt64"
  <2>1. t.kind = "uint" /\ t.size = WordBytes
    BY <1>1, <1>8, LeafTypes
  <2>2. IntOf(b) = v
    BY <1>5, <2>1 DEF ReadsLeaf
  <2>3. AsUInt64(b) = v
    BY <1>5, <2>1, <2>2, WordReturns
  <2>4. LeafNative(n, b) = AsUInt64(b)
    BY <1>8 DEF LeafNative
  <2> QED
    BY <1>1, <1>3, <1>6, <2>3, <2>4
<1>9. CASE n.kind = "BigUInt"
  <2>1. t.kind = "uint"
    BY <1>1, <1>9, LeafTypes
  <2>2. IntOf(b) = v
    BY <1>5, <2>1 DEF ReadsLeaf
  <2>3. LeafNative(n, b) = AsBigUInt(b)
    BY <1>9 DEF LeafNative
  <2> QED
    BY <1>1, <1>3, <1>6, <2>2, <2>3 DEF AsBigUInt
<1>10. CASE n.kind = "String"
  <2>1. t.kind = "string"
    BY <1>1, <1>10, LeafTypes
  <2>2. StringNative(b) = v
    BY <1>5, <2>1 DEF ReadsLeaf
  <2>3. LeafNative(n, b) = StringNative(b)
    BY <1>10 DEF LeafNative
  <2> QED
    BY <1>1, <1>3, <1>6, <2>2, <2>3
<1> QED
  BY <1>7, <1>8, <1>9, <1>10

\* Bytes that fit return.
LEMMA BytesReturn ==
  ASSUME NEW n \in Natives, n.kind \in {"Bytes", "FixedBytes"}
  PROVE  Returns(n)
<1> SUFFICES ASSUME NEW v \in Values[Arc4Type[n]], ~Raises(New[Arc4Type[n]][v]), BytesFit[n][v]
             PROVE  ToNative[n][New[Arc4Type[n]][v]] = v
  BY DEF Returns
<1>1. PICK t \in Types : t = Arc4Type[n]
  BY NativeFacts
<1>2. t.kind \in Arrays /\ t.of = <<ByteT>>
  BY <1>1, LeafTypes DEF Arrays
<1>3. PICK b : b = New[t][v]
  OBVIOUS
<1>4. b \in Bytes /\ v \in Values[t] /\ ~Raises(b)
  BY <1>1, <1>3, NewDef
<1>5. v \in Seq(Byte) /\ BodyOf(t, b) = v
  BY <1>2, <1>3, <1>4, BytesBody
<1>6. ToNative[n][b] = LeafNative(n, b)
  <2>1. n.kind \in NativeLeaves
    BY DEF NativeLeaves
  <2> QED
    BY <1>4, <2>1, ToNativeDef
<1>7. CASE n.kind = "FixedBytes"
  <2>1. t.kind = "static"
    BY <1>1, <1>7, LeafTypes
  <2>2. LeafNative(n, b) = b
    BY <1>7 DEF LeafNative
  <2> QED
    BY <1>1, <1>3, <1>5, <1>6, <2>1, <2>2 DEF BodyOf
<1>8. CASE n.kind = "Bytes"
  <2>1. t.kind = "dynamic"
    BY <1>1, <1>8, LeafTypes
  <2>2. Slice(b, LengthSize, Len(b)) = v
    BY <1>5, <2>1 DEF BodyOf
  <2>3. LengthSize + Len(v) <= MaxBytesSize
    BY <1>8, BytesFitDef
  <2>4. b \in Seq(Byte) /\ Len(b) \in Nat
    BY <1>4, RaisesFacts
  <2>5. Len(b) >= LengthSize
    <3>1. t.kind \notin Leaves
      BY <2>1 DEF Leaves
    <3>2. Found(t, v, b)
      BY <1>3, <1>4, <3>1, AllIsWell DEF MadeWell, Well
    <3> QED
      BY <2>1, <3>2 DEF Found
  <2>6. Len(v) = Len(b) - LengthSize
    <3>1. LengthSize \in Int /\ Len(b) \in Int
      BY <2>4 DEF LengthSize
    <3>2. LengthSize \in 0..Len(b) /\ Len(b) \in LengthSize..Len(b)
      BY <2>4, <2>5 DEF LengthSize
    <3>3. Len(Slice(b, LengthSize, Len(b))) = Len(b) - LengthSize
      BY <2>4, <3>1, <3>2, SliceFacts
    <3> QED
      BY <2>2, <3>3
  <2>7. Len(b) <= MaxBytesSize
    BY <2>3, <2>4, <2>6, SizeFacts DEF LengthSize
  <2>8. AsBytes(b) # {}
    BY <2>7 DEF AsBytes
  <2>9. LeafNative(n, b) = DynamicBytesNative(b)
    BY <1>8 DEF LeafNative
  <2> QED
    BY <1>1, <1>3, <1>6, <2>2, <2>8, <2>9 DEF DynamicBytesNative
<1> QED
  BY <1>7, <1>8

\* What is made of values that return returns.
LEMMA CompositeReturns ==
  ASSUME NEW n \in Natives, n.kind \in Composite, \A j \in DOMAIN n.of : Returns(n.of[j])
  PROVE  Returns(n)
<1> SUFFICES ASSUME NEW v \in Values[Arc4Type[n]], ~Raises(New[Arc4Type[n]][v]),
                    Readable[Arc4Type[n]], BytesFit[n][v]
             PROVE  ToNative[n][New[Arc4Type[n]][v]] = v
  BY DEF Returns
<1>1. PICK t \in Types : t = Arc4Type[n]
  BY NativeFacts
<1>2. t.kind \notin Leaves /\ v \in Values[t] /\ Readable[t]
  BY <1>1, CompositeTypes
<1>3. PICK b : b = New[t][v]
  OBVIOUS
<1>4. b \in Bytes /\ ~Raises(b)
  BY <1>1, <1>2, <1>3, NewDef
<1>5. PICK bs : bs = Items(t, b)
  OBVIOUS
<1>6. bs = NewItems(t, v)
  BY <1>1, <1>2, <1>3, <1>4, <1>5, MadeAgain
<1>7. PICK m \in Nat : m = Len(v) /\ DOMAIN v = 1..m
  BY <1>2, TypesInFacts
<1>8. bs \in Seq(Bytes) /\ Len(bs) = m /\ Without(bs)
  BY <1>1, <1>2, <1>3, <1>4, <1>6, <1>7, MadeItems
<1>9. DOMAIN bs = 1..m
  BY <1>8
<1>10. ASSUME NEW i \in 1..m PROVE ToNative[Elements(n, m)[i]][bs[i]] = v[i]
  <2>1. PICK e : e = Elements(n, m)[i]
    OBVIOUS
  <2>2. /\ \E j \in DOMAIN n.of : e = n.of[j]
        /\ Arc4Type[e] = TypesIn(t, v)[i] /\ v[i] \in Values[Arc4Type[e]]
    BY <1>1, <1>7, <2>1, ElementsOfValue
  <2>3. Returns(e)
    BY <2>2
  <2>4. bs[i] = New[Arc4Type[e]][v[i]] /\ ~Raises(New[Arc4Type[e]][v[i]])
    <3>1. Items(t, New[t][v]) = NewItems(t, v) /\ ~Raises(New[t][v])
      BY <1>3, <1>4, <1>5, <1>6
    <3>2. i \in 1..Len(v)
      BY <1>7
    <3>3. /\ Items(t, New[t][v])[i] = New[TypesIn(t, v)[i]][v[i]]
          /\ ~Raises(New[TypesIn(t, v)[i]][v[i]])
      BY <1>2, <3>1, <3>2, InnerIsMade
    <3> QED
      BY <1>3, <1>5, <2>2, <3>3
  <2>5. Readable[Arc4Type[e]]
    BY <1>2, <1>7, <2>2, ReadableItems
  <2>6. BytesFit[e][v[i]]
    <3>1. \A k \in DOMAIN v : BytesFit[Elements(n, Len(v))[k]][v[k]]
      BY BytesFitDef
    <3> QED
      BY <1>7, <2>1, <3>1
  <2> QED
    BY <2>1, <2>2, <2>3, <2>4, <2>5, <2>6 DEF Returns
<1>11. ToNative[n][b] = [i \in DOMAIN bs |-> ToNative[Elements(n, Len(bs))[i]][bs[i]]]
  BY <1>1, <1>4, <1>5, <1>8, ToNativeDef
<1>12. ToNative[n][b] = [i \in 1..m |-> v[i]]
  BY <1>8, <1>9, <1>10, <1>11
<1>13. v = [i \in 1..m |-> v[i]]
  BY <1>2, <1>7, ValueFacts
<1> QED
  BY <1>1, <1>3, <1>12, <1>13

\* All native values return.
LEMMA AllReturn == \A n \in Natives : Returns(n)
<1> DEFINE P == {n \in Natives : Returns(n)}
<1>1. ASSUME NEW n \in Natives, \A i \in DOMAIN n.of : n.of[i] \in P PROVE n \in P
  <2>1. n.kind \in Composite \cup NativeLeaves
    BY NativeFacts
  <2>2. CASE n.kind \in Composite
    BY <1>1, <2>2, CompositeReturns
  <2>3. CASE n.kind \in {"Bytes", "FixedBytes"}
    BY <2>3, BytesReturn
  <2>4. CASE n.kind \in {"bool", "UInt64", "BigUInt", "String"}
    BY <2>4, LeafReturns
  <2> QED
    BY <2>1, <2>2, <2>3, <2>4 DEF NativeLeaves
<1>2. P = Natives
  <2>1. P \in SUBSET Natives
    OBVIOUS
  <2> HIDE DEF P
  <2> QED
    BY <1>1, <2>1, NativeInduction
<1> QED
  BY <1>2

\* Native values of the type of the object, or of one that is compared as the same, are read
\* from its bytes as they were put in, and serialized to them (serialize.py).
THEOREM NativesAreEqual == AbiSpec => []NativesAgree
<1>1. ASSUME AbiInv PROVE NativesAgree
  <2>1. SUFFICES ASSUME NEW n \in Natives, SameType[Arc4Type[n]][Type],
                        contents \in Values[Arc4Type[n]], HasBytes, Readable[Type],
                        BytesFit[n][contents]
                 PROVE  ToNative[n][object.bytes] = contents /\ ToArc4[n][contents] = object.bytes
    BY DEF NativesAgree
  <2>2. /\ Type \in Types /\ contents \in Values[Type]
        /\ object.bytes = New[Type][contents] /\ ~Raises(object.bytes)
    BY <1>1, <2>1 DEF AbiInv, HasBytes
  <2>3. PICK t \in Types : t = Arc4Type[n]
    BY NativeFacts
  <2>4. Readable[t]
    BY <2>1, <2>2, <2>3, SameReadable
  <2>5. New[t][contents] = object.bytes
    BY <2>1, <2>2, <2>3, AllMadeSame DEF SameMade
  <2>6. ToArc4[n][contents] = object.bytes
    BY <2>1, <2>3, <2>5, SerializedIsMade
  <2>7. ToNative[n][object.bytes] = contents
    BY <2>1, <2>2, <2>3, <2>4, <2>5, AllReturn DEF Returns
  <2> QED
    BY <2>6, <2>7
<1> QED
  BY <1>1, AbiInvariant, PTL
=============================================================================
