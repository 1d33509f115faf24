----------------------------- MODULE MCValues -----------------------------
EXTENDS Abi

Row == <<UIntT(2), BoolT, BoolT, BoolT, DynamicT(ByteT), BoolT, UIntT(2)>>

\* A set of types with those of the items, and how deep one is nested.
RECURSIVE MCWithin(_), MCDepthOf(_)
MCWithin(ts) == ts \cup IF ts = {} THEN {} ELSE MCWithin(UNION {ToSet(t.of) : t \in ts})
MCDepthOf(t) == IF t.of = <<>> THEN 0 ELSE 1 + Max({MCDepthOf(t.of[i]) : i \in DOMAIN t.of})

MCObjects == {
  StaticT(BoolT, 5), DynamicT(BoolT), TupleT(<<BoolT, BoolT, BoolT, BoolT, BoolT>>),
  StaticT(StaticT(BoolT, 3), 2), StructT(<<StaticT(BoolT, 3), BoolT, BoolT, DynamicT(BoolT)>>),
  DynamicT(StringT), StaticT(StringT, 4), DynamicT(TupleT(<<BoolT, StringT>>)),
  StaticT(DynamicT(UIntT(2)), 2), StructT(Row), TupleT(<<UIntT(2), StaticT(ByteT, 0)>>),
  StructT(<<DynamicT(StringT), StringT>>)} \* has values that are too long

Native(kind) == NativeT(kind, 0, <<>>)

MCTopNatives == {
  NativeT("FixedArray", 5, <<Native("bool")>>), NativeT("Array", 0, <<Native("bool")>>),
  NativeT("ImmutableArray", 0, <<NativeT("tuple", 0, <<Native("bool"), Native("String")>>)>>),
  NativeT("ImmutableFixedArray", 4, <<Native("String")>>),
  NativeT("Struct", 0, <<Native("UInt64"), Native("bool"), Native("bool"), Native("bool"),
                         Native("Bytes"), Native("bool"), Native("BigUInt")>>),
  NativeT("FixedArray", 2, <<NativeT("Array", 0, <<Native("UInt64")>>)>>)}

MCTypes == MCWithin(MCObjects)
MCNatives == MCWithin(MCTopNatives)
MCDepth == [t \in MCTypes \cup MCNatives |-> MCDepthOf(t)]

\* Two or three values of each leaf, every array and tuple of them.
MCAllValues[t \in MCTypes] ==
  CASE t.kind = "byte" -> {0, Base - 1}
    [] t.kind = "uint" -> {0, Base + 3}
    [] t.kind = "bool" -> BOOLEAN
    [] t.kind = "string" -> {<<>>, <<3>>, <<1, 2>>}
    [] t.kind = "static" -> [1..t.size -> MCAllValues[t.of[1]]]
    [] t.kind = "dynamic" -> UNION {[1..n -> MCAllValues[t.of[1]]] : n \in 0..MaxItems}
    [] OTHER -> FoldLeft(LAMBDA vs, u : {Append(v, x) : v \in vs, x \in MCAllValues[u]},
                         {<<>>}, t.of)

Init == WordsInit /\ AbiInit

\* Bound: the two components share nothing, and one moves while the other is at its start.
WordsStart == value = BytesOf(<<>>) /\ iter = NoIter
AbiStart == Type = DynamicT(BoolT) /\ contents = <<>>

Next ==
  \/ AbiStart /\ WordsNext /\ UNCHANGED abiVars
  \/ WordsStart /\ AbiNext /\ UNCHANGED wordVars

Spec == Init /\ [][Next]_<<wordVars, abiVars>>
=============================================================================
