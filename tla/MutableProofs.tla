--------------------------- MODULE MutableProofs ---------------------------
(* Proofs about mutable values, for every type of container, every set of  *)
(* contents and every bound.                                               *)
EXTENDS Mutable, SequenceTheorems, TLAPS

-----------------------------------------------------------------------------
(* What a program may hold.                                                *)

PlacesExist(os, n) ==
  \A o \in 1..Len(os) : os[o].place # None => os[o].place[1] \in 1..n

Good(c, n) ==
  /\ c \in Containers
  /\ \A i \in 1..Len(c.items) : c.items[i] \in 1..n
  /\ kind = "FixedArray" => Len(c.items) = Len(c.value)

World(cs, os) ==
  /\ cs \in Seq(Containers) /\ os \in Seq(ItemObjects)
  /\ PlacesExist(os, Len(cs))
  /\ \A c \in 1..Len(cs) : Good(cs[c], Len(os))

StoredType == Seq(Values) \cup {Missing}

LEMMA TypeOKMeans ==
  TypeOK <=> /\ kind \in AllKinds /\ steps \in Nat /\ stored \in StoredType
             /\ World(container, item)
<1>1. ASSUME container \in Seq(Containers), item \in Seq(ItemObjects)
      PROVE  /\ DOMAIN container = 1..Len(container) /\ DOMAIN item = 1..Len(item)
             /\ \A c \in 1..Len(container) : container[c] \in Containers
             /\ \A c \in 1..Len(container) : DOMAIN container[c].items = 1..Len(container[c].items)
  <2>1. \A c \in 1..Len(container) : container[c] \in Containers
    BY <1>1, ElementOfSeq
  <2>2. \A c \in 1..Len(container) : container[c].items \in Seq(Nat)
    BY <2>1 DEF Containers
  <2> QED
    BY <1>1, <2>1, <2>2, LenProperties
<1> QED
  BY <1>1 DEF TypeOK, World, PlacesExist, Good, StoredType

LEMMA FunctionIsSeq ==
  ASSUME NEW S, NEW n \in Nat, NEW f \in [1..n -> S]
  PROVE  f \in Seq(S) /\ Len(f) = n
<1>1. f \in Seq(S)
  BY SeqDef
<1> QED
  BY <1>1, LenProperties

-----------------------------------------------------------------------------
(* Items.                                                                  *)

LEMMA ArmType ==
  ASSUME NEW os \in Seq(ItemObjects), NEW c \in Nat, NEW its
  PROVE  /\ Arm(c, its, os) \in Seq(ItemObjects) /\ Len(Arm(c, its, os)) = Len(os)
         /\ \A o \in 1..Len(os) : /\ Arm(c, its, os)[o].value = os[o].value
                                  /\ \/ Arm(c, its, os)[o].place = os[o].place
                                     \/ Arm(c, its, os)[o].place = <<c, 0>>
<1>1. DOMAIN os = 1..Len(os) /\ Len(os) \in Nat /\ \A o \in 1..Len(os) : os[o] \in ItemObjects
  BY LenProperties, ElementOfSeq
<1>2. <<c, 0>> \in Places
  BY DEF Places
<1>3. CASE kind = "Struct"
  <2> DEFINE armed == [o \in 1..Len(os) |->
                         IF \E i \in DOMAIN its : its[i] = o
                         THEN [os[o] EXCEPT !.place = <<c, 0>>] ELSE os[o]]
  <2>1. Arm(c, its, os) = armed
    BY <1>1, <1>3 DEF Arm
  <2>2. \A o \in 1..Len(os) : [os[o] EXCEPT !.place = <<c, 0>>] \in ItemObjects
    BY <1>1, <1>2 DEF ItemObjects
  <2>3. armed \in [1..Len(os) -> ItemObjects]
    BY <1>1, <2>2
  <2>4. armed \in Seq(ItemObjects) /\ Len(armed) = Len(os)
    BY <1>1, <2>3, FunctionIsSeq
  <2>5. ASSUME NEW o \in 1..Len(os)
        PROVE  /\ armed[o].value = os[o].value
               /\ armed[o].place = os[o].place \/ armed[o].place = <<c, 0>>
    BY <1>1 DEF ItemObjects
  <2> HIDE DEF armed
  <2> QED
    BY <2>1, <2>4, <2>5
<1>4. CASE kind # "Struct"
  BY <1>4 DEF Arm
<1> QED
  BY <1>3, <1>4

LEMMA ArmPlaces ==
  ASSUME NEW os \in Seq(ItemObjects), NEW n \in Nat, NEW c \in 1..n, NEW its,
         PlacesExist(os, n)
  PROVE  PlacesExist(Arm(c, its, os), n)
<1>1. Len(Arm(c, its, os)) = Len(os) /\ c \in Nat
  BY ArmType
<1>2. ASSUME NEW o \in 1..Len(os), Arm(c, its, os)[o].place # None
      PROVE  Arm(c, its, os)[o].place[1] \in 1..n
  BY <1>1, <1>2, ArmType DEF PlacesExist
<1> QED
  BY <1>1, <1>2 DEF PlacesExist

LEMMA ValuesOfType ==
  ASSUME NEW os \in Seq(ItemObjects), NEW its \in Seq(Nat),
         \A i \in 1..Len(its) : its[i] \in 1..Len(os)
  PROVE  ValuesOf(its, os) \in Seq(Values) /\ Len(ValuesOf(its, os)) = Len(its)
<1>1. DOMAIN its = 1..Len(its) /\ Len(its) \in Nat
  BY LenProperties
<1>2. \A i \in 1..Len(its) : os[its[i]] \in ItemObjects
  BY ElementOfSeq
<1>3. \A i \in 1..Len(its) : os[its[i]].value \in Values
  BY <1>2 DEF ItemObjects
<1>4. ValuesOf(its, os) \in [1..Len(its) -> Values]
  BY <1>1, <1>3 DEF ValuesOf
<1> QED
  BY <1>1, <1>4, FunctionIsSeq

LEMMA PlaceItem ==
  ASSUME NEW os \in Seq(ItemObjects), NEW n \in Nat, PlacesExist(os, n),
         NEW o \in 1..Len(os), NEW p \in Places, p # None => p[1] \in 1..n
  PROVE  LET put == [os EXCEPT ![o].place = p]
         IN  put \in Seq(ItemObjects) /\ Len(put) = Len(os) /\ PlacesExist(put, n)
<1> DEFINE e == [os[o] EXCEPT !.place = p]
           put == [os EXCEPT ![o] = e]
<1>1. os[o] \in ItemObjects
  BY ElementOfSeq
<1>2. e \in ItemObjects /\ e.place = p
  BY <1>1 DEF ItemObjects
<1>3. [os EXCEPT ![o].place = p] = put
  OBVIOUS
<1> HIDE DEF e
<1>4. put \in Seq(ItemObjects) /\ Len(put) = Len(os)
      /\ \A j \in 1..Len(os) : put[j] = IF j = o THEN e ELSE os[j]
  BY <1>2, ExceptSeq
<1> HIDE DEF put
<1>5. PlacesExist(put, n)
  BY <1>2, <1>4 DEF PlacesExist
<1> QED
  BY <1>3, <1>4, <1>5

LEMMA ChangedItem ==
  ASSUME NEW os \in Seq(ItemObjects), NEW n \in Nat, PlacesExist(os, n),
         NEW o \in 1..Len(os), NEW v \in Values
  PROVE  LET put == [os EXCEPT ![o].value = v]
         IN  put \in Seq(ItemObjects) /\ Len(put) = Len(os) /\ PlacesExist(put, n)
<1> DEFINE e == [os[o] EXCEPT !.value = v]
           put == [os EXCEPT ![o] = e]
<1>1. os[o] \in ItemObjects
  BY ElementOfSeq
<1>2. e \in ItemObjects /\ e.place = os[o].place
  BY <1>1 DEF ItemObjects
<1>3. [os EXCEPT ![o].value = v] = put
  OBVIOUS
<1> HIDE DEF e
<1>4. put \in Seq(ItemObjects) /\ Len(put) = Len(os)
      /\ \A j \in 1..Len(os) : put[j] = IF j = o THEN e ELSE os[j]
  BY <1>2, ExceptSeq
<1> HIDE DEF put
<1>5. PlacesExist(put, n)
  BY <1>2, <1>4 DEF PlacesExist
<1> QED
  BY <1>3, <1>4, <1>5

LEMMA AppendedItem ==
  ASSUME NEW os \in Seq(ItemObjects), NEW n \in Nat, PlacesExist(os, n),
         NEW e \in ItemObjects, e.place # None => e.place[1] \in 1..n
  PROVE  LET more == Append(os, e)
         IN  more \in Seq(ItemObjects) /\ Len(more) = Len(os) + 1 /\ PlacesExist(more, n)
<1> DEFINE more == Append(os, e)
<1>1. /\ more \in Seq(ItemObjects) /\ Len(more) = Len(os) + 1 /\ Len(os) \in Nat
      /\ \A j \in 1..Len(os) : more[j] = os[j]
      /\ more[Len(os) + 1] = e
  BY AppendProperties
<1> HIDE DEF more
<1>2. PlacesExist(more, n)
  BY <1>1 DEF PlacesExist
<1> QED
  BY <1>1, <1>2 DEF more

\* Decoding adds items nothing has read yet.
LEMMA DecodedItems ==
  ASSUME NEW os \in Seq(ItemObjects), NEW n \in Nat, PlacesExist(os, n),
         NEW values \in Seq(Values)
  PROVE  LET more == os \o Decoded(values)
         IN  /\ more \in Seq(ItemObjects) /\ Len(more) = Len(os) + Len(values)
             /\ PlacesExist(more, n)
<1> DEFINE d == Decoded(values)
           more == os \o d
<1>1. /\ DOMAIN values = 1..Len(values) /\ Len(values) \in Nat /\ Len(os) \in Nat
      /\ \A i \in 1..Len(values) : values[i] \in Values
  BY LenProperties, ElementOfSeq
<1>2. \A i \in 1..Len(values) : [value |-> values[i], place |-> None] \in ItemObjects
  BY <1>1 DEF ItemObjects, Places
<1>3. /\ d \in [1..Len(values) -> ItemObjects]
      /\ \A i \in 1..Len(values) : d[i].place = None
  BY <1>1, <1>2 DEF Decoded
<1>4. d \in Seq(ItemObjects) /\ Len(d) = Len(values)
  BY <1>1, <1>3, FunctionIsSeq
<1> HIDE DEF d
<1> HIDE DEF more
<1>5. /\ more \in Seq(ItemObjects) /\ Len(more) = Len(os) + Len(values)
      /\ \A i \in 1..(Len(os) + Len(values)) :
           more[i] = IF i <= Len(os) THEN os[i] ELSE d[i - Len(os)]
  <2>1. /\ more \in Seq(ItemObjects) /\ Len(more) = Len(os) + Len(d)
        /\ \A i \in 1..(Len(os) + Len(d)) :
             more[i] = IF i <= Len(os) THEN os[i] ELSE d[i - Len(os)]
    BY <1>4, ConcatProperties, Zenon DEF more
  <2> QED
    BY <1>4, <2>1
<1>6. ASSUME NEW o \in 1..(Len(os) + Len(values)), more[o].place # None
      PROVE  more[o].place[1] \in 1..n
  <2>1. CASE o <= Len(os)
    BY <1>1, <1>5, <1>6, <2>1 DEF PlacesExist
  <2>2. CASE ~(o <= Len(os))
    <3>1. o - Len(os) \in 1..Len(values)
      BY <1>1, <2>2
    <3> QED
      BY <1>3, <1>5, <1>6, <2>2, <3>1
  <2> QED
    BY <2>1, <2>2
<1>7. PlacesExist(more, n)
  BY <1>5, <1>6 DEF PlacesExist
<1> QED
  BY <1>5, <1>7 DEF more, d

-----------------------------------------------------------------------------
(* Containers.                                                             *)

LEMMA GoodContainer ==
  ASSUME NEW n \in Nat, NEW its \in Seq(Nat), \A i \in 1..Len(its) : its[i] \in 1..n,
         NEW values \in Seq(Values), NEW armed \in BOOLEAN, NEW copied \in BOOLEAN,
         kind = "FixedArray" => Len(its) = Len(values)
  PROVE  Good(Container(its, values, armed, copied), n)
<1>1. /\ <<>> \in Seq(Nat) /\ <<>> \in Seq(Values) /\ Len(<<>>) = 0
  BY EmptySeq
<1>2. Container(its, values, armed, copied) \in Containers
  <2>1. (IF KeepsItems THEN its ELSE <<>>) \in Seq(Nat)
    BY <1>1
  <2>2. (IF KeepsEncoding THEN values ELSE <<>>) \in Seq(Values)
    BY <1>1
  <2> QED
    BY <2>1, <2>2 DEF Container, Containers
<1>3. CASE KeepsItems
  <2>1. Container(its, values, armed, copied).items = its
    BY <1>3 DEF Container
  <2>2. kind = "FixedArray" => Container(its, values, armed, copied).value = values
    BY DEF Container, KeepsEncoding
  <2> QED
    BY <1>2, <2>1, <2>2 DEF Good
<1>4. CASE ~KeepsItems
  <2>1. Container(its, values, armed, copied).items = <<>>
    BY <1>4 DEF Container
  <2>2. kind # "FixedArray"
    BY <1>4 DEF KeepsItems
  <2> QED
    BY <1>1, <1>2, <2>1, <2>2 DEF Good
<1> QED
  BY <1>3, <1>4

LEMMA MoreItems ==
  ASSUME NEW n \in Nat, NEW k \in Nat, n <= k, NEW c, Good(c, n)
  PROVE  Good(c, k)
<1>1. \A i \in 1..Len(c.items) : c.items[i] \in 1..k
  BY DEF Good
<1> QED
  BY <1>1 DEF Good

LEMMA AddContainer ==
  ASSUME NEW cs, NEW os, World(cs, os), NEW more \in Seq(ItemObjects), Len(os) <= Len(more),
         PlacesExist(more, Len(cs) + 1), NEW c, Good(c, Len(more))
  PROVE  World(Append(cs, c), more)
<1> DEFINE cs2 == Append(cs, c)
<1>1. cs \in Seq(Containers) /\ c \in Containers /\ Len(os) \in Nat /\ Len(more) \in Nat
  BY LenProperties DEF World, Good
<1>2. /\ cs2 \in Seq(Containers) /\ Len(cs2) = Len(cs) + 1 /\ Len(cs) \in Nat
      /\ \A j \in 1..Len(cs) : cs2[j] = cs[j]
      /\ cs2[Len(cs) + 1] = c
  BY <1>1, AppendProperties
<1>3. \A j \in 1..Len(cs) : Good(cs[j], Len(more))
  BY <1>1, MoreItems DEF World
<1> HIDE DEF cs2
<1>4. \A j \in 1..Len(cs2) : Good(cs2[j], Len(more))
  <2>1. \A j \in 1..(Len(cs) + 1) : j \in 1..Len(cs) \/ j = Len(cs) + 1
    BY <1>2
  <2> QED
    BY <1>2, <1>3, <2>1
<1>5. PlacesExist(more, Len(cs2))
  BY <1>2
<1>6. World(cs2, more)
  BY <1>2, <1>4, <1>5 DEF World
<1> QED
  BY <1>6 DEF cs2

LEMMA ReplaceContainer ==
  ASSUME NEW cs, NEW os, World(cs, os), NEW objs \in Seq(ItemObjects), Len(objs) = Len(os),
         PlacesExist(objs, Len(cs)), NEW c \in 1..Len(cs), NEW e, Good(e, Len(objs))
  PROVE  World([cs EXCEPT ![c] = e], objs)
<1> DEFINE cs2 == [cs EXCEPT ![c] = e]
<1>1. cs \in Seq(Containers) /\ e \in Containers
  BY DEF World, Good
<1>2. /\ cs2 \in Seq(Containers) /\ Len(cs2) = Len(cs)
      /\ \A j \in 1..Len(cs) : cs2[j] = IF j = c THEN e ELSE cs[j]
  BY <1>1, ExceptSeq
<1> HIDE DEF cs2
<1>3. \A j \in 1..Len(cs2) : Good(cs2[j], Len(objs))
  BY <1>2 DEF World
<1>4. PlacesExist(objs, Len(cs2))
  BY <1>2
<1>5. World(cs2, objs)
  BY <1>2, <1>3, <1>4 DEF World
<1> QED
  BY <1>5 DEF cs2

LEMMA SameContainers ==
  ASSUME NEW cs, NEW os, World(cs, os), NEW more \in Seq(ItemObjects), Len(os) <= Len(more),
         PlacesExist(more, Len(cs))
  PROVE  World(cs, more)
<1>1. Len(os) \in Nat /\ Len(more) \in Nat
  BY LenProperties DEF World
<1> QED
  BY <1>1, MoreItems DEF World

\* The encoding of a container has a value for each of its items.
LEMMA EncodedType ==
  ASSUME World(container, item), NEW c \in 1..Len(container)
  PROVE  /\ Encoded(c) \in Seq(Values)
         /\ KeepsItems => Len(Encoded(c)) = Len(container[c].items)
         /\ container[c] \in Containers
         /\ container[c].items \in Seq(Nat) /\ container[c].value \in Seq(Values)
         /\ container[c].armed \in BOOLEAN /\ container[c].copied \in BOOLEAN
<1>1. /\ container[c] \in Containers
      /\ \A i \in 1..Len(container[c].items) : container[c].items[i] \in 1..Len(item)
      /\ kind = "FixedArray" => Len(container[c].items) = Len(container[c].value)
      /\ item \in Seq(ItemObjects)
  BY DEF World, Good
<1>2. /\ container[c].items \in Seq(Nat) /\ container[c].value \in Seq(Values)
  BY <1>1 DEF Containers
<1>3. container[c].armed \in BOOLEAN /\ container[c].copied \in BOOLEAN
  BY <1>1, Zenon DEF Containers
<1>4. /\ ValuesOf(container[c].items, item) \in Seq(Values)
      /\ Len(ValuesOf(container[c].items, item)) = Len(container[c].items)
  BY <1>1, <1>2, ValuesOfType
<1>5. Encoded(c) \in Seq(Values)
  BY <1>2, <1>4 DEF Encoded
<1>6. KeepsItems => Len(Encoded(c)) = Len(container[c].items)
  BY <1>1, <1>4 DEF Encoded, KeepsItems, KeepsEncoding
<1> QED
  BY <1>1, <1>2, <1>3, <1>5, <1>6

-----------------------------------------------------------------------------
(* What a step does to the slot and to the containers.                     *)

\* Container c becomes e. The slot changes only if that uses up a read.
Becomes(c, e) ==
  /\ container' = [container EXCEPT ![c] = e]
  /\ e.copied = container[c].copied
  /\ e.armed => container[c].armed
  /\ stored' # stored => container[c].armed /\ ~e.armed

Makes(e) ==
  /\ container' = Append(container, e)
  /\ e.copied => ~e.armed
  /\ stored' = stored

Assigns ==
  /\ container' = container
  /\ \/ stored' \in {stored, Missing}
     \/ \E c \in DOMAIN container : stored' = Encoded(c)

Effect ==
  /\ World(container', item') /\ stored' \in StoredType
  /\ \/ Assigns
     \/ \E e \in Containers : Makes(e)
     \/ \E c \in DOMAIN container : \E e \in Containers : Becomes(c, e)

Typed == kind \in AllKinds /\ World(container, item) /\ stored \in StoredType

LEMMA TypedFacts ==
  ASSUME Typed
  PROVE  /\ container \in Seq(Containers) /\ Len(container) \in Nat
         /\ DOMAIN container = 1..Len(container)
         /\ item \in Seq(ItemObjects) /\ Len(item) \in Nat /\ DOMAIN item = 1..Len(item)
         /\ PlacesExist(item, Len(container))
  BY LenProperties DEF Typed, World

LEMMA ExceptAny ==
  ASSUME NEW S, NEW s \in Seq(S), NEW i, NEW e \in S
  PROVE  /\ [s EXCEPT ![i] = e] \in Seq(S) /\ Len([s EXCEPT ![i] = e]) = Len(s)
         /\ \A j \in 1..Len(s) : [s EXCEPT ![i] = e][j] \in {s[j], e}
<1>1. DOMAIN s = 1..Len(s) /\ Len(s) \in Nat /\ s \in [1..Len(s) -> S]
  BY LenProperties
<1>2. [s EXCEPT ![i] = e] \in [1..Len(s) -> S]
  BY <1>1
<1>3. \A j \in 1..Len(s) : [s EXCEPT ![i] = e][j] \in {s[j], e}
  BY <1>1
<1> QED
  BY <1>1, <1>2, <1>3, FunctionIsSeq

\* A container that is made of items, and adds items nothing has read.
LEMMA MakeEffect ==
  ASSUME Typed, NEW objs \in Seq(ItemObjects), Len(item) <= Len(objs),
         PlacesExist(objs, Len(container) + 1),
         NEW its \in Seq(Nat), \A i \in 1..Len(its) : its[i] \in 1..Len(objs),
         NEW values \in Seq(Values), NEW armed \in BOOLEAN, NEW copied \in BOOLEAN,
         copied => ~armed, kind = "FixedArray" => Len(its) = Len(values),
         container' = Append(container, Container(its, values, armed, copied)),
         item' = objs, stored' = stored
  PROVE  Effect
<1> DEFINE e == Container(its, values, armed, copied)
<1>1. Len(objs) \in Nat
  BY LenProperties
<1>2. Good(e, Len(objs))
  BY <1>1, GoodContainer
<1>3. e \in Containers /\ e.armed = armed /\ e.copied = copied
  BY <1>2 DEF Good, Container
<1> HIDE DEF e
<1>4. World(Append(container, e), objs)
  BY <1>2, AddContainer DEF Typed
<1>5. container' = Append(container, e)
  BY DEF e
<1>6. Makes(e)
  BY <1>3, <1>5 DEF Makes
<1> QED
  BY <1>3, <1>4, <1>5, <1>6 DEF Effect, Typed

\* The setter of _value, whatever happened to the items before.
LEMMA SetValueEffect ==
  ASSUME Typed, NEW c \in DOMAIN container, NEW its \in Seq(Nat),
         \A i \in 1..Len(its) : its[i] \in 1..Len(item),
         NEW v \in Seq(Values), kind = "FixedArray" => Len(its) = Len(v),
         SetValue(c, its, v),
         item' \in Seq(ItemObjects), Len(item') = Len(item),
         PlacesExist(item', Len(container))
  PROVE  Effect
<1> DEFINE e == Container(its, v, FALSE, container[c].copied)
<1>1. /\ c \in 1..Len(container) /\ Len(item) \in Nat /\ container \in Seq(Containers)
      /\ container[c].copied \in BOOLEAN
  BY TypedFacts, EncodedType DEF Typed
<1>2. Good(e, Len(item))
  BY <1>1, GoodContainer
<1>3. e \in Containers /\ e.armed = FALSE /\ e.copied = container[c].copied
  BY <1>2 DEF Good, Container
<1>4. container' = [container EXCEPT ![c] = e]
  BY DEF SetValue
<1>5. stored' = IF container[c].armed THEN v ELSE stored
  BY DEF SetValue
<1> HIDE DEF e
<1>6. World([container EXCEPT ![c] = e], item')
  BY <1>1, <1>2, ReplaceContainer DEF Typed
<1>7. stored' \in StoredType
  BY <1>5 DEF StoredType, Typed
<1>8. Becomes(c, e)
  BY <1>3, <1>4, <1>5 DEF Becomes
<1> QED
  BY <1>3, <1>4, <1>6, <1>7, <1>8 DEF Effect

\* An item is put in a container, by a statement or by a callback.
LEMMA PutItemEffect ==
  ASSUME Typed, NEW c \in DOMAIN container, NEW i \in Nat, NEW o \in DOMAIN item,
         NEW objs \in Seq(ItemObjects), Len(objs) = Len(item),
         PlacesExist(objs, Len(container)), PutItem(c, i, o, objs)
  PROVE  Effect
<1>1. /\ c \in 1..Len(container) /\ o \in 1..Len(item) /\ Len(item) \in Nat
      /\ Len(container) \in Nat
  BY TypedFacts
<1>2. /\ container[c].items \in Seq(Nat) /\ container[c].value \in Seq(Values)
      /\ \A j \in 1..Len(container[c].items) : container[c].items[j] \in 1..Len(item)
  BY <1>1, EncodedType DEF Typed, World, Good
<1>3. CASE KeepsItems
  <2> DEFINE its == [container[c].items EXCEPT ![i] = o]
  <2>1. o \in Nat
    BY <1>1
  <2>2. /\ its \in Seq(Nat) /\ Len(its) = Len(container[c].items)
        /\ \A j \in 1..Len(container[c].items) : its[j] \in {container[c].items[j], o}
    <3>1. ASSUME NEW s \in Seq(Nat)
          PROVE  LET t == [s EXCEPT ![i] = o]
                 IN  /\ t \in Seq(Nat) /\ Len(t) = Len(s)
                     /\ \A j \in 1..Len(s) : t[j] \in {s[j], o}
      BY <2>1, ExceptAny
    <3> QED
      BY <1>2, <3>1
  <2>3. SetValue(c, its, ValuesOf(its, objs)) /\ item' = Arm(c, its, objs)
    BY <1>3 DEF PutItem
  <2> HIDE DEF its
  <2>4. \A j \in 1..Len(its) : its[j] \in 1..Len(item)
    BY <1>1, <1>2, <2>2
  <2>5. ValuesOf(its, objs) \in Seq(Values) /\ Len(ValuesOf(its, objs)) = Len(its)
    BY <2>2, <2>4, ValuesOfType
  <2>6. /\ item' \in Seq(ItemObjects) /\ Len(item') = Len(item)
        /\ PlacesExist(item', Len(container))
    BY <1>1, <2>3, ArmType, ArmPlaces
  <2> QED
    BY <2>2, <2>3, <2>4, <2>5, <2>6, SetValueEffect
<1>4. CASE ~KeepsItems
  <2> DEFINE v == [container[c].value EXCEPT ![i] = objs[o].value]
  <2>0. objs[o] \in ItemObjects
    BY <1>1, ElementOfSeq
  <2>1. objs[o].value \in Values
    BY <2>0 DEF ItemObjects
  <2>2. v \in Seq(Values)
    <3>1. ASSUME NEW s \in Seq(Values), NEW x \in Values PROVE [s EXCEPT ![i] = x] \in Seq(Values)
      BY ExceptAny
    <3> QED
      BY <1>2, <2>1, <3>1 DEF v
  <2>3. SetValue(c, <<>>, v) /\ item' = objs
    BY <1>4 DEF PutItem
  <2> HIDE DEF v
  <2>4. /\ <<>> \in Seq(Nat) /\ kind # "FixedArray"
        /\ \A j \in 1..Len(<<>>) : <<>>[j] \in 1..Len(item)
    BY <1>4, EmptySeq DEF KeepsItems
  <2>5. /\ item' \in Seq(ItemObjects) /\ Len(item') = Len(item)
        /\ PlacesExist(item', Len(container))
    BY <2>3
  <2> QED
    BY <2>2, <2>3, <2>4, <2>5, SetValueEffect
<1> QED
  BY <1>3, <1>4

\* Nothing happens to the containers or the slot.
LEMMA ItemsEffect ==
  ASSUME Typed, item' \in Seq(ItemObjects), Len(item) <= Len(item'),
         PlacesExist(item', Len(container)), container' = container,
         \/ stored' = stored
         \/ stored' = Missing
         \/ \E c \in DOMAIN container : stored' = Encoded(c)
  PROVE  Effect
<1>1. World(container, item')
  BY SameContainers DEF Typed
<1>2. ASSUME NEW c \in DOMAIN container PROVE Encoded(c) \in Seq(Values)
  BY TypedFacts, EncodedType DEF Typed
<1>3. stored' \in StoredType
  BY <1>2 DEF StoredType, Typed
<1> QED
  BY <1>1, <1>3 DEF Effect, Assigns

-----------------------------------------------------------------------------
(* One lemma for each step.                                                *)

LEMMA DecodeEffect ==
  ASSUME Typed, NEW values \in Seq(Values), NEW its \in Seq(Nat),
         \A i \in 1..Len(its) : its[i] \in 1..(Len(item) + Len(values)),
         Len(its) = Len(values),
         NEW armed \in BOOLEAN, NEW copied \in BOOLEAN, copied => ~armed,
         Decode(values, its, armed, copied), stored' = stored
  PROVE  Effect
<1>1. /\ item \in Seq(ItemObjects) /\ Len(item) \in Nat /\ Len(container) \in Nat
      /\ PlacesExist(item, Len(container)) /\ PlacesExist(item, Len(container) + 1)
      /\ Len(values) \in Nat
  BY TypedFacts, LenProperties DEF PlacesExist
<1>2. CASE KeepsItems
  <2> DEFINE more == item \o Decoded(values)
             objs == Arm(Len(container) + 1, its, more)
  <2>1. /\ more \in Seq(ItemObjects) /\ Len(more) = Len(item) + Len(values)
        /\ PlacesExist(more, Len(container) + 1)
    BY <1>1, DecodedItems
  <2>2. item' = objs
    BY <1>2 DEF Decode
  <2> HIDE DEF more
  <2>3. Len(container) + 1 \in 1..(Len(container) + 1) /\ Len(container) + 1 \in Nat
    BY <1>1
  <2>4. objs \in Seq(ItemObjects) /\ Len(objs) = Len(more)
    BY <2>1, <2>3, ArmType
  <2>5. PlacesExist(objs, Len(container) + 1)
    BY <2>1, <2>3, ArmPlaces
  <2> HIDE DEF objs
  <2>6. \A i \in 1..Len(its) : its[i] \in 1..Len(objs)
    BY <2>1, <2>4
  <2>7. Len(item) <= Len(objs)
    BY <1>1, <2>1, <2>4
  <2>8. container' = Append(container, Container(its, values, armed, copied))
    BY DEF Decode
  <2> QED
    BY <2>2, <2>4, <2>5, <2>6, <2>7, <2>8, MakeEffect
<1>3. CASE ~KeepsItems
  <2>1. item' = item
    BY <1>3 DEF Decode
  <2> DEFINE none == <<>>
  <2>2. Container(its, values, armed, copied) = Container(none, values, armed, copied)
    BY <1>3 DEF Container
  <2>3. container' = Append(container, Container(none, values, armed, copied))
    BY <2>2 DEF Decode
  <2>4. /\ none \in Seq(Nat) /\ kind # "FixedArray" /\ Len(item) <= Len(item)
        /\ \A i \in 1..Len(none) : none[i] \in 1..Len(item)
    BY <1>1, <1>3, EmptySeq DEF KeepsItems
  <2> HIDE DEF none
  <2> QED
    BY <1>1, <2>1, <2>3, <2>4, MakeEffect
<1> QED
  BY <1>2, <1>3

LEMMA NewItemsType ==
  ASSUME Typed, NEW values \in Seq(Values)
  PROVE  /\ NewItems(values) \in Seq(Nat) /\ Len(NewItems(values)) = Len(values)
         /\ \A i \in 1..Len(values) : NewItems(values)[i] \in 1..(Len(item) + Len(values))
<1>1. Len(item) \in Nat /\ Len(values) \in Nat /\ DOMAIN values = 1..Len(values)
  BY TypedFacts, LenProperties
<1>2. NewItems(values) \in [1..Len(values) -> Nat]
  BY <1>1 DEF NewItems
<1>3. \A i \in 1..Len(values) : NewItems(values)[i] \in 1..(Len(item) + Len(values))
  BY <1>1 DEF NewItems
<1> QED
  BY <1>1, <1>2, <1>3, FunctionIsSeq

LEMMA CopiedItemsType ==
  ASSUME Typed, NEW c \in DOMAIN container
  PROVE  /\ CopiedItems(c) \in Seq(Nat) /\ Len(CopiedItems(c)) = Len(Encoded(c))
         /\ Encoded(c) \in Seq(Values)
         /\ \A i \in 1..Len(CopiedItems(c)) :
              CopiedItems(c)[i] \in 1..(Len(item) + Len(Encoded(c)))
<1> DEFINE old == container[c].items
           n == Len(old)
<1>1. /\ Encoded(c) \in Seq(Values)
      /\ KeepsItems => Len(Encoded(c)) = n
      /\ old \in Seq(Nat) /\ Len(item) \in Nat
  BY TypedFacts, EncodedType DEF Typed
<1>2. CASE kind = "Struct"
  <2>1. DOMAIN old = 1..n /\ n \in Nat /\ Len(Encoded(c)) = n
    BY <1>1, <1>2, LenProperties DEF KeepsItems
  <2>2. \A i \in DOMAIN old : (CHOOSE j \in DOMAIN old : old[j] = old[i]) \in DOMAIN old
    OBVIOUS
  <2>3. CopiedItems(c) =
          [i \in DOMAIN old |-> Len(item) + CHOOSE j \in DOMAIN old : old[j] = old[i]]
    BY <1>2 DEF CopiedItems
  <2> DEFINE first(i) == CHOOSE j \in DOMAIN old : old[j] = old[i]
             its == [i \in 1..n |-> Len(item) + first(i)]
  <2>4. CopiedItems(c) = its
    BY <2>1, <2>3
  <2>5. \A i \in 1..n : first(i) \in 1..n
    BY <2>1, <2>2
  <2> HIDE DEF first, n, old
  <2>6. ASSUME NEW i \in 1..n
        PROVE  Len(item) + first(i) \in Nat /\ Len(item) + first(i) \in 1..(Len(item) + n)
    <3>1. PICK j \in 1..n : first(i) = j
      BY <2>5
    <3> QED
      BY <1>1, <2>1, <3>1
  <2>7. its \in [1..n -> Nat] /\ \A i \in 1..n : its[i] \in 1..(Len(item) + n)
    BY <2>6
  <2> HIDE DEF its
  <2>8. its \in Seq(Nat) /\ Len(its) = n
    BY <2>1, <2>7, FunctionIsSeq
  <2> QED
    BY <1>1, <2>1, <2>4, <2>7, <2>8
<1>3. CASE kind # "Struct"
  <2>1. CopiedItems(c) = NewItems(Encoded(c))
    BY <1>3 DEF CopiedItems
  <2> QED
    BY <1>1, <2>1, NewItemsType
<1> QED
  BY <1>2, <1>3

LEMMA ReadSlotEffect ==
  ASSUME Typed, NEW armed \in BOOLEAN, ReadSlot(armed)
  PROVE  Effect
<1>1. stored \in Seq(Values)
  BY DEF ReadSlot, Typed, StoredType
<1>2. Decode(stored, NewItems(stored), armed, FALSE) /\ stored' = stored
  BY DEF ReadSlot
<1> QED
  BY <1>1, <1>2, NewItemsType, DecodeEffect

LEMMA CopyEffect ==
  ASSUME Typed, NEW c \in DOMAIN container, Copy(c)
  PROVE  Effect
<1>1. Decode(Encoded(c), CopiedItems(c), FALSE, TRUE) /\ stored' = stored
  BY DEF Copy
<1> QED
  BY <1>1, CopiedItemsType, DecodeEffect

LEMMA ConstructEffect ==
  ASSUME Typed, NEW its \in [1..MaxItems -> DOMAIN item], Construct(its)
  PROVE  Effect
<1>1. /\ item \in Seq(ItemObjects) /\ Len(item) \in Nat /\ Len(container) \in Nat
      /\ DOMAIN item = 1..Len(item) /\ PlacesExist(item, Len(container) + 1)
      /\ MaxItems \in Nat
  BY TypedFacts, ConstantsAssumption DEF PlacesExist
<1>2. its \in Seq(Nat) /\ Len(its) = MaxItems /\ \A i \in 1..Len(its) : its[i] \in 1..Len(item)
  <2>1. its \in [1..MaxItems -> Nat]
    BY <1>1
  <2> QED
    BY <1>1, <2>1, FunctionIsSeq
<1>3. ValuesOf(its, item) \in Seq(Values) /\ Len(ValuesOf(its, item)) = Len(its)
  BY <1>1, <1>2, ValuesOfType
<1> DEFINE objs == Arm(Len(container) + 1, its, item)
<1>4. Len(container) + 1 \in 1..(Len(container) + 1) /\ Len(container) + 1 \in Nat
  BY <1>1
<1>5. objs \in Seq(ItemObjects) /\ Len(objs) = Len(item)
  BY <1>1, <1>4, ArmType
<1>6. PlacesExist(objs, Len(container) + 1)
  BY <1>1, <1>4, ArmPlaces
<1>7. /\ container' = Append(container, Container(its, ValuesOf(its, item), FALSE, FALSE))
      /\ item' = objs /\ stored' = stored
  BY DEF Construct
<1> HIDE DEF objs
<1>8. /\ Len(item) <= Len(objs) /\ FALSE \in BOOLEAN
      /\ \A i \in 1..Len(its) : its[i] \in 1..Len(objs)
  BY <1>1, <1>2, <1>5
<1> QED
  BY <1>2, <1>3, <1>5, <1>6, <1>7, <1>8, MakeEffect

LEMMA NewItemEffect ==
  ASSUME Typed, NEW v \in Values, NewItem(v)
  PROVE  Effect
<1>1. [value |-> v, place |-> None] \in ItemObjects
  BY DEF ItemObjects, Places
<1>2. /\ item' = Append(item, [value |-> v, place |-> None])
      /\ container' = container /\ stored' = stored
  BY DEF NewItem
<1>3. /\ item' \in Seq(ItemObjects) /\ Len(item') = Len(item) + 1
      /\ PlacesExist(item', Len(container))
  BY <1>1, <1>2, TypedFacts, AppendedItem
<1>4. Len(item) <= Len(item')
  BY <1>3, TypedFacts
<1> QED
  BY <1>2, <1>3, <1>4, ItemsEffect

LEMMA ReadItemEffect ==
  ASSUME Typed, NEW c \in DOMAIN container, NEW i \in DOMAIN Encoded(c), ReadItem(c, i)
  PROVE  Effect
<1>0. /\ c \in 1..Len(container) /\ Len(container) \in Nat /\ Len(item) \in Nat
      /\ World(container, item)
  BY TypedFacts DEF Typed
<1>1. /\ c \in 1..Len(container) /\ c \in Nat /\ Encoded(c) \in Seq(Values)
      /\ KeepsItems => Len(Encoded(c)) = Len(container[c].items)
      /\ container' = container /\ stored' = stored
      /\ \A j \in 1..Len(container[c].items) : container[c].items[j] \in 1..Len(item)
      /\ Len(item) \in Nat
  <2>1. Good(container[c], Len(item))
    BY <1>0 DEF World
  <2>2. container' = container /\ stored' = stored
    BY DEF ReadItem
  <2> QED
    BY <1>0, <2>1, <2>2, EncodedType DEF Good
<1>2. i \in 1..Len(Encoded(c)) /\ i \in Nat
  BY <1>1, LenProperties
<1>3. Place(c, i) \in Nat \X Nat /\ Place(c, i)[1] = c
  BY <1>1, <1>2 DEF Place
<1>4. Place(c, i) \in Places
  BY <1>3 DEF Places
<1>5. /\ item' \in Seq(ItemObjects) /\ Len(item) <= Len(item')
      /\ PlacesExist(item', Len(container))
  <2>1. CASE KeepsItems
    <3> DEFINE o == container[c].items[i]
    <3>1. o \in 1..Len(item)
      BY <1>1, <1>2, <2>1
    <3>2. item' = [item EXCEPT ![o].place = Place(c, i)]
      BY <2>1 DEF ReadItem
    <3> HIDE DEF o
    <3>3. /\ item' \in Seq(ItemObjects) /\ Len(item') = Len(item)
          /\ PlacesExist(item', Len(container))
      <4> DEFINE p == Place(c, i)
      <4>1. p \in Places /\ p[1] \in 1..Len(container)
        BY <1>1, <1>3, <1>4
      <4>2. item' = [item EXCEPT ![o].place = p]
        BY <3>2
      <4> HIDE DEF p
      <4>3. item \in Seq(ItemObjects) /\ PlacesExist(item, Len(container))
        BY TypedFacts
      <4>4. LET put == [item EXCEPT ![o].place = p]
            IN  put \in Seq(ItemObjects) /\ Len(put) = Len(item) /\ PlacesExist(put, Len(container))
        BY <1>0, <3>1, <4>1, <4>3, PlaceItem
      <4> QED
        BY <4>2, <4>4
    <3> QED
      BY <1>1, <3>3
  <2>2. CASE ~KeepsItems
    <3> DEFINE e == [value |-> container[c].value[i], place |-> Place(c, i)]
    <3>1. Encoded(c) = container[c].value
      BY <2>2 DEF Encoded, KeepsItems, KeepsEncoding, Typed, AllKinds
    <3>2. container[c].value[i] \in Values
      BY <1>1, <1>2, <3>1, ElementOfSeq
    <3>3. e \in ItemObjects /\ e.place = Place(c, i)
      BY <1>4, <3>2 DEF ItemObjects
    <3>4. item' = Append(item, e)
      BY <2>2 DEF ReadItem
    <3> HIDE DEF e
    <3>5. /\ item' \in Seq(ItemObjects) /\ Len(item') = Len(item) + 1
          /\ PlacesExist(item', Len(container))
      BY <1>1, <1>3, <3>3, <3>4, TypedFacts, AppendedItem
    <3> QED
      BY <1>1, <3>5
  <2> QED
    BY <2>1, <2>2
<1> QED
  BY <1>1, <1>5, ItemsEffect

LEMMA SetItemEffect ==
  ASSUME Typed, NEW c \in DOMAIN container, NEW i \in DOMAIN Encoded(c), NEW o \in DOMAIN item,
         SetItem(c, i, o)
  PROVE  Effect
<1>1. Encoded(c) \in Seq(Values)
  BY TypedFacts, EncodedType DEF Typed
<1>2. i \in Nat
  BY <1>1, LenProperties
<1>3. PutItem(c, i, o, item)
  BY DEF SetItem
<1> QED
  BY <1>2, <1>3, TypedFacts, PutItemEffect

LEMMA ResizeEffect ==
  ASSUME Typed, NEW c \in DOMAIN container, NEW its, NEW v, Resize(c, its, v),
         kind = "DynamicArray" => v \in Seq(Values),
         kind = "Array" => its \in Seq(Nat) /\ \A i \in 1..Len(its) : its[i] \in 1..Len(item)
  PROVE  Effect
<1>1. CASE kind = "DynamicArray"
  <2> DEFINE none == <<>>
  <2>1. SetValue(c, none, v) /\ item' = item
    BY <1>1 DEF Resize
  <2>2. none \in Seq(Nat) /\ \A i \in 1..Len(none) : none[i] \in 1..Len(item)
    BY EmptySeq
  <2> HIDE DEF none
  <2> QED
    BY <1>1, <2>1, <2>2, TypedFacts, SetValueEffect
<1>2. CASE kind = "Array"
  <2> DEFINE e == [container[c] EXCEPT !.items = its]
  <2>1. /\ container' = [container EXCEPT ![c] = e]
        /\ stored' = stored /\ item' = item
    BY <1>2 DEF Resize
  <2>2. c \in 1..Len(container) /\ container[c] \in Containers
    BY TypedFacts, EncodedType DEF Typed
  <2>3. e \in Containers
    BY <1>2, <2>2 DEF Containers
  <2>4. e.items = its
    BY <2>2 DEF Containers
  <2>5. e.copied = container[c].copied /\ e.armed = container[c].armed
    BY <2>2 DEF Containers
  <2> HIDE DEF e
  <2>6. Good(e, Len(item))
    BY <1>2, <2>3, <2>4 DEF Good
  <2>7. World([container EXCEPT ![c] = e], item)
    BY <2>2, <2>6, TypedFacts, ReplaceContainer DEF Typed
  <2>8. Becomes(c, e)
    BY <2>1, <2>5 DEF Becomes
  <2> QED
    BY <2>1, <2>3, <2>7, <2>8 DEF Effect, Typed
<1>3. kind \in {"DynamicArray", "Array"}
  BY DEF Resize
<1> QED
  BY <1>1, <1>2, <1>3

LEMMA AppendItemEffect ==
  ASSUME Typed, NEW c \in DOMAIN container, NEW o \in DOMAIN item, AppendItem(c, o)
  PROVE  Effect
<1> DEFINE its == Append(container[c].items, o)
           v == Append(container[c].value, item[o].value)
<1>1. /\ container[c].items \in Seq(Nat) /\ container[c].value \in Seq(Values)
      /\ o \in 1..Len(item) /\ o \in Nat /\ item[o] \in ItemObjects
  BY TypedFacts, EncodedType, ElementOfSeq DEF Typed
<1>2. \A i \in 1..Len(container[c].items) : container[c].items[i] \in 1..Len(item)
  BY TypedFacts DEF Typed, World, Good
<1>3. v \in Seq(Values)
  BY <1>1, AppendProperties DEF ItemObjects
<1>4. its \in Seq(Nat) /\ \A i \in 1..Len(its) : its[i] \in 1..Len(item)
  <2>1. /\ its \in Seq(Nat) /\ Len(its) = Len(container[c].items) + 1
        /\ \A i \in 1..Len(container[c].items) : its[i] = container[c].items[i]
        /\ its[Len(container[c].items) + 1] = o
        /\ Len(container[c].items) \in Nat
    BY <1>1, AppendProperties
  <2> HIDE DEF its
  <2>2. ASSUME NEW i \in 1..Len(its) PROVE its[i] \in 1..Len(item)
    <3>1. i \in 1..Len(container[c].items) \/ i = Len(container[c].items) + 1
      BY <2>1
    <3> QED
      BY <1>1, <1>2, <2>1, <3>1
  <2> QED
    BY <2>1, <2>2
<1>5. Resize(c, its, v)
  BY DEF AppendItem
<1> HIDE DEF its, v
<1> QED
  BY <1>3, <1>4, <1>5, ResizeEffect

LEMMA ShorterType ==
  ASSUME NEW S, NEW s \in Seq(S), s # <<>>
  PROVE  /\ Shorter(s) \in Seq(S) /\ Len(Shorter(s)) = Len(s) - 1
         /\ \A i \in 1..(Len(s) - 1) : Shorter(s)[i] = s[i]
<1>1. Len(s) \in Nat \ {0}
  BY EmptySeq
<1>2. \A i \in 1..(Len(s) - 1) : s[i] \in S
  BY <1>1, ElementOfSeq
<1>3. 1 \in Int /\ Len(s) - 1 \in Int
  BY <1>1
<1> DEFINE t == SubSeq(s, 1, Len(s) - 1)
<1>4. /\ t \in Seq(S)
      /\ Len(t) = IF 1 <= Len(s) - 1 THEN Len(s) - 1 - 1 + 1 ELSE 0
      /\ \A i \in 1..(Len(s) - 1 - 1 + 1) : t[i] = s[1 + i - 1]
  BY <1>2, <1>3, SubSeqProperties
<1> HIDE DEF t
<1>5. Len(t) = Len(s) - 1
  <2>1. CASE Len(s) = 1
    BY <1>4, <2>1
  <2>2. CASE Len(s) # 1
    <3>1. \A n \in Nat : n # 0 /\ n # 1 => 1 <= n - 1 /\ n - 1 - 1 + 1 = n - 1
      OBVIOUS
    <3>2. Len(s) \in Nat /\ Len(s) # 0
      BY <1>1
    <3>3. 1 <= Len(s) - 1 /\ Len(s) - 1 - 1 + 1 = Len(s) - 1
      BY <2>2, <3>1, <3>2
    <3> QED
      BY <1>4, <3>3
  <2> QED
    BY <2>1, <2>2
<1>6. ASSUME NEW i \in 1..(Len(s) - 1) PROVE t[i] = s[i]
  BY <1>1, <1>4
<1> QED
  BY <1>4, <1>5, <1>6 DEF Shorter, t

LEMMA PopEffect ==
  ASSUME Typed, NEW c \in DOMAIN container, Pop(c)
  PROVE  Effect
<1> DEFINE old == container[c].items
           its == Shorter(old)
           v == Shorter(container[c].value)
<1>1. /\ old \in Seq(Nat) /\ container[c].value \in Seq(Values)
      /\ World(container, item) /\ c \in 1..Len(container)
  BY TypedFacts, EncodedType DEF Typed
<1>2. \A i \in 1..Len(old) : old[i] \in 1..Len(item)
  BY <1>1 DEF World, Good
<1>3. Resize(c, its, v) /\ Encoded(c) # <<>>
  BY DEF Pop
<1>4. ASSUME kind = "DynamicArray" PROVE v \in Seq(Values)
  <2>1. container[c].value # <<>>
    BY <1>3, <1>4 DEF Encoded, KeepsEncoding
  <2> QED
    BY <1>1, <2>1, ShorterType
<1>5. ASSUME kind = "Array"
      PROVE  its \in Seq(Nat) /\ \A i \in 1..Len(its) : its[i] \in 1..Len(item)
  <2>1. old # <<>>
    <3>1. Encoded(c) \in Seq(Values) /\ Len(Encoded(c)) = Len(old)
      BY <1>1, <1>5, EncodedType DEF KeepsItems
    <3>2. Len(Encoded(c)) # 0
      BY <1>3, <3>1, EmptySeq
    <3> QED
      BY <3>1, <3>2, EmptySeq
  <2> HIDE DEF old
  <2>2. /\ its \in Seq(Nat) /\ Len(its) = Len(old) - 1
        /\ \A i \in 1..(Len(old) - 1) : its[i] = old[i]
    BY <1>1, <2>1, ShorterType
  <2>3. Len(old) \in Nat
    BY <1>1, LenProperties
  <2> HIDE DEF its
  <2> QED
    BY <1>2, <2>2, <2>3
<1> HIDE DEF its, v
<1> QED
  BY <1>3, <1>4, <1>5, ResizeEffect

LEMMA WriteBackEffect ==
  ASSUME Typed, NEW c \in DOMAIN container, NEW i \in Nat, NEW o \in DOMAIN item,
         NEW objs \in Seq(ItemObjects), Len(objs) = Len(item),
         PlacesExist(objs, Len(container)), WriteBack(c, i, o, objs)
  PROVE  Effect
<1> DEFINE cleared == [objs EXCEPT ![o].place = None]
<1>1. /\ c \in 1..Len(container) /\ o \in 1..Len(objs) /\ Len(container) \in Nat
      /\ None \in Places /\ Len(item) \in Nat
  BY TypedFacts DEF Places
<1>2. /\ cleared \in Seq(ItemObjects) /\ Len(cleared) = Len(item)
      /\ PlacesExist(cleared, Len(container))
  <2>1. LET put == [objs EXCEPT ![o].place = None]
        IN  put \in Seq(ItemObjects) /\ Len(put) = Len(objs) /\ PlacesExist(put, Len(container))
    BY <1>1, PlaceItem
  <2> QED
    BY <2>1
<1>3. CASE kind = "Struct"
  <2> DEFINE its == container[c].items
             armed == Arm(c, its, objs)
  <2>1. SetValue(c, its, ValuesOf(its, objs)) /\ item' = [armed EXCEPT ![o].place = None]
    BY <1>3 DEF WriteBack
  <2>2. its \in Seq(Nat) /\ \A j \in 1..Len(its) : its[j] \in 1..Len(item)
    BY <1>1, EncodedType DEF Typed, World, Good
  <2>3. ValuesOf(its, objs) \in Seq(Values)
    BY <2>2, ValuesOfType
  <2>4. armed \in Seq(ItemObjects) /\ Len(armed) = Len(item) /\ PlacesExist(armed, Len(container))
    BY <1>1, ArmType, ArmPlaces
  <2> HIDE DEF its, armed
  <2>5. LET put == [armed EXCEPT ![o].place = None]
        IN  put \in Seq(ItemObjects) /\ Len(put) = Len(armed) /\ PlacesExist(put, Len(container))
    BY <1>1, <2>4, PlaceItem
  <2>6. /\ item' \in Seq(ItemObjects) /\ Len(item') = Len(item)
        /\ PlacesExist(item', Len(container))
    BY <2>1, <2>4, <2>5
  <2> QED
    BY <1>3, <2>1, <2>2, <2>3, <2>6, SetValueEffect
<1>4. CASE kind # "Struct" /\ (kind = "Tuple" \/ i > Len(Encoded(c)))
  <2>1. item' = objs /\ container' = container /\ stored' = stored
    BY <1>4 DEF WriteBack
  <2> QED
    BY <1>1, <2>1, ItemsEffect
<1>5. CASE kind # "Struct" /\ ~(kind = "Tuple" \/ i > Len(Encoded(c)))
  <2>1. PutItem(c, i, o, cleared)
    BY <1>5 DEF WriteBack
  <2> HIDE DEF cleared
  <2> QED
    BY <1>2, <2>1, PutItemEffect
<1> QED
  BY <1>3, <1>4, <1>5

LEMMA ChangeItemEffect ==
  ASSUME Typed, NEW o \in DOMAIN item, NEW v \in Values, ChangeItem(o, v)
  PROVE  Effect
<1> DEFINE objs == [item EXCEPT ![o].value = v]
           place == item[o].place
<1>1. /\ item \in Seq(ItemObjects) /\ Len(container) \in Nat /\ o \in 1..Len(item)
      /\ PlacesExist(item, Len(container)) /\ item[o] \in ItemObjects
      /\ DOMAIN container = 1..Len(container) /\ Len(item) \in Nat
  BY TypedFacts, ElementOfSeq
<1>2. objs \in Seq(ItemObjects) /\ Len(objs) = Len(item) /\ PlacesExist(objs, Len(container))
  BY <1>1, ChangedItem
<1>3. IF place = None THEN item' = objs /\ container' = container /\ stored' = stored
                      ELSE WriteBack(place[1], place[2], o, objs)
  BY DEF ChangeItem
<1>4. place # None => place[1] \in DOMAIN container /\ place[2] \in Nat
  <2>1. place \in Places /\ (place # None => place[1] \in 1..Len(container))
    BY <1>1 DEF ItemObjects, PlacesExist
  <2> QED
    BY <1>1, <2>1 DEF Places
<1> HIDE DEF objs, place
<1>5. CASE place = None
  BY <1>1, <1>2, <1>3, <1>5, ItemsEffect
<1>6. CASE place # None
  BY <1>2, <1>3, <1>4, <1>6, WriteBackEffect
<1> QED
  BY <1>5, <1>6

LEMMA SetSlotEffect ==
  ASSUME Typed, NEW c \in DOMAIN container, SetSlot(c)
  PROVE  Effect
<1>1. /\ stored' = Encoded(c) /\ container' = container
      /\ item' = Arm(c, container[c].items, item)
  BY DEF SetSlot
<1>2. /\ item \in Seq(ItemObjects) /\ Len(item) \in Nat /\ Len(container) \in Nat
      /\ c \in 1..Len(container) /\ c \in Nat /\ PlacesExist(item, Len(container))
  BY TypedFacts
<1>3. /\ item' \in Seq(ItemObjects) /\ Len(item) <= Len(item')
      /\ PlacesExist(item', Len(container))
  BY <1>1, <1>2, ArmType, ArmPlaces
<1> QED
  BY <1>1, <1>3, ItemsEffect

LEMMA DeleteSlotEffect ==
  ASSUME Typed, DeleteSlot
  PROVE  Effect
<1>1. stored' = Missing /\ container' = container /\ item' = item
  BY DEF DeleteSlot
<1>2. Len(item) <= Len(item)
  BY TypedFacts
<1> QED
  BY <1>1, <1>2, TypedFacts, ItemsEffect

-----------------------------------------------------------------------------
(* Theorems.                                                               *)

LEMMA StepEffect ==
  ASSUME Typed, Step
  PROVE  Effect /\ kind' = kind
<1>1. ASSUME NEW armed \in BOOLEAN, ReadSlot(armed) PROVE Effect /\ kind' = kind
  BY <1>1, ReadSlotEffect DEF ReadSlot
<1>2. ASSUME NEW its \in [1..MaxItems -> DOMAIN item], Construct(its)
      PROVE  Effect /\ kind' = kind
  BY <1>2, ConstructEffect DEF Construct
<1>3. ASSUME NEW v \in Values, NewItem(v) PROVE Effect /\ kind' = kind
  BY <1>3, NewItemEffect DEF NewItem
<1>4. ASSUME NEW v \in Values, NEW o \in DOMAIN item, ChangeItem(o, v)
      PROVE  Effect /\ kind' = kind
  BY <1>4, ChangeItemEffect DEF ChangeItem
<1>5. ASSUME NEW c \in DOMAIN container,
             \/ Copy(c) \/ SetSlot(c) \/ Pop(c)
             \/ \E i \in DOMAIN Encoded(c) :
                  ReadItem(c, i) \/ \E o \in DOMAIN item : SetItem(c, i, o)
             \/ \E o \in DOMAIN item : AppendItem(c, o)
      PROVE  Effect /\ kind' = kind
  <2>1. CASE Copy(c)
    BY <2>1, CopyEffect DEF Copy
  <2>2. CASE SetSlot(c)
    BY <2>2, SetSlotEffect DEF SetSlot
  <2>3. CASE Pop(c)
    BY <2>3, PopEffect DEF Pop, Resize
  <2>4. ASSUME NEW i \in DOMAIN Encoded(c), ReadItem(c, i) PROVE Effect /\ kind' = kind
    BY <2>4, ReadItemEffect DEF ReadItem
  <2>5. ASSUME NEW i \in DOMAIN Encoded(c), NEW o \in DOMAIN item, SetItem(c, i, o)
        PROVE  Effect /\ kind' = kind
    BY <2>5, SetItemEffect DEF SetItem
  <2>6. ASSUME NEW o \in DOMAIN item, AppendItem(c, o) PROVE Effect /\ kind' = kind
    BY <2>6, AppendItemEffect DEF AppendItem, Resize
  <2> QED
    BY <1>5, <2>1, <2>2, <2>3, <2>4, <2>5, <2>6
<1>6. CASE DeleteSlot
  BY <1>6, DeleteSlotEffect DEF DeleteSlot
<1> QED
  BY <1>1, <1>2, <1>3, <1>4, <1>5, <1>6 DEF Step

LEMMA TypeNext ==
  ASSUME kind \in AllKinds, kind' = kind, steps' \in Nat, stored' \in StoredType,
         World(container', item')
  PROVE  TypeOK'
<1> DEFINE cs == container'
           os == item'
<1>1. /\ cs \in Seq(Containers) /\ os \in Seq(ItemObjects)
      /\ PlacesExist(os, Len(cs)) /\ \A c \in 1..Len(cs) : Good(cs[c], Len(os))
  BY DEF World
<1>2. DOMAIN cs = 1..Len(cs) /\ DOMAIN os = 1..Len(os)
  BY <1>1, LenProperties
<1>3. \A c \in 1..Len(cs) : cs[c].items \in Seq(Nat)
  BY <1>1 DEF Good, Containers
<1>4. \A c \in 1..Len(cs) : DOMAIN cs[c].items = 1..Len(cs[c].items)
  BY <1>3, LenProperties
<1> HIDE DEF cs, os
<1>5. \A c \in DOMAIN cs : \A i \in DOMAIN cs[c].items : cs[c].items[i] \in DOMAIN os
  BY <1>1, <1>2, <1>4 DEF Good
<1>6. \A c \in DOMAIN cs : kind = "FixedArray" => Len(cs[c].items) = Len(cs[c].value)
  BY <1>1, <1>2 DEF Good
<1>7. \A o \in DOMAIN os : os[o].place # None => os[o].place[1] \in DOMAIN cs
  BY <1>1, <1>2 DEF PlacesExist
<1> QED
  BY <1>1, <1>5, <1>6, <1>7 DEF TypeOK, StoredType, cs, os

LEMMA NextEffect ==
  ASSUME TypeOK, Next
  PROVE  Effect /\ kind' = kind /\ TypeOK'
<1>1. Typed /\ steps \in Nat
  BY TypeOKMeans DEF Typed
<1>2. Step /\ steps' = steps + 1
  BY DEF Next
<1>3. Effect /\ kind' = kind
  BY <1>1, <1>2, StepEffect
<1> QED
  BY <1>1, <1>2, <1>3, TypeNext DEF Effect, Typed

LEMMA TypeStep == TypeOK /\ [Next]_vars => TypeOK'
<1> SUFFICES ASSUME TypeOK, [Next]_vars PROVE TypeOK'
  OBVIOUS
<1>1. CASE Next
  BY <1>1, NextEffect
<1>2. CASE UNCHANGED vars
  BY <1>2 DEF vars, TypeOK
<1> QED
  BY <1>1, <1>2

LEMMA InitType == Init => TypeOK
<1> SUFFICES ASSUME Init PROVE TypeOK
  OBVIOUS
<1>1. stored \in Seq(Values) \cup {Missing}
  BY ConstantsAssumption, FunctionIsSeq DEF Init
<1>2. kind \in AllKinds
  BY ConstantsAssumption DEF Init
<1>3. /\ <<>> \in Seq(Containers) /\ <<>> \in Seq(ItemObjects) /\ DOMAIN <<>> = {}
  BY EmptySeq
<1> QED
  BY <1>1, <1>2, <1>3 DEF Init, TypeOK

\* Every reference is to an object that exists, and a fixed array keeps as many
\* items as its encoding has (array.py:242-245), whatever is done with them.
THEOREM TypeCorrect == Spec => []TypeOK
  BY InitType, TypeStep, PTL DEF Spec

\* copy() discards the callback (mutable.py:33-37), and nothing gives a copy one.
CopiesUnarmed ==
  \A c \in DOMAIN container : container[c].copied => ~container[c].armed

LEMMA CopiesStep ==
  ASSUME TypeOK, CopiesUnarmed, [Next]_vars
  PROVE  CopiesUnarmed'
<1>1. CASE UNCHANGED vars
  BY <1>1 DEF vars, CopiesUnarmed
<1>2. CASE Next
  <2>1. Effect
    BY <1>2, NextEffect
  <2>2. container \in Seq(Containers) /\ DOMAIN container = 1..Len(container)
        /\ Len(container) \in Nat
    BY LenProperties DEF TypeOK
  <2>3. CASE container' = container
    BY <2>3 DEF CopiesUnarmed
  <2>4. ASSUME NEW e \in Containers, Makes(e) PROVE CopiesUnarmed'
    <3>1. /\ container' \in Seq(Containers) /\ Len(container') = Len(container) + 1
          /\ \A c \in 1..Len(container) : container'[c] = container[c]
          /\ container'[Len(container) + 1] = e
      BY <2>2, <2>4, AppendProperties DEF Makes
    <3>2. \A c \in DOMAIN container' : c \in DOMAIN container \/ c = Len(container) + 1
      BY <2>2, <3>1, LenProperties
    <3>3. e.copied => ~e.armed
      BY <2>4 DEF Makes
    <3>4. ASSUME NEW c \in DOMAIN container', container'[c].copied
          PROVE  ~container'[c].armed
      BY <2>2, <3>1, <3>2, <3>3, <3>4, Zenon DEF CopiesUnarmed
    <3> QED
      BY <3>4 DEF CopiesUnarmed
  <2>5. ASSUME NEW c \in DOMAIN container, NEW e \in Containers, Becomes(c, e)
        PROVE  CopiesUnarmed'
    <3>1. /\ DOMAIN container' = DOMAIN container
          /\ \A d \in DOMAIN container : container'[d] = IF d = c THEN e ELSE container[d]
      BY <2>5 DEF Becomes
    <3>2. e.copied => ~e.armed
      BY <2>5, Zenon DEF Becomes, CopiesUnarmed
    <3>3. ASSUME NEW d \in DOMAIN container, container'[d].copied PROVE ~container'[d].armed
      BY <3>1, <3>2, <3>3, Zenon DEF CopiesUnarmed
    <3> QED
      BY <3>1, <3>3 DEF CopiesUnarmed
  <2> QED
    BY <2>1, <2>3, <2>4, <2>5 DEF Effect, Assigns
<1> QED
  BY <1>1, <1>2

LEMMA InitCopies == Init => CopiesUnarmed
  BY DEF Init, CopiesUnarmed

LEMMA CopiesInvariant == Spec => [](TypeOK /\ CopiesUnarmed)
<1>1. Init => TypeOK /\ CopiesUnarmed
  BY InitType, InitCopies
<1>2. TypeOK /\ CopiesUnarmed /\ [Next]_vars => TypeOK' /\ CopiesUnarmed'
  BY TypeStep, CopiesStep
<1> QED
  BY <1>1, <1>2, PTL DEF Spec

Detached ==
  stored' # stored =>
    \A c \in DOMAIN container : container[c].copied => container'[c] = container[c]

LEMMA DetachedStep ==
  ASSUME TypeOK, CopiesUnarmed, Next
  PROVE  Detached
<1>1. Effect
  BY NextEffect
<1>2. CASE container' = container
  BY <1>2 DEF Detached
<1>3. ASSUME NEW e \in Containers, Makes(e) PROVE Detached
  BY <1>3 DEF Makes, Detached
<1>4. ASSUME NEW c \in DOMAIN container, NEW e \in Containers, Becomes(c, e) PROVE Detached
  <2>1. SUFFICES ASSUME stored' # stored, NEW d \in DOMAIN container, container[d].copied
                 PROVE  container'[d] = container[d]
    BY Zenon DEF Detached
  <2>2. container[c].armed
    BY <1>4, <2>1, Zenon DEF Becomes
  <2>3. d # c
    BY <2>1, <2>2, Zenon DEF CopiesUnarmed
  <2> QED
    BY <1>4, <2>3 DEF Becomes
<1> QED
  BY <1>1, <1>2, <1>3, <1>4 DEF Effect, Assigns

\* A value made by copy() never writes to storage, nor does anything read from
\* it: what reaches the slot used up the callback of another object.
THEOREM CopiesDetached == Spec => CopiesAreDetached
<1>1. TypeOK /\ CopiesUnarmed /\ [Next]_vars => [Detached]_vars
  BY DetachedStep
<1> QED
  BY <1>1, CopiesInvariant, PTL DEF Spec, CopiesAreDetached, Detached

OneWrite ==
  stored' # stored =>
    \/ container' = container /\ (stored' = Missing
                                  \/ \E c \in DOMAIN container : stored' = Encoded(c))
    \/ \E c \in DOMAIN container : container[c].armed /\ ~container'[c].armed

LEMMA OneWriteStep ==
  ASSUME TypeOK, Next
  PROVE  OneWrite
<1>1. Effect
  BY NextEffect
<1>2. CASE Assigns
  BY <1>2 DEF Assigns, OneWrite
<1>3. ASSUME NEW e \in Containers, Makes(e) PROVE OneWrite
  BY <1>3 DEF Makes, OneWrite
<1>4. ASSUME NEW c \in DOMAIN container, NEW e \in Containers, Becomes(c, e) PROVE OneWrite
  <2>1. SUFFICES ASSUME stored' # stored PROVE container[c].armed /\ ~container'[c].armed
    BY Zenon DEF OneWrite
  <2>2. container'[c] = e
    BY <1>4 DEF Becomes
  <2> QED
    BY <1>4, <2>1, <2>2, Zenon DEF Becomes
<1> QED
  BY <1>1, <1>2, <1>3, <1>4 DEF Effect

\* The callback of a read is called once (mutable.py:26-31): however many
\* objects a program holds and changes, storage changes when it is assigned or
\* deleted, or for the first change since a read.
THEOREM WritesOncePerRead == Spec => OneWritePerRead
<1>1. TypeOK /\ [Next]_vars => [OneWrite]_vars
  BY OneWriteStep
<1> QED
  BY <1>1, TypeCorrect, PTL DEF Spec, OneWritePerRead, OneWrite

-----------------------------------------------------------------------------
(* A statement that changes slot.value[i] reaches that item of the slot,   *)
(* for every type of container but the tuple, whose items have no way      *)
(* back, and for programs of any length. First what is known of a          *)
(* container between slot.value and the change.                            *)

\* Container c can write to the slot, and holds what the slot does, in items of
\* which no two are the same object.
Fresh(c) ==
  /\ c \in DOMAIN container /\ container[c].armed
  /\ stored \in Seq(Values)
  /\ KeepsEncoding => container[c].value = stored
  /\ KeepsItems =>
       /\ Len(container[c].items) = Len(stored)
       /\ \A j \in 1..Len(stored) : item[container[c].items[j]].value = stored[j]
       /\ \A j, k \in 1..Len(stored) : container[c].items[j] = container[c].items[k] => j = k

\* Object o was read from it as item i, and is to be written back there.
ReadFrom(c, i, o) ==
  /\ Fresh(c) /\ i \in 1..Len(stored) /\ o \in DOMAIN item
  /\ item[o].place = Place(c, i)
  /\ KeepsItems => container[c].items[i] = o

PathInv ==
  /\ kind \in Kinds
  /\ \/ path = <<>>
     \/ \E c \in Nat : path = <<c>> /\ Fresh(c)
     \/ \E c, i, o \in Nat : path = <<c, i, o>> /\ ReadFrom(c, i, o)

-----------------------------------------------------------------------------
(* Reading the slot, and an item of what was read.                         *)

LEMMA DecodedValues ==
  ASSUME NEW os \in Seq(ItemObjects), NEW values \in Seq(Values)
  PROVE  LET more == os \o Decoded(values)
         IN  /\ Len(more) = Len(os) + Len(values)
             /\ \A o \in 1..Len(os) : more[o] = os[o]
             /\ \A i \in 1..Len(values) : more[Len(os) + i].value = values[i]
<1> DEFINE d == Decoded(values)
           more == os \o d
<1>1. /\ DOMAIN values = 1..Len(values) /\ Len(values) \in Nat /\ Len(os) \in Nat
      /\ \A i \in 1..Len(values) : values[i] \in Values
  BY LenProperties, ElementOfSeq
<1>2. \A i \in 1..Len(values) : [value |-> values[i], place |-> None] \in ItemObjects
  BY <1>1 DEF ItemObjects, Places
<1>3. /\ d \in [1..Len(values) -> ItemObjects]
      /\ \A i \in 1..Len(values) : d[i].value = values[i]
  BY <1>1, <1>2 DEF Decoded
<1>4. d \in Seq(ItemObjects) /\ Len(d) = Len(values)
  BY <1>1, <1>3, FunctionIsSeq
<1> HIDE DEF d
<1> HIDE DEF more
<1>5. /\ Len(more) = Len(os) + Len(d)
      /\ \A i \in 1..(Len(os) + Len(d)) :
           more[i] = IF i <= Len(os) THEN os[i] ELSE d[i - Len(os)]
  BY <1>4, ConcatProperties, Zenon DEF more
<1>6. ASSUME NEW o \in 1..Len(os) PROVE more[o] = os[o]
  BY <1>1, <1>4, <1>5
<1>7. ASSUME NEW i \in 1..Len(values) PROVE more[Len(os) + i].value = values[i]
  <2>1. Len(os) + i \in 1..(Len(os) + Len(d)) /\ ~(Len(os) + i <= Len(os))
        /\ Len(os) + i - Len(os) = i
    BY <1>1, <1>4
  <2> QED
    BY <1>3, <1>5, <2>1
<1> QED
  BY <1>4, <1>5, <1>6, <1>7 DEF more, d

\* slot.value decodes a container that is armed, of items nothing else has.
LEMMA ReadSlotFresh ==
  ASSUME Typed, ReadSlot(TRUE)
  PROVE  \E c \in Nat : path' = <<c>> /\ Fresh(c)'
<1>1. /\ stored \in Seq(Values) /\ stored' = stored /\ kind' = kind
      /\ Decode(stored, NewItems(stored), TRUE, FALSE)
      /\ path' = <<Len(container) + 1>>
  BY DEF ReadSlot, Typed, StoredType
<1>2. /\ container \in Seq(Containers) /\ Len(container) \in Nat
      /\ item \in Seq(ItemObjects) /\ Len(item) \in Nat
      /\ Len(stored) \in Nat /\ DOMAIN stored = 1..Len(stored)
  BY <1>1, TypedFacts, LenProperties
<1> PICK n \in Nat : n = Len(container) + 1
  BY <1>2
<1> PICK its : its = NewItems(stored)
  OBVIOUS
<1> DEFINE e == Container(its, stored, TRUE, FALSE)
<1>3. /\ its \in Seq(Nat) /\ Len(its) = Len(stored)
      /\ \A j \in 1..Len(stored) : its[j] = Len(item) + j
  BY <1>1, <1>2, NewItemsType DEF NewItems
<1>4. /\ e \in Containers /\ e.armed
      /\ KeepsItems => e.items = its
      /\ KeepsEncoding => e.value = stored
  <2>1. \A i \in 1..Len(its) : its[i] \in 1..(Len(item) + Len(stored))
    BY <1>2, <1>3
  <2>2. Good(e, Len(item) + Len(stored))
    <3>1. ASSUME NEW armed \in BOOLEAN, NEW copied \in BOOLEAN
          PROVE  Good(Container(its, stored, armed, copied), Len(item) + Len(stored))
      <4>1. Len(item) + Len(stored) \in Nat
        BY <1>2
      <4> QED
        BY <1>1, <1>3, <2>1, <4>1, GoodContainer
    <3> QED
      BY <3>1
  <2>3. e.armed
    BY DEF Container
  <2> QED
    BY <2>2, <2>3 DEF Good, Container
<1>5. container' = Append(container, e)
  BY <1>1 DEF Decode
<1> HIDE DEF e
<1>6. n \in DOMAIN container' /\ container'[n] = e
  <2>1. /\ container' \in Seq(Containers) /\ Len(container') = Len(container) + 1
        /\ container'[Len(container) + 1] = e
    BY <1>2, <1>4, <1>5, AppendProperties
  <2> QED
    BY <1>2, <2>1, LenProperties
<1>7. ASSUME KeepsItems
      PROVE  \A j \in 1..Len(stored) : item'[its[j]].value = stored[j]
  <2> DEFINE more == item \o Decoded(stored)
  <2>1. /\ more \in Seq(ItemObjects) /\ Len(more) = Len(item) + Len(stored)
        /\ \A j \in 1..Len(stored) : more[Len(item) + j].value = stored[j]
    <3>1. PlacesExist(item, Len(container))
      BY TypedFacts
    <3> QED
      BY <1>1, <1>2, <3>1, DecodedItems, DecodedValues
  <2>2. item' = Arm(n, its, more)
    BY <1>1, <1>7 DEF Decode
  <2> HIDE DEF more
  <2>3. \A o \in 1..Len(more) : item'[o].value = more[o].value
    BY <2>1, <2>2, ArmType
  <2>4. ASSUME NEW j \in 1..Len(stored) PROVE item'[its[j]].value = stored[j]
    <3>1. its[j] \in 1..Len(more) /\ its[j] = Len(item) + j
      BY <1>2, <1>3, <2>1
    <3> QED
      BY <2>1, <2>3, <3>1
  <2> QED
    BY <2>4
<1>8. \A j, k \in 1..Len(stored) : its[j] = its[k] => j = k
  BY <1>2, <1>3
<1>9. (KeepsItems' <=> KeepsItems) /\ (KeepsEncoding' <=> KeepsEncoding)
  BY <1>1 DEF KeepsItems, KeepsEncoding
<1>10. container'[n].armed
  BY <1>4, <1>6, Zenon
<1>11. Fresh(n)'
  BY <1>1, <1>3, <1>4, <1>6, <1>7, <1>8, <1>9, <1>10 DEF Fresh
<1> QED
  BY <1>1, <1>11

LEMMA ReadItemFrom ==
  ASSUME Typed, NEW c \in DOMAIN container, NEW i \in DOMAIN Encoded(c), ReadItem(c, i), Fresh(c)
  PROVE  \E o \in Nat : path' \in {<<>>, <<c, i, o>>} /\ ReadFrom(c, i, o)' /\ i \in Nat
<1>1. /\ c \in 1..Len(container) /\ Len(item) \in Nat /\ item \in Seq(ItemObjects)
      /\ DOMAIN item = 1..Len(item)
      /\ stored' = stored /\ container' = container /\ kind' = kind
  BY TypedFacts DEF ReadItem
<1>2. /\ stored \in Seq(Values) /\ container[c].armed
      /\ KeepsEncoding => container[c].value = stored
      /\ KeepsItems =>
           /\ Len(container[c].items) = Len(stored)
           /\ \A j \in 1..Len(stored) : item[container[c].items[j]].value = stored[j]
           /\ \A j, k \in 1..Len(stored) : container[c].items[j] = container[c].items[k] => j = k
  BY DEF Fresh
<1>3. /\ Encoded(c) \in Seq(Values) /\ Len(Encoded(c)) = Len(stored)
      /\ \A j \in 1..Len(container[c].items) : container[c].items[j] \in 1..Len(item)
  <2>1. /\ Encoded(c) \in Seq(Values)
        /\ KeepsItems => Len(Encoded(c)) = Len(container[c].items)
    BY <1>1, EncodedType DEF Typed
  <2>2. Len(Encoded(c)) = Len(stored)
    BY <1>2, <2>1 DEF Encoded, KeepsItems, KeepsEncoding, Typed, AllKinds
  <2> QED
    BY <1>1, <2>1, <2>2 DEF Typed, World, Good
<1>4. i \in 1..Len(stored) /\ i \in Nat /\ Len(stored) \in Nat
  BY <1>2, <1>3, LenProperties
<1>5. Place(c, i) \in Places
  BY <1>1, <1>4, TypedFacts DEF Place, Places
<1> PICK o : o = IF KeepsItems THEN container[c].items[i] ELSE Len(item) + 1
  OBVIOUS
<1>6. path' = IF path = <<c>> THEN <<c, i, o>> ELSE <<>>
  BY DEF ReadItem
<1> PICK p \in Places : p = Place(c, i)
  BY <1>5
<1>7. /\ o \in Nat /\ o \in DOMAIN item' /\ item'[o].place = p
      /\ \A j \in 1..Len(item) : item'[j].value = item[j].value
  <2>1. CASE KeepsItems
    <3>1. o \in 1..Len(item)
      BY <1>2, <1>3, <1>4, <2>1
    <3>2. item' = [item EXCEPT ![o].place = p]
      BY <2>1 DEF ReadItem
    <3>3. \A j \in 1..Len(item) : item[j] \in ItemObjects
      BY <1>1, ElementOfSeq
    <3> QED
      BY <1>1, <3>1, <3>2, <3>3 DEF ItemObjects
  <2>2. CASE ~KeepsItems
    <3> PICK e : e = [value |-> container[c].value[i], place |-> p]
      OBVIOUS
    <3>1. container[c].value = stored
      BY <1>2, <2>2 DEF KeepsItems, KeepsEncoding, Typed, AllKinds
    <3>2. stored[i] \in Values
      BY <1>2, <1>4, ElementOfSeq
    <3>3. e \in ItemObjects /\ e.place = p
      BY <3>1, <3>2 DEF ItemObjects
    <3>4. item' = Append(item, e) /\ o = Len(item) + 1
      BY <2>2 DEF ReadItem
    <3>5. /\ item' \in Seq(ItemObjects) /\ Len(item') = Len(item) + 1
          /\ \A j \in 1..Len(item) : item'[j] = item[j]
          /\ item'[Len(item) + 1] = e
      BY <1>1, <3>3, <3>4, AppendProperties
    <3> QED
      BY <1>1, <3>3, <3>4, <3>5, LenProperties
  <2> QED
    BY <2>1, <2>2
<1>8. /\ KeepsItems' <=> KeepsItems
      /\ KeepsEncoding' <=> KeepsEncoding
      /\ Place(c, i)' = Place(c, i)
  BY <1>1 DEF KeepsItems, KeepsEncoding, Place
<1>9. KeepsItems => \A j \in 1..Len(stored) : item'[container[c].items[j]].value = stored[j]
  BY <1>2, <1>3, <1>7
<1>10. Fresh(c)'
  <2>1. container'[c].armed
    BY <1>1, <1>2, Zenon
  <2>2. c \in DOMAIN container'
    BY <1>1
  <2> QED
    BY <1>1, <1>2, <1>8, <1>9, <2>1, <2>2 DEF Fresh
<1>11. ReadFrom(c, i, o)'
  BY <1>1, <1>4, <1>7, <1>8, <1>10 DEF ReadFrom
<1> QED
  BY <1>4, <1>6, <1>7, <1>11

-----------------------------------------------------------------------------
(* No step changes the value of an item but ChangeItem of that item.       *)

KeptValues(os, more) ==
  /\ more \in Seq(ItemObjects) /\ Len(os) <= Len(more)
  /\ \A o \in 1..Len(os) : more[o].value = os[o].value

LEMMA ArmKeeps ==
  ASSUME NEW os \in Seq(ItemObjects), NEW c \in Nat, NEW its
  PROVE  KeptValues(os, Arm(c, its, os))
<1>1. Len(os) \in Nat
  BY LenProperties
<1> QED
  BY <1>1, ArmType DEF KeptValues

LEMMA PlaceKeeps ==
  ASSUME NEW os \in Seq(ItemObjects), NEW o, NEW p \in Places
  PROVE  LET put == [os EXCEPT ![o].place = p] IN KeptValues(os, put)
<1> DEFINE e == [os[o] EXCEPT !.place = p]
           put == [os EXCEPT ![o] = e]
<1>1. /\ DOMAIN os = 1..Len(os) /\ Len(os) \in Nat
      /\ \A j \in 1..Len(os) : os[j] \in ItemObjects
  BY LenProperties, ElementOfSeq
<1>2. o \in 1..Len(os) => e \in ItemObjects /\ e.value = os[o].value
  BY <1>1 DEF ItemObjects
<1>3. [os EXCEPT ![o].place = p] = put
  OBVIOUS
<1> HIDE DEF e
<1>4. CASE o \in 1..Len(os)
  <2>1. /\ put \in Seq(ItemObjects) /\ Len(put) = Len(os)
        /\ \A j \in 1..Len(os) : put[j] = IF j = o THEN e ELSE os[j]
    BY <1>2, <1>4, ExceptSeq
  <2> HIDE DEF put
  <2>2. KeptValues(os, put)
    BY <1>1, <1>2, <2>1 DEF KeptValues
  <2> QED
    BY <1>3, <2>2
<1>5. CASE o \notin 1..Len(os)
  <2>1. put = os
    BY <1>1, <1>5
  <2> HIDE DEF put
  <2>2. KeptValues(os, put)
    BY <1>1, <2>1 DEF KeptValues
  <2> QED
    BY <1>3, <2>2
<1> QED
  BY <1>4, <1>5

LEMMA KeptTwice ==
  ASSUME NEW os \in Seq(ItemObjects), NEW some, NEW more,
         KeptValues(os, some), KeptValues(some, more)
  PROVE  KeptValues(os, more)
<1>1. Len(os) \in Nat /\ some \in Seq(ItemObjects) /\ Len(some) \in Nat
      /\ more \in Seq(ItemObjects) /\ Len(more) \in Nat
  BY LenProperties DEF KeptValues
<1> QED
  BY <1>1 DEF KeptValues

LEMMA DecodeKeeps ==
  ASSUME Typed, NEW values \in Seq(Values), NEW its, NEW armed, NEW copied,
         Decode(values, its, armed, copied)
  PROVE  KeptValues(item, item')
<1>1. /\ item \in Seq(ItemObjects) /\ Len(item) \in Nat /\ Len(container) + 1 \in Nat
      /\ Len(values) \in Nat /\ PlacesExist(item, Len(container)) /\ Len(container) \in Nat
  BY TypedFacts, LenProperties
<1>2. CASE KeepsItems
  <2> DEFINE more == item \o Decoded(values)
  <2>1. /\ more \in Seq(ItemObjects) /\ Len(more) = Len(item) + Len(values)
        /\ \A o \in 1..Len(item) : more[o] = item[o]
    BY <1>1, DecodedItems, DecodedValues
  <2>2. item' = Arm(Len(container) + 1, its, more)
    BY <1>2 DEF Decode
  <2> HIDE DEF more
  <2>3. KeptValues(item, more)
    BY <1>1, <2>1 DEF KeptValues
  <2>4. KeptValues(more, item')
    BY <1>1, <2>1, <2>2, ArmKeeps
  <2> QED
    BY <1>1, <2>3, <2>4, KeptTwice
<1>3. CASE ~KeepsItems
  BY <1>1, <1>3 DEF Decode, KeptValues
<1> QED
  BY <1>2, <1>3

LEMMA PutItemKeeps ==
  ASSUME NEW c \in Nat, NEW i, NEW o, NEW objs \in Seq(ItemObjects), PutItem(c, i, o, objs)
  PROVE  KeptValues(objs, item')
<1>1. Len(objs) \in Nat
  BY LenProperties
<1>2. CASE KeepsItems
  <2>1. PICK its : item' = Arm(c, its, objs)
    BY <1>2 DEF PutItem
  <2> QED
    BY <2>1, ArmKeeps
<1>3. CASE ~KeepsItems
  BY <1>1, <1>3 DEF PutItem, KeptValues
<1> QED
  BY <1>2, <1>3

LEMMA WriteBackKeeps ==
  ASSUME NEW c \in Nat, NEW i, NEW o, NEW objs \in Seq(ItemObjects), WriteBack(c, i, o, objs)
  PROVE  KeptValues(objs, item')
<1>0. None \in Places /\ Len(objs) \in Nat
  BY LenProperties DEF Places
<1>1. CASE kind = "Struct"
  <2> PICK armed : armed = Arm(c, container[c].items, objs)
    OBVIOUS
  <2>1. item' = [armed EXCEPT ![o].place = None]
    BY <1>1 DEF WriteBack
  <2>2. KeptValues(objs, armed)
    BY ArmKeeps
  <2>3. armed \in Seq(ItemObjects)
    BY <2>2 DEF KeptValues
  <2>4. KeptValues(armed, item')
    BY <1>0, <2>1, <2>3, PlaceKeeps
  <2> QED
    BY <2>2, <2>4, KeptTwice
<1>2. CASE kind # "Struct" /\ (kind = "Tuple" \/ i > Len(Encoded(c)))
  <2>1. item' = objs
    BY <1>2 DEF WriteBack
  <2> QED
    BY <1>0, <2>1 DEF KeptValues
<1>3. CASE kind # "Struct" /\ ~(kind = "Tuple" \/ i > Len(Encoded(c)))
  <2> PICK cleared : cleared = [objs EXCEPT ![o].place = None]
    OBVIOUS
  <2>1. PutItem(c, i, o, cleared)
    BY <1>3 DEF WriteBack
  <2>2. KeptValues(objs, cleared)
    BY <1>0, PlaceKeeps
  <2>3. cleared \in Seq(ItemObjects)
    BY <2>2 DEF KeptValues
  <2>4. KeptValues(cleared, item')
    BY <2>1, <2>3, PutItemKeeps
  <2> QED
    BY <2>2, <2>4, KeptTwice
<1> QED
  BY <1>1, <1>2, <1>3

LEMMA ChangeItemKeeps ==
  ASSUME Typed, NEW o \in DOMAIN item, NEW v \in Values, ChangeItem(o, v)
  PROVE  LET objs == [item EXCEPT ![o].value = v]
         IN  /\ objs \in Seq(ItemObjects) /\ Len(objs) = Len(item)
             /\ \A p \in DOMAIN item : objs[p].value = IF p = o THEN v ELSE item[p].value
             /\ KeptValues(objs, item')
<1> DEFINE objs == [item EXCEPT ![o].value = v]
           place == item[o].place
<1>1. /\ item \in Seq(ItemObjects) /\ o \in 1..Len(item) /\ DOMAIN item = 1..Len(item)
      /\ PlacesExist(item, Len(container)) /\ \A p \in 1..Len(item) : item[p] \in ItemObjects
      /\ Len(item) \in Nat /\ Len(container) \in Nat
  BY TypedFacts, ElementOfSeq
<1>2. objs \in Seq(ItemObjects) /\ Len(objs) = Len(item)
  BY <1>1, ChangedItem
<1>3. \A p \in DOMAIN item : objs[p].value = IF p = o THEN v ELSE item[p].value
  BY <1>1 DEF ItemObjects
<1>4. IF place = None THEN item' = objs ELSE WriteBack(place[1], place[2], o, objs)
  BY DEF ChangeItem
<1>5. place # None => place[1] \in Nat
  BY <1>1 DEF PlacesExist
<1> HIDE DEF objs, place
<1>6. KeptValues(objs, item')
  <2>1. CASE place = None
    BY <1>1, <1>2, <1>4, <2>1 DEF KeptValues
  <2>2. CASE place # None
    BY <1>2, <1>4, <1>5, <2>2, WriteBackKeeps
  <2> QED
    BY <2>1, <2>2
<1> QED
  BY <1>2, <1>3, <1>6 DEF objs

-----------------------------------------------------------------------------
(* The statement.                                                          *)

Reached(i, o) ==
  item'[o].value # item[o].value => stored' = [stored EXCEPT ![i] = item'[o].value]

\* The callback of a fresh item sets its container, whose callback sets the slot.
LEMMA ChangeReaches ==
  ASSUME Typed, kind # "Tuple", NEW c \in Nat, NEW i \in Nat, NEW o \in Nat,
         ReadFrom(c, i, o), NEW v \in Values, ChangeItem(o, v)
  PROVE  Reached(i, o)
<1> PICK objs : objs = [item EXCEPT ![o].value = v]
  OBVIOUS
<1>1. /\ c \in DOMAIN container /\ o \in DOMAIN item /\ i \in 1..Len(stored)
      /\ container[c].armed /\ stored \in Seq(Values) /\ item[o].place = Place(c, i)
      /\ KeepsEncoding => container[c].value = stored
      /\ KeepsItems =>
           /\ Len(container[c].items) = Len(stored) /\ container[c].items[i] = o
           /\ \A j \in 1..Len(stored) : item[container[c].items[j]].value = stored[j]
           /\ \A j, k \in 1..Len(stored) : container[c].items[j] = container[c].items[k] => j = k
  BY DEF ReadFrom, Fresh
<1>2. /\ Len(stored) \in Nat /\ DOMAIN stored = 1..Len(stored)
      /\ DOMAIN item = 1..Len(item) /\ Len(item) \in Nat
      /\ container[c].items \in Seq(Nat)
      /\ DOMAIN container[c].items = 1..Len(container[c].items)
      /\ \A j \in 1..Len(container[c].items) : container[c].items[j] \in DOMAIN item
      /\ Encoded(c) \in Seq(Values)
      /\ KeepsItems => Len(Encoded(c)) = Len(container[c].items)
  <2>1. c \in 1..Len(container) /\ World(container, item)
    BY <1>1, TypedFacts DEF Typed
  <2>2. Good(container[c], Len(item)) /\ container[c].items \in Seq(Nat)
    BY <2>1, EncodedType DEF World
  <2> QED
    BY <1>1, <2>1, <2>2, TypedFacts, LenProperties, EncodedType DEF Good
<1>3. /\ objs \in Seq(ItemObjects) /\ Len(objs) = Len(item)
      /\ \A p \in DOMAIN item : objs[p].value = IF p = o THEN v ELSE item[p].value
      /\ KeptValues(objs, item')
  BY <1>1, ChangeItemKeeps
<1>4. item'[o].value = v
  BY <1>1, <1>2, <1>3 DEF KeptValues
<1>5. item[o].place # None
  BY <1>1, TypedFacts, ConstantsAssumption DEF Place
<1>6. item[o].place[1] = c /\ item[o].place[2] = IF kind = "Struct" THEN 0 ELSE i
  BY <1>1 DEF Place
<1>7. WriteBack(c, IF kind = "Struct" THEN 0 ELSE i, o, objs)
  BY <1>5, <1>6 DEF ChangeItem
<1> DEFINE changed == [stored EXCEPT ![i] = v]
\* Of items that are told apart only the i-th has the new value.
<1>8. ASSUME KeepsItems, NEW os \in Seq(ItemObjects), KeptValues(objs, os)
      PROVE  ValuesOf(container[c].items, os) = changed
  <2> DEFINE its == container[c].items
  <2>1. DOMAIN its = 1..Len(stored)
    BY <1>1, <1>2, <1>8
  <2>2. \A j \in 1..Len(stored) : os[its[j]].value = objs[its[j]].value
    BY <1>1, <1>2, <1>3, <1>8 DEF KeptValues
  <2>3. \A j \in 1..Len(stored) : objs[its[j]].value = IF j = i THEN v ELSE stored[j]
    BY <1>1, <1>2, <1>3, <1>8
  <2>4. changed = [j \in 1..Len(stored) |-> IF j = i THEN v ELSE stored[j]]
    BY <1>2
  <2> HIDE DEF its, changed
  <2>5. ValuesOf(its, os) = changed
    BY <2>1, <2>2, <2>3, <2>4 DEF ValuesOf
  <2> QED
    BY <2>5 DEF its
<1>9. ASSUME NEW its, NEW x, SetValue(c, its, x) PROVE stored' = x
  BY <1>1, <1>9 DEF SetValue
<1>10. KeptValues(objs, objs)
  BY <1>2, <1>3 DEF KeptValues
<1>11. CASE kind = "Struct"
  <2>1. SetValue(c, container[c].items, ValuesOf(container[c].items, objs))
    BY <1>7, <1>11 DEF WriteBack
  <2>2. KeepsItems
    BY <1>11 DEF KeepsItems
  <2>3. stored' = changed
    BY <1>3, <1>8, <1>9, <1>10, <2>1, <2>2
  <2> QED
    BY <1>4, <2>3 DEF Reached
<1>12. CASE kind # "Struct"
  <2> PICK cleared : cleared = [objs EXCEPT ![o].place = None]
    OBVIOUS
  <2>1. Len(Encoded(c)) = Len(stored)
    BY <1>1, <1>2 DEF Encoded, KeepsItems, KeepsEncoding, Typed, AllKinds
  <2>2. PutItem(c, i, o, cleared)
    BY <1>1, <1>2, <1>7, <1>12, <2>1 DEF WriteBack
  <2>3. KeptValues(objs, cleared)
    <3>1. None \in Places
      BY DEF Places
    <3> QED
      BY <1>3, <3>1, PlaceKeeps
  <2>4. cleared \in Seq(ItemObjects)
    BY <2>3 DEF KeptValues
  <2>5. CASE KeepsItems
    <3>1. [container[c].items EXCEPT ![i] = o] = container[c].items
      <4>1. ASSUME NEW s \in Seq(Nat), NEW j \in 1..Len(s) PROVE [s EXCEPT ![j] = s[j]] = s
        BY LenProperties
      <4>2. i \in 1..Len(container[c].items) /\ container[c].items[i] = o
        BY <1>1, <2>5
      <4>3. [container[c].items EXCEPT ![i] = container[c].items[i]] = container[c].items
        BY <1>2, <4>1, <4>2
      <4> QED
        BY <4>2, <4>3
    <3>2. SetValue(c, container[c].items, ValuesOf(container[c].items, cleared))
      BY <2>2, <2>5, <3>1 DEF PutItem
    <3>3. stored' = changed
      BY <1>8, <1>9, <2>3, <2>4, <2>5, <3>2
    <3> QED
      BY <1>4, <3>3 DEF Reached
  <2>6. CASE ~KeepsItems
    <3>1. container[c].value = stored
      BY <1>1, <2>6 DEF KeepsItems, KeepsEncoding, Typed, AllKinds
    <3>2. cleared[o].value = v
      BY <1>1, <1>2, <1>3, <2>3 DEF KeptValues
    <3>3. SetValue(c, <<>>, [stored EXCEPT ![i] = v])
      BY <2>2, <2>6, <3>1, <3>2 DEF PutItem
    <3>4. stored' = changed
      BY <1>9, <3>3
    <3> QED
      BY <1>4, <3>4 DEF Reached
  <2> QED
    BY <2>5, <2>6
<1> QED
  BY <1>11, <1>12

\* The value of an item changes by ChangeItem of that item only.
LEMMA OnlyChangeItem ==
  ASSUME Typed, Step, NEW o \in DOMAIN item
  PROVE  item'[o].value = item[o].value \/ \E v \in Values : ChangeItem(o, v)
<1>1. o \in 1..Len(item) /\ item \in Seq(ItemObjects) /\ Len(item) \in Nat
  BY TypedFacts
<1>2. ASSUME KeptValues(item, item') PROVE item'[o].value = item[o].value
  BY <1>1, <1>2 DEF KeptValues
<1>3. ASSUME item' = item PROVE item'[o].value = item[o].value
  BY <1>3
<1>4. ASSUME NEW armed \in BOOLEAN, ReadSlot(armed) PROVE item'[o].value = item[o].value
  <2>1. stored \in Seq(Values) /\ Decode(stored, NewItems(stored), armed, FALSE)
    BY <1>4 DEF ReadSlot, Typed, StoredType
  <2> QED
    BY <1>2, <2>1, DecodeKeeps
<1>5. ASSUME NEW its, Construct(its) PROVE item'[o].value = item[o].value
  <2>1. item' = Arm(Len(container) + 1, its, item) /\ Len(container) + 1 \in Nat
    BY <1>5, TypedFacts DEF Construct
  <2> QED
    BY <1>1, <1>2, <2>1, ArmKeeps
<1>6. ASSUME NEW v \in Values, NewItem(v) PROVE item'[o].value = item[o].value
  <2> PICK e : e = [value |-> v, place |-> None]
    OBVIOUS
  <2>1. e \in ItemObjects /\ item' = Append(item, e)
    BY <1>6 DEF NewItem, ItemObjects, Places
  <2> QED
    BY <1>1, <2>1, AppendProperties
<1>7. ASSUME NEW v \in Values, NEW p \in DOMAIN item, ChangeItem(p, v), p # o
      PROVE  item'[o].value = item[o].value
  <2> PICK objs : objs = [item EXCEPT ![p].value = v]
    OBVIOUS
  <2>1. /\ Len(objs) = Len(item) /\ objs[o].value = item[o].value
        /\ KeptValues(objs, item')
    BY <1>7, ChangeItemKeeps
  <2> QED
    BY <1>1, <2>1 DEF KeptValues
<1>8. ASSUME NEW c \in DOMAIN container,
             \/ Copy(c) \/ SetSlot(c) \/ Pop(c)
             \/ \E i \in DOMAIN Encoded(c) :
                  ReadItem(c, i) \/ \E p \in DOMAIN item : SetItem(c, i, p)
             \/ \E p \in DOMAIN item : AppendItem(c, p)
      PROVE  item'[o].value = item[o].value
  <2>0. c \in 1..Len(container) /\ c \in Nat /\ World(container, item)
    BY TypedFacts DEF Typed
  <2>1. CASE Copy(c)
    <3>1. Encoded(c) \in Seq(Values)
      BY <2>0, EncodedType
    <3>2. Decode(Encoded(c), CopiedItems(c), FALSE, TRUE)
      BY <2>1 DEF Copy
    <3> QED
      BY <1>2, <3>1, <3>2, DecodeKeeps
  <2>2. CASE SetSlot(c)
    BY <1>1, <1>2, <2>0, <2>2, ArmKeeps DEF SetSlot
  <2>3. CASE Pop(c)
    BY <1>3, <2>3 DEF Pop, Resize
  <2>4. ASSUME NEW i \in DOMAIN Encoded(c), ReadItem(c, i) PROVE item'[o].value = item[o].value
    <3>1. Encoded(c) \in Seq(Values)
      BY <2>0, EncodedType
    <3>2. i \in Nat /\ i \in 1..Len(Encoded(c))
      BY <3>1, LenProperties
    <3> PICK p \in Places : p = Place(c, i)
      BY <2>0, <3>2 DEF Place, Places
    <3>3. CASE KeepsItems
      <4> PICK q : q = container[c].items[i]
        OBVIOUS
      <4>1. item' = [item EXCEPT ![q].place = p]
        BY <2>4, <3>3 DEF ReadItem
      <4> QED
        BY <1>1, <1>2, <4>1, PlaceKeeps
    <3>4. CASE ~KeepsItems
      <4> PICK e : e = [value |-> container[c].value[i], place |-> p]
        OBVIOUS
      <4>1. container[c].value[i] \in Values
        BY <3>1, <3>2, <3>4, ElementOfSeq DEF Encoded, KeepsItems, KeepsEncoding, Typed, AllKinds
      <4>2. e \in ItemObjects /\ item' = Append(item, e)
        BY <2>4, <3>4, <4>1 DEF ReadItem, ItemObjects
      <4> QED
        BY <1>1, <4>2, AppendProperties
    <3> QED
      BY <3>3, <3>4
  <2>5. ASSUME NEW i \in DOMAIN Encoded(c), NEW p \in DOMAIN item, SetItem(c, i, p)
        PROVE  item'[o].value = item[o].value
    <3>1. PutItem(c, i, p, item)
      BY <2>5 DEF SetItem
    <3> QED
      BY <1>1, <1>2, <2>0, <3>1, PutItemKeeps
  <2>6. ASSUME NEW p \in DOMAIN item, AppendItem(c, p) PROVE item'[o].value = item[o].value
    BY <1>3, <2>6 DEF AppendItem, Resize
  <2> QED
    BY <1>8, <2>1, <2>2, <2>3, <2>4, <2>5, <2>6
<1>9. CASE DeleteSlot
  BY <1>3, <1>9 DEF DeleteSlot
<1> QED
  BY <1>4, <1>5, <1>6, <1>7, <1>8, <1>9 DEF Step

-----------------------------------------------------------------------------
(* The invariant and the theorem.                                          *)

LEMMA PathStep ==
  ASSUME TypeOK, PathInv, [Next]_vars
  PROVE  PathInv'
<1>1. CASE UNCHANGED vars
  <2>1. /\ kind' = kind /\ stored' = stored /\ container' = container /\ item' = item
        /\ path' = path
    BY <1>1 DEF vars
  <2>2. ASSUME NEW c, Fresh(c) PROVE Fresh(c)'
    BY <2>1, <2>2, Zenon DEF Fresh, KeepsItems, KeepsEncoding
  <2>3. ASSUME NEW c, NEW i, NEW o, ReadFrom(c, i, o) PROVE ReadFrom(c, i, o)'
    BY <2>1, <2>2, <2>3, Zenon DEF ReadFrom, KeepsItems, Place
  <2> QED
    BY <2>1, <2>2, <2>3 DEF PathInv
<1>2. CASE Next
  <2>0. Typed /\ Step /\ kind \in Kinds
    BY <1>2, TypeOKMeans DEF Typed, Next, PathInv
  <2>1. kind' \in Kinds
    BY <2>0, StepEffect
  <2>2. CASE path' = <<>>
    BY <2>1, <2>2 DEF PathInv
  <2>3. CASE ReadSlot(TRUE)
    BY <2>0, <2>1, <2>3, ReadSlotFresh DEF PathInv
  <2>4. ASSUME NEW c \in DOMAIN container, NEW i \in DOMAIN Encoded(c), ReadItem(c, i)
        PROVE  PathInv'
    <3>1. CASE path = <<c>>
      <4>1. c \in Nat /\ Fresh(c)
        BY <3>1, <2>0, TypedFacts DEF PathInv
      <4>2. PICK o \in Nat : path' \in {<<>>, <<c, i, o>>} /\ ReadFrom(c, i, o)' /\ i \in Nat
        BY <2>0, <2>4, <4>1, ReadItemFrom
      <4> QED
        BY <2>1, <4>1, <4>2 DEF PathInv
    <3>2. CASE path # <<c>>
      BY <2>2, <2>4, <3>2 DEF ReadItem
    <3> QED
      BY <3>1, <3>2
  <2>5. \/ path' = <<>> \/ ReadSlot(TRUE)
        \/ \E c \in DOMAIN container : \E i \in DOMAIN Encoded(c) : ReadItem(c, i)
    BY <2>0 DEF Step, ReadSlot, Copy, Construct, NewItem, SetItem, Resize, AppendItem, Pop,
                ChangeItem, SetSlot, DeleteSlot
  <2> QED
    BY <2>2, <2>3, <2>4, <2>5
<1> QED
  BY <1>1, <1>2

StatementReaches ==
  Len(path) = 3 /\ item'[path[3]].value # item[path[3]].value =>
    stored' = [stored EXCEPT ![path[2]] = item'[path[3]].value]

LEMMA ReachesStep ==
  ASSUME "Tuple" \notin Kinds, TypeOK, PathInv, Next
  PROVE  StatementReaches
<1> SUFFICES ASSUME Len(path) = 3, item'[path[3]].value # item[path[3]].value
             PROVE  stored' = [stored EXCEPT ![path[2]] = item'[path[3]].value]
  BY DEF StatementReaches
<1>1. Typed /\ Step /\ kind # "Tuple"
  BY TypeOKMeans DEF Typed, Next, PathInv
<1>2. PICK c, i, o \in Nat : path = <<c, i, o>> /\ ReadFrom(c, i, o)
  <2>1. path # <<>>
    BY EmptySeq
  <2>2. ASSUME NEW c \in Nat PROVE path # <<c>>
    <3>1. Len(<<c>>) = 1
      OBVIOUS
    <3> QED
      BY <3>1
  <2> QED
    BY <2>1, <2>2 DEF PathInv
<1>3. o \in DOMAIN item /\ item'[o].value # item[o].value
  BY <1>2 DEF ReadFrom
<1>4. PICK v \in Values : ChangeItem(o, v)
  BY <1>1, <1>3, OnlyChangeItem
<1>5. Reached(i, o)
  BY <1>1, <1>2, <1>4, ChangeReaches
<1> QED
  BY <1>2, <1>3, <1>5 DEF Reached

LEMMA InitPath == Init => PathInv
  BY DEF Init, PathInv

\* The changed item reaches its index of the slot (mutable.py:14), and no other,
\* in programs of any length and whatever else they hold; except for a tuple.
THEOREM StatementsReach ==
  ASSUME "Tuple" \notin Kinds
  PROVE  Spec => StatementsReachStorage
<1>1. Init => TypeOK /\ PathInv
  BY InitType, InitPath
<1>2. TypeOK /\ PathInv /\ [Next]_vars => TypeOK' /\ PathInv'
  BY TypeStep, PathStep
<1>3. TypeOK /\ PathInv /\ [Next]_vars => [StatementReaches]_vars
  BY ReachesStep
<1> QED
  BY <1>1, <1>2, <1>3, PTL DEF Spec, StatementsReachStorage, StatementReaches

=============================================================================
