------------------------------ MODULE Mutable ------------------------------
(***************************************************************************)
(* Write-back of mutable values: mutable.py, the arrays, tuples and        *)
(* structs of arc4.py and primitives/array.py, and the state objects that  *)
(* hand them out.                                                          *)
(*                                                                         *)
(* Reading a storage slot decodes a new container object, and reading one  *)
(* of its items gives a mutable item. Each is armed with a callback that   *)
(* assigns it to where it was read from, and that its first change calls   *)
(* and clears. A program may hold such objects for as long as it likes.    *)
(* There is one slot, and containers of one type; the struct is the one of *)
(* arc4.py.                                                                *)
(***************************************************************************)
EXTENDS Integers, Sequences

CONSTANTS
  Kinds,         \* container types of the program, one of AllKinds
  Values,        \* bound: contents of an item
  Missing,       \* the slot is empty
  None,          \* no callback
  MaxItems,      \* bound: items of a container
  MaxContainers, \* bound: container objects
  MaxItemObjects, \* bound: item objects
  MaxSteps       \* bound: steps of the program

\* DynamicArray, StaticArray and Tuple keep their encoding only. A FixedArray
\* keeps its items and their encoding. A Struct and an Array keep their items,
\* and encode them whenever asked: what they have in _value is never read.
AllKinds == {"DynamicArray", "Tuple", "Struct", "FixedArray", "Array"}

ASSUME ConstantsAssumption ==
  /\ Kinds \subseteq AllKinds
  /\ Missing \notin Seq(Values) /\ None \notin Nat \X Nat
  /\ MaxItems \in Nat /\ MaxContainers \in Nat /\ MaxItemObjects \in Nat
  /\ MaxSteps \in Nat

VARIABLES
  kind,      \* type of the containers
  stored,    \* contents of the slot, as the values of its items
  container, \* container objects: _items, _value, _on_mutate, made by copy()
  item,      \* item objects: _value, and the place _on_mutate assigns them to
  path,      \* what slot.value[i] has read: container, index, item
  steps      \* steps of the program so far

vars == <<kind, stored, container, item, path, steps>>

Containers == [items: Seq(Nat), value: Seq(Values), armed: BOOLEAN, copied: BOOLEAN]

\* Item 0 of a container stands for all of them: a struct encodes itself anew.
Places == (Nat \X Nat) \cup {None}

ItemObjects == [value: Values, place: Places]

KeepsItems == kind \in {"Struct", "FixedArray", "Array"}

KeepsEncoding == kind \in {"DynamicArray", "Tuple", "FixedArray"}

ValuesOf(its, objs) == [i \in DOMAIN its |-> objs[its[i]].value]

\* serialize() and bytes: _value, or an encoding of the items as they are now.
Encoded(c) ==
  IF KeepsEncoding THEN container[c].value ELSE ValuesOf(container[c].items, item)

\* A struct arms its attributes whenever it reads them, to encode itself or not.
Arm(c, its, objs) ==
  IF kind = "Struct"
  THEN [o \in DOMAIN objs |-> IF \E i \in DOMAIN its : its[i] = o
                              THEN [objs[o] EXCEPT !.place = <<c, 0>>] ELSE objs[o]]
  ELSE objs

-----------------------------------------------------------------------------
(* Making container objects.                                               *)

Decoded(values) == [i \in DOMAIN values |-> [value |-> values[i], place |-> None]]

Container(its, values, armed, copied) ==
  [items |-> IF KeepsItems THEN its ELSE <<>>,
   value |-> IF KeepsEncoding THEN values ELSE <<>>,
   armed |-> armed, copied |-> copied]

NewItems(values) == [i \in DOMAIN values |-> Len(item) + i]

\* The copy of a struct is a deep copy: what was one item remains one item.
CopiedItems(c) ==
  LET old == container[c].items
  IN  IF kind = "Struct"
      THEN [i \in DOMAIN old |-> Len(item) + CHOOSE j \in DOMAIN old : old[j] = old[i]]
      ELSE NewItems(Encoded(c))

\* A container of new items, with the values of an encoding.
Decode(values, its, armed, copied) ==
  /\ Len(container) < MaxContainers
  /\ container' = Append(container, Container(its, values, armed, copied))
  /\ IF KeepsItems
     THEN /\ Len(item) + Len(values) <= MaxItemObjects
          /\ item' = Arm(Len(container) + 1, its, item \o Decoded(values))
     ELSE item' = item

\* slot.value and map[key]; get and maybe of a map do not arm what they return.
ReadSlot(armed) ==
  /\ stored # Missing
  /\ Decode(stored, NewItems(stored), armed, FALSE)
  /\ path' = IF armed THEN <<Len(container) + 1>> ELSE <<>>
  /\ UNCHANGED <<kind, stored>>

\* Mutant: a copy keeps the callback of what it is a copy of.
CopyArmed(c) ==
  /\ Decode(Encoded(c), CopiedItems(c), container[c].armed, TRUE)
  /\ path' = <<>> /\ UNCHANGED <<kind, stored>>

Copy(c) ==
  /\ Decode(Encoded(c), CopiedItems(c), FALSE, TRUE)
  /\ path' = <<>> /\ UNCHANGED <<kind, stored>>

\* A constructor, given items the program holds; full() gives one many times.
Construct(its) ==
  /\ Len(container) < MaxContainers
  /\ container' = Append(container, Container(its, ValuesOf(its, item), FALSE, FALSE))
  /\ item' = Arm(Len(container) + 1, its, item)
  /\ path' = <<>> /\ UNCHANGED <<kind, stored>>

NewItem(v) ==
  /\ Len(item) < MaxItemObjects
  /\ item' = Append(item, [value |-> v, place |-> None])
  /\ path' = <<>> /\ UNCHANGED <<kind, stored, container>>

-----------------------------------------------------------------------------
(* Reading items. A container that keeps none decodes a new one. The       *)
(* program may also have any item as it is, from iterating over an array.  *)

\* Mutant: the callback has the index of the first item.
PlaceFirst(c, i) == IF kind = "Struct" THEN <<c, 0>> ELSE <<c, 1>>

Place(c, i) == IF kind = "Struct" THEN <<c, 0>> ELSE <<c, i>>

\* container[i] and container.attr.
ReadItem(c, i) ==
  LET o == IF KeepsItems THEN container[c].items[i] ELSE Len(item) + 1
  IN  /\ item' = IF KeepsItems THEN [item EXCEPT ![o].place = Place(c, i)]
                 ELSE Append(item, [value |-> container[c].value[i], place |-> Place(c, i)])
      /\ o <= MaxItemObjects
      /\ path' = IF path = <<c>> THEN <<c, i, o>> ELSE <<>>
      /\ UNCHANGED <<kind, stored, container>>

-----------------------------------------------------------------------------
(* Changing containers and items.                                          *)

\* Mutant: the callback stays.
SetValueAgain(c, its, v) ==
  /\ container' = [container EXCEPT ![c] = Container(its, v, @.armed, @.copied)]
  /\ stored' = IF container[c].armed THEN v ELSE stored

\* The setter of _value: the callback of an armed container assigns the slot.
SetValue(c, its, v) ==
  /\ container' = [container EXCEPT ![c] = Container(its, v, FALSE, @.copied)]
  /\ stored' = IF container[c].armed THEN v ELSE stored

\* container[i] = item o, the item objects being objs.
PutItem(c, i, o, objs) ==
  IF KeepsItems
  THEN LET its == [container[c].items EXCEPT ![i] = o]
       IN  SetValue(c, its, ValuesOf(its, objs)) /\ item' = Arm(c, its, objs)
  ELSE SetValue(c, <<>>, [container[c].value EXCEPT ![i] = objs[o].value]) /\ item' = objs

SetItem(c, i, o) ==
  /\ kind # "Tuple"
  /\ PutItem(c, i, o, item)
  /\ path' = <<>> /\ UNCHANGED kind

\* Mutant: a FixedArray may be resized the way an Array is.
ResizeFixed(c, its, v) ==
  /\ \/ kind = "DynamicArray" /\ SetValue(c, <<>>, v)
     \/ /\ kind \in {"Array", "FixedArray"}
        /\ container' = [container EXCEPT ![c].items = its]
        /\ UNCHANGED stored
  /\ path' = <<>> /\ UNCHANGED <<kind, item>>

\* Only a DynamicArray tells the slot; Array changes its items and not _value.
Resize(c, its, v) ==
  /\ \/ kind = "DynamicArray" /\ SetValue(c, <<>>, v)
     \/ /\ kind = "Array"
        /\ container' = [container EXCEPT ![c].items = its]
        /\ UNCHANGED stored
  /\ path' = <<>> /\ UNCHANGED <<kind, item>>

AppendItem(c, o) ==
  /\ Len(Encoded(c)) < MaxItems
  /\ Resize(c, Append(container[c].items, o),
            Append(container[c].value, item[o].value))

\* list.pop
Shorter(s) == SubSeq(s, 1, Len(s) - 1)

Pop(c) ==
  /\ Encoded(c) # <<>>
  /\ Resize(c, Shorter(container[c].items), Shorter(container[c].value))

\* The callback of item o, whose place is <<c, i>>. That of a tuple raises
\* whatever the item, that of an array when the array has become shorter.
WriteBack(c, i, o, objs) ==
  LET cleared == [objs EXCEPT ![o].place = None]
  IN  IF kind = "Struct"
      THEN LET its == container[c].items
           IN  /\ SetValue(c, its, ValuesOf(its, objs))
               /\ item' = [Arm(c, its, objs) EXCEPT ![o].place = None]
      ELSE IF kind = "Tuple" \/ i > Len(Encoded(c))
           THEN item' = objs /\ UNCHANGED <<stored, container>>
           ELSE PutItem(c, i, o, cleared)

\* item[j] = v, and any other change of an item.
ChangeItem(o, v) ==
  LET objs == [item EXCEPT ![o].value = v]
  IN  /\ IF item[o].place = None
         THEN item' = objs /\ UNCHANGED <<stored, container>>
         ELSE WriteBack(item[o].place[1], item[o].place[2], o, objs)
      /\ path' = <<>> /\ UNCHANGED kind

-----------------------------------------------------------------------------
(* The slot.                                                               *)

\* slot.value = container.
SetSlot(c) ==
  /\ stored' = Encoded(c)
  /\ item' = Arm(c, container[c].items, item)
  /\ path' = <<>> /\ UNCHANGED <<kind, container>>

DeleteSlot ==
  /\ stored' = Missing
  /\ path' = <<>> /\ UNCHANGED <<kind, container, item>>

-----------------------------------------------------------------------------
Init ==
  /\ kind \in Kinds
  /\ stored \in [1..MaxItems -> Values] \cup {Missing}
  /\ container = <<>> /\ item = <<>> /\ path = <<>>
  /\ steps = 0

Step ==
  \/ \E armed \in BOOLEAN : ReadSlot(armed)
  \/ \E its \in [1..MaxItems -> DOMAIN item] : Construct(its)
  \/ \E v \in Values : NewItem(v) \/ \E o \in DOMAIN item : ChangeItem(o, v)
  \/ \E c \in DOMAIN container :
       \/ Copy(c) \/ SetSlot(c) \/ Pop(c)
       \/ \E i \in DOMAIN Encoded(c) :
            ReadItem(c, i) \/ \E o \in DOMAIN item : SetItem(c, i, o)
       \/ \E o \in DOMAIN item : AppendItem(c, o)
  \/ DeleteSlot

Next == steps < MaxSteps /\ steps' = steps + 1 /\ Step

Spec == Init /\ [][Next]_vars

-----------------------------------------------------------------------------
(* Properties.                                                             *)

\* Type correctness: references are to objects that exist, and a fixed array has
\* as many items as its encoding.
TypeOK ==
  /\ kind \in AllKinds /\ steps \in Nat
  /\ stored \in Seq(Values) \cup {Missing}
  /\ container \in Seq(Containers) /\ item \in Seq(ItemObjects)
  /\ \A c \in DOMAIN container :
       \A i \in DOMAIN container[c].items : container[c].items[i] \in DOMAIN item
  /\ \A c \in DOMAIN container : kind = "FixedArray" =>
       Len(container[c].items) = Len(container[c].value)
  /\ \A o \in DOMAIN item : item[o].place # None => item[o].place[1] \in DOMAIN container

\* mutable.py:14, "ensure mutable algopy types [...] cascade their changes to
\* parent container types (global/local state, boxes, ARC4 array, tuple and
\* structs)": whatever objects are held from before, and whatever they did to
\* the slot, a statement that changes slot.value[i] itself changes that item of
\* the slot, and no other.
StatementsReachStorage ==
  [][Len(path) = 3 /\ item'[path[3]].value # item[path[3]].value =>
       stored' = [stored EXCEPT ![path[2]] = item'[path[3]].value]]_vars

\* A change of a copy, or of an item read from one, never reaches the slot.
CopiesAreDetached ==
  [][stored' # stored =>
       \A c \in DOMAIN container : container[c].copied => container'[c] = container[c]]_vars

\* The slot is only changed by assigning it, or by using up one of its reads:
\* no object, however often it is changed, writes what it holds twice.
OneWritePerRead ==
  [][stored' # stored =>
       \/ container' = container /\ (stored' = Missing
                                     \/ \E c \in DOMAIN container : stored' = Encoded(c))
       \/ \E c \in DOMAIN container : container[c].armed /\ ~container'[c].armed]_vars
=============================================================================
