---------------------------- MODULE StateStore ----------------------------
(***************************************************************************)
(* Global and local state: GlobalState, LocalState, GlobalMap and LocalMap *)
(* (state/), op.AppGlobal and op.AppLocal (op/misc.py), the state of       *)
(* LedgerContext and what assigning an attribute of a contract does        *)
(* (models/contract.py). All of them use the dictionaries of the           *)
(* applications, under keys that are put together or given late.           *)
(*                                                                         *)
(* One state object is held at a time. Any other one is seen by it through *)
(* the ledger only, which may be written at any time.                      *)
(***************************************************************************)
EXTENDS Ledger, FiniteSets

CONSTANTS
  Global,           \* the place of global state, beside the addresses
  Letters, MaxKey,  \* bound: keys of at most MaxKey letters
  NoKey,            \* a map that was given no prefix
  Uints, Blobs,     \* bound: values that are integers, and that are bytes
  Types,            \* bound: types of state objects, of these two
  MaxEntries,       \* bound: values stored at once
  NoObject

Places == {Global} \cup Addresses
Keys == UNION {[1..n -> Letters] : n \in 0..MaxKey}
Names == Keys \ {<<>>} \* of attributes
Slots == Places \X Keys
Values == Uints \cup Blobs

ASSUME StateAssumption ==
  /\ Global \notin Addresses
  /\ MaxKey \in Nat \ {0} /\ MaxEntries \in Nat
  /\ NoKey \notin Keys
  /\ Types \subseteq {Uints, Blobs}
  /\ {Missing, Error} \cap Values = {}

VARIABLES
  store, \* global_state and local_state of every application
  held   \* a state object: kind, app_id, type_, _key or _key_prefix, _pending_value

vars == <<ledgerVars, store, held>>

Kinds == {"GlobalState", "LocalState", "GlobalMap", "LocalMap"}
Maps == {"GlobalMap", "LocalMap"}

Object == [kind : Kinds, app : Ids, type : Types,
           key : Keys \cup {NoKey}, pending : Values \cup {Missing}]

\* An object belongs to the application it was made under.
NewObject(kind, under, type, key) ==
  [kind |-> kind, app |-> under, type |-> type, key |-> key, pending |-> Missing]

NoState == [s \in Slots |-> Missing]

Entries == {e \in Ids \X Slots : store[e[1]][e[2]] # Missing}

Init == LedgerInit /\ store = [a \in Ids |-> NoState] /\ held = NoObject

-----------------------------------------------------------------------------
(* The ledger. An application that does not exist raises.                  *)

\* None, here Missing, deletes. Bound: MaxEntries.
Write(a, slot, v) ==
  /\ a \in apps
  /\ Cardinality(Entries \cup {<<a, slot>>}) <= MaxEntries \/ v = Missing
  /\ store' = [store EXCEPT ![a][slot] = v]
  /\ UNCHANGED ledgerVars

\* LedgerContext.set_global_state, set_local_state.
SetGlobalState(a, key, v) == Write(a, <<Global, key>>, v)
SetLocalState(a, address, key, v) == Write(a, <<address, key>>, v)

\* put and delete of op.AppGlobal and op.AppLocal write to the active application.
OpGlobal(active, key, v) == SetGlobalState(active, key, v) /\ UNCHANGED held
OpLocal(active, address, key, v) == SetLocalState(active, address, key, v) /\ UNCHANGED held

\* Contract.__setattr__ of contract c with plain data.
SetAttribute(c, name, v) == SetGlobalState(c, name, v) /\ UNCHANGED held

\* A new ApplicationContextData, with no state.
NewApp(fits) ==
  LET id == NextId(nextApp, apps)
  IN  /\ AnyApplication(fits)
      /\ store' = IF fits THEN [store EXCEPT ![id] = NoState] ELSE store
      /\ UNCHANGED held

NewAppWithId(id) ==
  /\ AnyApplicationWithId(id)
  /\ store' = [store EXCEPT ![id] = NoState]
  /\ UNCHANGED held

\* State objects outlive the ledger: the next one hands out the same ids.
Reset ==
  /\ LedgerReset
  /\ store' = [a \in Ids |-> NoState]
  /\ UNCHANGED held

-----------------------------------------------------------------------------
(* State objects: construction and keys.                                   *)

Holds(o) == held' = o /\ UNCHANGED <<ledgerVars, store>>

\* Mutant: the key is set as for local state, and what waits for it stays.
KeyOnly(o, key) == Holds([o EXCEPT !.key = key])

\* GlobalState.set_key: a value that was given before is written now, unless the
\* key is empty. The key stays if the application is unknown and writing raises.
SetKey(o, key) ==
  LET written == key # <<>> /\ o.pending # Missing /\ o.app \in apps
  IN  \/ /\ written
         /\ SetGlobalState(o.app, key, o.pending)
         /\ held' = [o EXCEPT !.key = key, !.pending = Missing]
      \/ ~written /\ Holds([o EXCEPT !.key = key])

\* Mutant: no key is None, as the annotation of _key suggests.
KeyOrNone(under, type, key, initial) ==
  /\ initial = Missing
  /\ Holds(NewObject("GlobalState", under, type, IF key = <<>> THEN NoKey ELSE key))

\* With a type, or with an initial value, in which case the constructor of an
\* object with a key raises if the application is unknown.
NewGlobalState(under, type, key, initial) ==
  /\ key # <<>> /\ initial # Missing => under \in apps
  /\ SetKey([NewObject("GlobalState", under, type, <<>>) EXCEPT !.pending = initial], key)

NewLocalState(under, type, key) == Holds(NewObject("LocalState", under, type, key))

NewMap(kind, under, type, prefix) == Holds(NewObject(kind, under, type, prefix))

Unkeyed(o) == IF o.kind \in Maps THEN o.key = NoKey ELSE o.key = <<>>

\* Contract.__setattr__ of contract c: the object is of c from now on and, if it
\* has no key, gets the name of the attribute.
Bind(c, name) ==
  /\ held # NoObject
  /\ LET o == [held EXCEPT !.app = c]
     IN  IF ~Unkeyed(o) THEN Holds(o)
         ELSE IF o.kind = "GlobalState" THEN SetKey(o, name)
         ELSE Holds([o EXCEPT !.key = name])

\* set_key, called by the program.
Rekey(key) == held # NoObject /\ held.kind = "GlobalState" /\ SetKey(held, key)

-----------------------------------------------------------------------------
(* State objects: the slots they write, and the entries of maps.           *)

PlacesOf(o) == IF o.kind \in {"GlobalState", "GlobalMap"} THEN {Global} ELSE Addresses

\* A map without a prefix raises. Bound: MaxKey.
SubKeys(o) ==
  IF o.key = NoKey THEN {}
  ELSE IF o.kind \in Maps THEN {k \in Keys : o.key \o k \in Keys} ELSE {<<>>}

SlotOf(o, place, k) == <<place, o.key \o k>>

\* GlobalState: the setter and the deleter of value. The key is never None, so
\* without one they write under the empty key.
AssignGlobal(v) ==
  /\ held.kind = "GlobalState"
  /\ SetGlobalState(held.app, held.key, v)
  /\ UNCHANGED held

\* LocalState: __setitem__ and __delitem__.
AssignLocal(address, v) ==
  /\ held.kind = "LocalState"
  /\ SetLocalState(held.app, address, held.key, v)
  /\ UNCHANGED held

\* GlobalMap and LocalMap: __setitem__ and __delitem__.
AssignItem(place, k, v) ==
  /\ held.kind \in Maps
  /\ Write(held.app, SlotOf(held, place, k), v)
  /\ UNCHANGED held

EntryKind(o) == IF o.kind = "GlobalMap" THEN "GlobalState" ELSE "LocalState"

\* Mutant: the object keeps the application that is active, as BoxMap.box does.
EntryHere(o, k, under) == NewObject(EntryKind(o), under, o.type, o.key \o k)

\* GlobalMap.state, LocalMap.state: made under the active application, then
\* given the one of the map.
EntryOf(o, k, under) ==
  [NewObject(EntryKind(o), under, o.type, o.key \o k) EXCEPT !.app = o.app]

TakeEntry(k, under) == Holds(EntryOf(held, k, under))

Next ==
  \/ \E fits \in BOOLEAN : NewApp(fits)
  \/ \E id \in Ids : NewAppWithId(id)
  \/ AccountNext /\ UNCHANGED <<store, held>>
  \/ Reset
  \/ \E a \in Ids, v \in Values \cup {Missing} :
       \/ \E key \in Keys : OpGlobal(a, key, v)
       \/ \E address \in Addresses, key \in Keys : OpLocal(a, address, key, v)
       \/ \E name \in Names : v # Missing /\ SetAttribute(a, name, v)
  \/ /\ held = NoObject
     /\ \E under \in Ids, type \in Types :
          \/ \E key \in Keys, v \in type \cup {Missing} : NewGlobalState(under, type, key, v)
          \/ \E key \in Keys : NewLocalState(under, type, key)
          \/ \E kind \in Maps, key \in Keys \cup {NoKey} : NewMap(kind, under, type, key)
  \/ held # NoObject /\ Holds(NoObject)
  \/ \E c \in Ids, name \in Names : Bind(c, name)
  \/ \E key \in Keys : Rekey(key)
  \/ /\ held # NoObject
     /\ \E v \in held.type \cup {Missing} :
          \/ AssignGlobal(v)
          \/ \E address \in Addresses : AssignLocal(address, v)
          \/ \E place \in PlacesOf(held), k \in SubKeys(held) : AssignItem(place, k, v)
  \/ /\ held # NoObject /\ held.kind \in Maps
     /\ \E k \in SubKeys(held), under \in Ids : TakeEntry(k, under)

Spec == Init /\ [][Next]_vars

-----------------------------------------------------------------------------
(* Reads. The ledger raises ValueError for an application that does not    *)
(* exist and KeyError for a slot with no value; here Error and Missing.    *)

Lookup(a, slot) == IF a \in apps THEN store[a][slot] ELSE Error

\* deserialize: an integer is not read as bytes, nor bytes as an integer.
Deserialized(type, v) == IF v \in type THEN v ELSE Error

\* op.AppGlobal.get_ex and op.AppLocal.get_ex.
OpGetEx(ref, array, slot) ==
  LET a == FoundIn(ref, array, apps)
      v == Lookup(a, slot)
  IN  IF v = Error THEN Error ELSE IF v = Missing THEN NotFound ELSE <<v, TRUE>>

\* GlobalState: the value getter; get and maybe catch what it raises, an unknown
\* application included. What comes with FALSE, here and below, is left out.
InGlobal(o) == Lookup(o.app, <<Global, o.key>>)

GlobalValue(o) == Deserialized(o.type, InGlobal(o))
GlobalGet(o, default) == IF InGlobal(o) \in {Missing, Error} THEN default ELSE GlobalValue(o)
GlobalMaybe(o) == IF InGlobal(o) \in {Missing, Error} THEN NotFound ELSE <<GlobalValue(o), TRUE>>

\* LocalState: __getitem__, __contains__, get and maybe, which catch KeyError only.
InLocal(o, address) == Lookup(o.app, <<address, o.key>>)

LocalItem(o, address) == Deserialized(o.type, InLocal(o, address))
LocalContains(o, address) ==
  IF InLocal(o, address) = Error THEN Error ELSE InLocal(o, address) # Missing
LocalGet(o, address, default) ==
  IF InLocal(o, address) = Missing THEN default ELSE LocalItem(o, address)
LocalMaybe(o, address) ==
  IF InLocal(o, address) = Missing THEN NotFound ELSE <<LocalItem(o, address), TRUE>>

\* GlobalMap and LocalMap: __getitem__ and get go by what maybe finds.
InMap(o, place, k) == Lookup(o.app, SlotOf(o, place, k))

Default(type) == IF type = Uints THEN 0 ELSE CHOOSE v \in Blobs : TRUE

\* Mutant: whether a value is there is read off the value.
MapMaybeTrue(o, place, k) ==
  LET v == InMap(o, place, k)
  IN  IF v \in {Missing, Default(o.type)} THEN NotFound
      ELSE <<Deserialized(o.type, v), TRUE>>

MapMaybe(o, place, k) ==
  LET v == InMap(o, place, k)
  IN  IF v = Missing THEN NotFound ELSE <<Deserialized(o.type, v), TRUE>>

MapContains(o, place, k) ==
  IF InMap(o, place, k) = Error THEN Error ELSE InMap(o, place, k) # Missing

MapItem(o, place, k) ==
  IF MapMaybe(o, place, k)[2] THEN MapMaybe(o, place, k)[1] ELSE Error
MapGet(o, place, k, default) ==
  IF MapMaybe(o, place, k)[2] THEN MapMaybe(o, place, k)[1] ELSE default

-----------------------------------------------------------------------------
(* Properties.                                                             *)

TypeOK ==
  /\ LedgerTypeOK
  /\ store \in [Ids -> [Slots -> Values \cup {Missing}]]
  /\ held \in Object \cup {NoObject}
  /\ held # NoObject /\ held.key = NoKey => held.kind \in Maps

Dictionaries == INSTANCE AppStates WITH existing <- apps, dict <- store

\* All interfaces work on one dictionary per application: no step changes two
\* slots, an application is made empty and keeps its state until the context is
\* reset, and a state object of an earlier ledger brings nothing back to life.
OneDictionary == Dictionaries!Spec

\* The object that a map makes for an entry reads and writes what the map does,
\* whichever application is active (state/global_map.py:92).
EntriesOfMaps ==
  held # NoObject /\ held.kind \in Maps =>
    \A k \in SubKeys(held), under \in Ids, place \in PlacesOf(held) :
      LET o == EntryOf(held, k, under)
      IN  /\ o.app = held.app /\ SlotOf(o, place, <<>>) = SlotOf(held, place, k)
          /\ PlacesOf(o) = PlacesOf(held)

\* A slot that holds a value is found by every interface, with that value, be it
\* zero or empty; one that does not by none.
ReadsAgree ==
  held # NoObject /\ held.app \in apps =>
    \A k \in SubKeys(held), place \in PlacesOf(held), d \in Values :
      LET op    == OpGetEx(held.app, <<>>, SlotOf(held, place, k))
          value == IF op[2] THEN Deserialized(held.type, op[1]) ELSE Error
          maybe == IF op[2] THEN <<value, TRUE>> ELSE NotFound
          get   == IF op[2] THEN value ELSE d
      IN  /\ op = OpGetEx(0, <<held.app>>, SlotOf(held, place, k))
          /\ held.kind = "GlobalState" =>
               <<value, maybe, get>> = <<GlobalValue(held), GlobalMaybe(held), GlobalGet(held, d)>>
          /\ held.kind = "LocalState" =>
               /\ <<value, maybe>> = <<LocalItem(held, place), LocalMaybe(held, place)>>
               /\ <<get, op[2]>> = <<LocalGet(held, place, d), LocalContains(held, place)>>
          /\ held.kind \in Maps =>
               /\ <<value, maybe>> = <<MapItem(held, place, k), MapMaybe(held, place, k)>>
               /\ <<get, op[2]>> = <<MapGet(held, place, k, d), MapContains(held, place, k)>>

\* A value that waits for a key is in the ledger once the key is given.
PendingIsWritten ==
  [][held # NoObject /\ held' # NoObject
     /\ held.pending # Missing
     /\ held'.key # held.key /\ held'.key # <<>> /\ held'.app \in apps
     => /\ held'.pending = Missing
        /\ store'[held'.app][<<Global, held'.key>>] = held.pending]_vars

\* "Pending values are used for implicit keys in Contract subclasses. They're
\* stored until the 'Contract''s initialization sets the key"
\* (state/global_state.py:73): what a state object reads as before it is given
\* its key, in the application it was made under, it reads as after.
KeyingKeepsValue ==
  [][held # NoObject /\ held' # NoObject
     /\ held.kind = "GlobalState" /\ held.key = <<>>
     /\ held'.app = held.app /\ held.app \in apps /\ apps' = apps
     /\ GlobalValue(held) # Error
     /\ held'.key # <<>>
     => store'[held'.app][<<Global, held'.key>>] = GlobalValue(held)]_vars
=============================================================================
