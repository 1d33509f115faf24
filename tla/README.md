# Verification of algorand-python-testing

`algorand-python-testing` lets Algorand Python smart contracts run as plain
Python: `algopy` resolves to an emulation of the AVM, and a *test context* keeps
the ledger and the transactions a contract sees. This directory holds TLA+ models
of the core of that emulation, its state and its data, TLC runs that check them
on small instances, and theorems about them that TLAPS checks for all values of the
constants. Paths below are relative to `src/src/_algopy_testing/`.

## 1. Inventory

| part | state | operations | interacts with |
|---|---|---|---|
| transaction groups (`context_helpers/txn_context.py`, `gtxn.py`) | `_active_group`, `_groups`; per transaction `logs`, `is_active` | `create_group`, implicit groups, `defer_app_call`, `DeferredAppCall.submit`, `append_log` | contract instances, routing, inner transactions |
| contract instances (`models/contract.py`) | `is_creating` of an application, the instance | `_ContractMeta.__call__`, the wrapper made by `__getattribute__` around every callable, programs | groups (opens them), ledger (registers the application), state objects (gives them keys) |
| ARC4 routing (`decorators/arc4.py`) | none of its own | `check_routing_conditions`, `abimethod`, `baremethod`, encoding of arguments | active transaction, `is_creating`, logs |
| inner transactions (`itxn.py`, `op/itxn.py`, `itxn_loader.py`) | fields of each object, `_constructing_itxn_group`, `_itxn_groups` | `set`, `copy`, `stage`, `submit`, `submit_txns`, `op.ITxnCreate` | active group, ledger (creates assets) |
| boxes (`state/box.py`, `op.Box` in `op/misc.py`) | `ApplicationContextData.boxes` | create, delete, put, assign, extract, resize, replace, splice, through four interfaces | ledger, the active application |
| global and local state (`state/global_*.py`, `state/local_*.py`, `op.AppGlobal`, `op.AppLocal`) | `global_state`, `local_state`, pending values and keys of the state objects | get, set, delete, maybe, implicit keys | ledger, contract attributes |
| mutable values (`mutable.py`, `arc4.py`, `primitives/array.py`) | `_value`, `_items`, `_on_mutate` | item and field assignment, append, pop, copy | storage (written back to by callbacks) |
| ledger (`context_helpers/ledger_context.py`) | accounts, assets, applications, blocks, id counters | create, get, update | everything that persists |
| test context (`context.py`, `context_storage.py`) | the current ledger and transaction contexts, logic signature arguments, template variables | `reset`, `clear_transaction_context`, `execute_logicsig` | all of the above, through `lazy_context` |
| data (`primitives/`, `arc4.py`, `serialize.py`, `op/pure.py`) | none | bounded arithmetic, slicing, ABI encoding | all of the above |
| the rest (field tables, generators, crypto, logging, stubs) | none | see `PROJECT.json` | |

There are no threads. What makes this code hard is (a) the *nesting* of Python
frames, each with a `finally`, over shared mutable context that inner frames read
and outer frames restore, with exceptions that leave several of them at once;
(b) *aliasing*: transactions, inner transactions and ARC4 values are mutable
objects that outlive the group or the storage they belong to; (c) *partial
failure* without roll-back, which the AVM has and the emulation has not; (d) the
*active application*, which is read at the time of a call by some objects and at
the time they are made by others; and (e) boundaries of sizes and indexes.

What makes each part correct:

* groups: one frame owns a group and closes it however it is left; a method runs
  under a transaction of its own application, with an action it allows; what a
  finished group recorded is final.
* creation: an application is creating from its instantiation until its
  constructor, or its create method, is done, and never again.
* inner transactions: the recorded groups are a log that only grows, each asset
  creation in it has its own asset, and what is staged is recorded or kept.
* boxes: contents change only by calls that are to change them, edits do the
  documented thing to every byte, no box is too large.
* state: three interfaces agree on one dictionary; a value given before its key
  arrives once the key is known.
* mutable values: a change reaches the container and the storage it was read
  from, a copy reaches nothing.
* ledger: every way to ask about an account, a holding or an application gives
  one answer, and nothing is opted in to what does not exist.
* data: an operation gives the exact result or raises; the bytes of a value are
  its ARC4 encoding, and decoding them gives the value back.

`PROJECT.json` lists every component, and every hazard at its line.

## 2. Modules

`TxnContext` and `InnerTxns` are two views of one group: the first models calls
and which group is active, the second what one group that stays active does with
inner transactions. `BoxStore` sees of `TxnContext` the active application only
(`active`). `Mutable` takes one storage slot, of whichever kind, and models the
objects that come from it and go to it. `StateStore` extends `Ledger`, and takes
the application a call is made under as a parameter, chosen freely. `Abi`
extends `Words`, whose integers and byte strings its values are made of.

### TxnContext (groups, instances, routing)

| state | code |
|---|---|
| `stack`, `raising` | the Python call stack, reduced to the frames that have a `finally` or an owner of a group; an exception in flight |
| `active`, `groups` | `TransactionContext._active_group`, `_groups` |
| `txn` | every transaction object: application, on completion action, deferred method, `logs` (absent until first active) |
| `isCreating` | `ApplicationContextData.is_creating` |
| `status` | what the test holds: no instance, one in `__init__`, a usable one, one whose constructor raised |

Frames are `group` (a `with create_group` block of the test), `init` (a
constructor), `call` (the body of an ARC4 method), `rejected` (a method whose
routing check raised inside its implicit group), `program`, and `helper` (an
undecorated method, which gets the `is_creating` wrapper and no group). `Enter`
is `_maybe_implicit_txn_group`; `Leave` is every `finally` that runs when a frame
ends, so that `Return` and `Unwind` differ in nothing but whether an exception is
in flight. A frame that opened the group carries `owner`. A test that never
catches an exception ends with it: `Catch` is `pytest.raises`.

| run | question |
|---|---|
| `MCTxnRouting` | does every method body run under a transaction that its decorator admits (`RunningMethodsAreRouted`), is a creation phase that ended never resumed, and does every exception close the group it came from before the test sees it |
| `MCTxnGroups` | two contracts that call each other, explicit and deferred groups with several transactions: does one frame own a group, is every transaction active once, is what was recorded final, and does every constructor and method run under a transaction of its own application (`RunsUnderItsOwnTxn`) |
| `MCTxnCreating` | *violated*: a helper that returns ends the creation phase of the create method, or the constructor, that called it |

Bounds: `MCTxnRouting` has one application with every override of the on
completion action and the application id that is not the default, one method that
requires creation and one that forbids it. `MCTxnGroups` has two applications without
create methods, and groups of two transactions, one too large among the arguments. The
constructor of one may start that of the other, and all running code calls each contract
that has an instance, also one whose constructor has not returned (`HasInstance`): its own
or the other, while none, one or both are being created. Three nested frames are what a
test block, a method and a method or helper it calls need; three transactions are
an active one, one that waits and one that was recorded before.

Fairness: `WF_vars(Unwind)`. Python always runs the `finally` blocks of a
propagating exception; nothing else is assumed, a test may stop anywhere.

Proved (`TxnContextProofs`): `TypeCorrect`, `OneOwner`, `OwnTxn`, `Routed`,
`CreationStaysFinal`. The strengthening is an invariant that says of every frame
on the stack what the active transaction must be like for it: as a group keeps
its active transaction from when it first has one until its owner leaves, and the
owner is below every frame that relied on it, the conditions checked on entry
still hold at every later step. On top of it: `OnceActive` and `RecordsFinal`. Their invariant is that every transaction of a
recorded group, and every one that was active in the open one, has logs, which
is what refuses it to a second group. Model-checked only: the liveness property.

### InnerTxns and ItxnLog

`heap` holds the field dictionaries of inner transactions and of results, `objs`,
`staged` and `groups` refer to them, as Python variables, `_constructing_itxn_group`
and `_itxn_groups` do: two references to one dictionary are the interesting case.
`SubmitItem` is one turn of the loop in `submit_txns`, with the handlers of
`itxn.py:195-248`; a type without a handler raises in the middle of a group.
Everything here can be done by a contract and by the test alike: no code asks.
`ItxnLog` is the abstract specification: a log of groups that never change, each
created asset named once. `InnerTxns` implements it, by the mapping `Log`, that
reads through the heap.

| run | question |
|---|---|
| `MCItxnLog` | `InnerTxns` implements `ItxnLog` (`RecordsItxns`), and everything staged is recorded as it was, or still staged, after failures and direct submissions (`StagedAreRecorded`) |
| `MCItxnClear` | *violated*: a clear state call can submit inner transactions after all |

Bounds: groups of two, one too large among the arguments, two recorded groups,
four dictionaries, so that an object can be staged twice, reused
and changed between submissions.

Proved (`InnerTxnsProofs`): `TypeCorrect`, and `ImplementsLog`, the refinement.
Its inductive invariant adds to the types that results are dictionaries nothing
else refers to, that every created asset in them exists, that no two differ only
in place, and that the submission in progress has no more results than items.
`StagedRecorded` adds that what a submission has handled so far is recorded as
it was, since dictionaries of results are nobody else's.

### BoxStore

`boxes` is the dictionary of every application; `handles` are the `Box`, `BoxMap`
and `BoxRef` objects, each with the application it was made under; `reply` is the
last call and its outcome, which the properties about single calls read. A call
that raises is a step that leaves `boxes` alone. A `BoxMap` is its `Box` objects:
its operations address the application and the prefix the map was made with.

| run | question |
|---|---|
| `MCBoxApps` | two applications, any interface: who may change a box with content, sizes, and resize, replace and splice byte by byte on every content |
| `MCBoxOther` | *violated*: `Box.extract` of a missing box succeeds on another application's |

Bounds: contents of up to two bytes, values that fit or are one byte too long,
and sizes and positions of up to three, so every range that ends before, at and
beyond the end occurs; zero is among the bytes, which is what padding must be told
from. Applications are symmetric.

Proved (`BoxStoreProofs`): all three passing properties, for every set of
applications, keys and bytes and every `MAX_BOX_SIZE`; `EditsCorrect` follows
from lemmas that state `Resized`, `Replaced` and `Spliced` as functions.

### Mutable

| state | code |
|---|---|
| `kind` | the type of the containers: an ARC4 array, tuple or struct, a `FixedArray` or an `Array` |
| `stored` | what the slot (global or local state, a box, a map entry) holds, decoded |
| `container` | container objects: `_items`, `_value`, and whether `_on_mutate` is set, which is always to the assignment of the slot |
| `item` | item objects: `_value`, and the container and index their `_on_mutate` assigns |
| `path` | history: what the expression `slot.value[i]` has evaluated so far |

The types differ in what they keep: an ARC4 array or tuple only its encoding, so
each read of an item decodes a new object; a `FixedArray` items and encoding; a
struct and an `Array` their items, encoded whenever asked. `SetValue` is the setter
of `_value` that fires the callback once, `WriteBack` what the callbacks of items
do, `Arm` the effect of a struct reading its own attributes. Items are mutable
themselves (an inner array, a struct), opaque but for their value.

| run | question |
|---|---|
| `MCMutable` | does a statement that reads afresh reach its item of the slot and no other, whatever else is held (`StatementsReachStorage`); does a copy never write; does a read write at most once |
| `MCMutableTuple` | *violated*: an item of an ARC4 tuple is never written back |

Bounds: two containers of two items, four item objects, two contents, programs of
six steps. Six steps are a read that is kept, an item of it, a change of the slot
by something else, and the three steps of a fresh statement; two indexes tell the
right one from the other. A program may end anywhere, so the bound on steps
does end it and deadlock is not checked.

Proved (`MutableProofs`), for programs of any length: `TypeCorrect`,
`CopiesDetached` and `WritesOncePerRead`. All three rest on one lemma,
`StepEffect`, that says of every step that it assigns the slot, adds a container
or changes one, and that the slot then changes only by using up a callback; the
inductive invariant for copies is that none is armed.
`StatementsReach`, in the same module, is proved under the assumption that no
container is a tuple, for which `MCMutableTuple` shows the opposite. Its invariant
says what is known between `slot.value` and the change: the container that was
read is armed and holds what the slot does, in items no two of which are the same
object, and the item that was read from it has the right way back. It holds because any other
step ends the statement.

### Ledger, StateStore and AppStates

| state | code |
|---|---|
| `apps`, `nextApp`, `assets`, `nextAsset` | the keys of `_app_data` and `_asset_data`, and the counters `_app_id` and `_asset_id` |
| `known`, `accounts` | the keys of `_account_data`; balance, opted assets and opted applications of an address, the defaults for an unknown one |
| `store` | `global_state` and `local_state` of every application |
| `held` | one state object: its class, `app_id`, `type_`, `_key` or `_key_prefix`, `_pending_value` |

`Ledger` has what the generators of accounts, assets and applications do, the
updates and reads of accounts and holdings, the ids, and `reset`, that starts
them anew; partial effects are part of an action, as when `any.account` fails at an
application after it opted in to assets. `StateStore` adds state through
`GlobalState`, `LocalState`, `GlobalMap`, `LocalMap`, `op.AppGlobal`,
`op.AppLocal` and plain attributes, and the ways a key becomes known. A state
object sees all others only through the ledger, so one is enough, with
`OpGlobal` and `OpLocal` for the rest of the program. Reads are operators, with
`Error` for one that raises.
`AppStates` is the abstract specification: one dictionary for each application,
empty when it is made, of which a step changes one slot. `OneDictionary` says
that `StateStore` implements it.

| run | question |
|---|---|
| `MCState` | one dictionary behind every interface, across resets and reused ids (`OneDictionary`); all reads agree, also on zero (`ReadsAgree`); the object of a map entry addresses what the map does (`EntriesOfMaps`); a pending value arrives (`PendingIsWritten`); one answer about each holding (`HoldingsAgree`), and no opt-in lost (`OptInsKept`) |
| `MCStateKeying` | *violated*: a value that is assigned before the key is known is written under the empty key, and is not found after it |

Bounds: two ids, one address, keys of at most one letter, so that the empty key,
which is the interesting one, is among them; two values stored at once; accounts
made with at most two assets, so that the second can be the one that does not
exist. Accounts and assets share with state nothing but the ids of applications, so
the constraint `OneSide` follows a behaviour while it has touched one of the two only.
State objects are of numbers, and bytes in the ledger are a value of the wrong type.

Proved (`StateStoreProofs`): all seven, for any ids, addresses, keys and values.
The inductive invariant adds to the types that accounts are opted in to things
that exist only, that an application that does not exist has no state and an unknown
account the defaults, and that only a `GlobalState` has a pending value. `LedgerTypeOK` and the properties of accounts need nothing of the state,
nor the other way round, but for the ids of applications.

### Words, Abi

`Words` has the native values and the op functions that need their arguments
only. An operation is the set of its results, empty when the code raises, so
`\E r \in Plus(a, b) : ...` is a step that an exception leaves out. `value` is the
value a contract computes with, `iter` an iterator over it. `Abi` encodes and
decodes: `Parts`, `Compress` and `Assembled` follow the loops of
`arc4.py:1389-1640`, `Items` the decoder, and `Poison` is the exception. `object`
is an array, a tuple or a struct, `contents` the history of what was put in, and
the actions are the assignments that change it, also inside of an item.
An array or a tuple is its bytes: an assignment that cannot be encoded leaves it alone
(`Store`). A struct is its fields, and `object.bytes` what it gives when it is asked for
its bytes: a field is set before anything is encoded (`arc4.py:1216`), so what does not fit
stays, and the bytes raise until another assignment makes the fields fit (`StoreField`).
`Types` is a set of types that holds the types of their items as well, and
`Values` gives the values of each; what recurses over types in the code (`New`,
`Reencode`, `StaticLength`, and `ToArc4` and `ToNative` of `serialize.py`) is a
function on that set, so that no operator is `RECURSIVE`. `Depth` says how deep a
type is nested, and is there for the proofs only.
`Encodings` is the reference definition: the bytes that ARC4 gives a value,
without loops and offsets that are carried along, only where everything is
(`LaidOut`, `HeadAt`, `Size`).

| run | question |
|---|---|
| `MCValues` | wide arithmetic has no error (`WideIsExact`), bits of words and of byte strings are addressed as they are defined (`BitsAreAddressed`), the functions that take ranges agree (`RangesAgree`), bitwise operators on byte strings are those on numbers (`BitwiseIsNumeric`), iterators yield everything once (`IteratorsYieldAll`), `FixedBytes` keeps its length (`FixedKeepsLength`); an object is as if made anew of what is in it, whatever failed before (`NoTraceOfFailures`), its bytes are the encoding after each change (`BytesAreEncoding`), found again by the decoder (`ItemsAreFound`), as long as `size_of` says (`LengthIsStatic`), and the same whichever native type they come from (`NativesAgree`) |

Bounds: bytes of two bits and words of two bytes, where every boundary (a byte, a
word, two words, the size of `Bytes`) is a few steps away and every operand can be tried;
runs of bools that fill a byte and begin another are then five long. A length or an offset
is below sixteen, which a struct of an array of strings and a string exceeds. Twelve types
with those of their items, each of which may be the type of the object: kinds nested in each other, bools in arrays, tuples and structs, dynamic items
before and after static ones, an array of no items. At most three items in a
dynamic array. The two components share no variable: one moves while the other is
at its start (`WordsStart`, `AbiStart`). Deadlock is not checked, since an array of
no items that is not dynamic has nothing that could be done to it.

`Words` writes its recursive operations as recursive functions (`Pow`, `Number`,
`Bit`), so that they can be reasoned about. `OperandBytes <= MaxBytesSize` is
assumed of its constants: an operand of a wide operation is a byte string first
(512 bits against 4096 bytes, `constants.py`).

Proved of `Words` (`WordsProofs`), for any size of bytes, words, byte strings and
wide operands:

* Induction over the numbers, powers, the digits and the bits of
  byte strings. A byte string is determined by its number and its length, and
  `BitwiseOnNumbers`: the padded bitwise operators of `bytes.py:117` are those of
  the numbers.
* The properties of `MCValues`: `WordsTypes`, `WalksYieldAll`,
  `FixedBytesKeepTheirLength`, `BitwiseIsOnNumbers`, `WideOperationsAreExact`,
  `BitsHaveOneAddress`, `RangesAlwaysAgree`. The first three rest on an inductive
  invariant, `WordsInv`: the value is one that its class can hold, and an iterator
  goes over the value that is there, at most as far as its end, having yielded the
  items that it passed, in its order. The others state, of every operand
  and every state, that the operations agree with their definitions.
* Operations on numbers, which no run can try for every operand:
  `BigUIntIsExact`, `BigDivisionIsExact`, `BigRootIsFloor`, `PowersAreExact` (that
  `Raise` stops multiplying beyond two words is never seen) and `NumbersRoundTrip` (`itob` and `btoi`, and `BigUInt` and its bytes).

Proved of `Abi` (`AbiLemmas`, `AbiProofs`), for types and native types of any
nesting, any values of them, and bytes of any number of bits: `AbiTypes`,
`FailuresLeaveNoTrace`, `LengthsAreStatic`, `BytesAreEncoded`, `ItemsFound` and
`NativesAreEqual`, the six properties of `MCValues`. The last four say nothing of the bytes
of a struct whose fields do not fit, which has none (`HasBytes`). The argument:

* The inductive invariant `AbiInv` is that the bytes are those the constructor
  makes of `contents`, of the object's type, and that it did not raise; or, in a struct, where
  it may, that the fields are what the constructors make of theirs. None of the six is
  inductive by itself: that the bytes encode the value does not say that setting an item
  in them makes bytes that do. `AbiInv` is kept since decoding finds the bytes of
  the items that the constructor made, so that encoding them with one replaced is
  what the constructor makes of the changed value. Nothing is decoded of a struct but the
  dynamic items of its fields.
* That decoding finds them is one lemma about one level, for items that are
  as long as their types say (`Proper`). What is assembled has each head and tail at its
  place (`InPlace`), and from bytes that have, the decoder reads those heads and
  tails (`ReadStart` for one head or one byte of bools, then induction from the
  last item to the first). Items are taken in steps from one start to the next
  (`Starts`): an item that is no bool, or one in `ByteBits` of a run of them.
* `MadeWell` carries that over levels: what is made of a value of a type has the
  length of the type, and its items are found and encoded anew to the same bytes. It
  holds of all types by induction over their depth (`AllIsWell`).
* `BytesAreEncoded` compares the same places with `LaidOut`, `LengthsAreStatic` the
  loop of `_get_max_bytes_len_impl` with the sum of the heads.
* `NativesAreEqual`: native types give ARC4 types that may be compared as the same and be
  others (a struct and its tuple), so it is shown first that these make the
  same bytes (`Match`, `SameMade`), then, by induction over the native types,
  that each value is read back from what is made of it (`Returns`).

`ItemsFound` and `NativesAreEqual` leave out types with an item of no size after
others (`Readable`), and `Bytes` too long to read back (`BytesFit`, section 5).
`ItemsFound` proves of the former that they cannot be read when all items are static;
with dynamic ones among them it depends on whether a tail has bytes, and neither is
stated.

## 3. What is proved and on what it rests

The only assumptions are the named ones of the modules (`ConstantsAssumption`,
`LedgerAssumption`, `StateAssumption`, `WordsAssumption`, `AbiAssumption`,
`NativesAssumption`), which
the runs evaluate; `StatementsReach` also assumes that no container is a tuple.
Those of `Abi` say that a type is made of types that are nested less deep, has one
item type if it is an array and at least two if it is a tuple or a struct, that an integer has at most as many bytes as a `BigUInt`
may have, and that the values of a composed type are made of those of its items.

Every invariant and action property that a run checks and that holds is also a theorem.
Liveness and `ENABLED` are outside what the prover can do here and stay with
TLC: that is `ExceptionsCloseTheirGroup`, under the fairness that `TxnContext` states.

Recursion is proved about all the same. The induction rules of the
library take a predicate as a parameter, which the provers cannot instantiate, so
`WordsProofs` states induction for sets of numbers, from the least element that
every non-empty one has, and `Recursion` from it: a function that is defined by
what comes before exists and satisfies its equation. Each lemma about `Pow`,
`Number` or `Bit` then defines the set of numbers it holds of. `AbiLemmas` states
both for what has a rank (`RankInduction`, `RankedRecursion`): for types it is their depth, for the
items of a tuple how many are left. The functions of native types have no
set of values that is there before them, and `NativeRecursion` builds those from one
depth to the next. `AbiLemmas` has what is true of the operators of `Abi`,
`AbiProofs` what follows of the object. Theorems are in `*Proofs` modules,
typing first, then lemmas about `Next`, then one theorem per property.

## 4. Plan

1. done: `TxnContext`, `InnerTxns`/`ItxnLog`, `BoxStore`, `Mutable`, with proofs.
2. done: `Ledger`, `StateStore`/`AppStates`, with proofs.
3. done: `Words` and `Abi`, against reference definitions over bounded inputs.
4. done: `ActivatedOnce`, `RecordedGroupsAreFinal`, `StagedAreRecorded`
   and `StatementsReachStorage` proved, which only runs had shown.
5. done: `Words` proved, with the numerals it rests on.
6. done: `Abi` proved, one level of it first, then the recursion over types.
7. left to model: `TestContext`, the arguments of logic signatures and
   `clear_transaction_context`; the position of a transaction in its group; the
   results of inner transactions (`itxn_loader.py`).

## 5. Not modelled

* Of data: `String` beyond its encoding, `Address`, `UFixedNxM`, method signatures
  and `emit`, base64 and JSON (libraries of Python), cryptography (libraries, or left
  to be mocked), comparison, and the reflection that builds ARC4 types.
* Of ARC4 values: a `StaticArray` of some size, or a `Tuple` of some types, that is made
  without items, and has no bytes (`arc4.py:667`, `arc4.py:1079`); tuples and structs of fewer than two items, whose types
  `parameterize_type` does not build from their item (`arc4.py:1046`, `utils.py:250`); items of a struct that is
  itself an item, assigned in place; and fields that are declared with native types, which
  are encoded as the ARC4 types they stand for. A struct inside of another value is encoded
  anew by decoding it, where the code encodes its fields (`arc4.py:1251`) and gets them back
  from bytes (`arc4.py:1229`, which returns a `Tuple` for bytes that cannot be decoded): the
  same bytes wherever the type can be read at all (`Readable`).
* Of the ledger: blocks, global fields, template variables, scratch space, and
  the fields of applications and assets, of which no two are related.
* Of transactions: field tables and the fields no property depends on, the
  results of inner transactions by index, positions in a group.
* Of the test context: logic signatures, their arguments, and
  `clear_transaction_context`. Random data is any value.
* Typed decoding of box values and the 4096 byte limit on byte values read through
  `BoxRef` (`constants.py`).
* A third level of nesting of mutable values, and a slot that raises when it is
  assigned (a box that would change its size), are left out of `Mutable`.

Disagreements seen while modelling that no run covers:

* a create method of an application that waits for it, called while another
  application is being created, is not rejected, and runs under the transaction and the id of
  that other one: the ids are not compared when the expected one is 0
  (`txn_context.py:83`). `RunsUnderItsOwnTxn` is about constructors and all other methods;
* assigning a field of a frozen struct raises, and has set the field before
  (`arc4.py:1216`), which is how `StoreField` has it;
* `op.Box` takes an empty box for a missing one (`op/misc.py:540`);
* `append`, `extend` and `pop` of a native `Array` never reach the slot
  (`primitives/array.py:504`);
* `FixedArray.full` puts one mutable object at every index
  (`primitives/array.py:222`);
* an ARC4 tuple of static items that ends in an array of no items can be made and not read
  (`arc4.py:1599`), which `ItemsAreFound` states;
* a type that is dynamic has a static length when its only dynamic items are those that
  an array of no items would have (`arc4.py:1437`): `size_of` gives 1 for a tuple of a
  `StaticArray` of no strings and a byte, whose bytes are three (`Hollow`);
* `Bytes` that are at most two bytes below their limit can be encoded and
  not read back (`arc4.py:1007`), which is what `BytesFit` leaves out;
* `FixedBytes.from_bytes` does not look at the length (`primitives/fixed_bytes.py`);
* an index of `Bytes` below minus the length wraps to a slice from the other end
  (`primitives/bytes.py`);
* `op.AppGlobal.put` writes to the active application and `get` reads the one at
  index 0 of the array of the active transaction (`op/misc.py:465`);
* `GlobalState.set_key` with an application that is unknown raises after it set
  the key, and the value goes on waiting (`state/global_state.py:107`).
