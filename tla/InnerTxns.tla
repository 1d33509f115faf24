----------------------------- MODULE InnerTxns -----------------------------
(***************************************************************************)
(* Inner transactions of one transaction group: itxn.py, the itxn part of  *)
(* TransactionGroup (context_helpers/txn_context.py) and op.ITxnCreate     *)
(* (op/itxn.py).                                                           *)
(*                                                                         *)
(* An inner transaction is a Python object whose fields are a dictionary.  *)
(* Staging keeps the object, submitting it lets a handler write into its   *)
(* dictionary and copies that into a result; `heap' holds the              *)
(* dictionaries, the rest refers to them. A group is submitted one         *)
(* transaction at a time, and any of them may raise.                       *)
(***************************************************************************)
EXTENDS Integers, Sequences

CONSTANTS
  Types,        \* transaction types with a handler
  AssetConfig, AssetTransfer,
  Default,      \* type of an inner transaction that is not given one
  NoHandler,    \* a type number no handler exists for
  Senders,
  AppAddress,   \* sender unless given
  NoSender,     \* the zero address
  Inputs,       \* bound: the fields code gives an inner transaction
  MaxGroupSize, \* MAX_TRANSACTION_GROUP_SIZE
  MaxHeap,      \* bound: dictionaries
  MaxGroups     \* bound: groups recorded

ASSUME ConstantsAssumption ==
  /\ {AssetConfig, AssetTransfer, Default} \subseteq Types
  /\ NoHandler \notin Types
  /\ AppAddress \in Senders /\ NoSender \notin Senders
  /\ Inputs \subseteq [type: Types \cup {NoHandler}, create: BOOLEAN, sender: Senders]
  /\ MaxGroupSize \in Nat \ {0} /\ MaxHeap \in Nat /\ MaxGroups \in Nat

VARIABLES
  heap,       \* field dictionaries
  objs,       \* those of the inner transactions the code holds
  staged,     \* TransactionGroup._constructing_itxn_group
  groups,     \* TransactionGroup._itxn_groups
  submission, \* the submit_txns call in progress
  assets,     \* number of assets in the ledger, their ids count from 1
  clear       \* the active transaction's on_completion is ClearState

vars == <<heap, objs, staged, groups, submission, assets, clear>>

Fields == [type: Types \cup {NoHandler}, create: BOOLEAN, created: Nat,
           sender: Senders, assetSender: Senders \cup {NoSender}]

\* Nothing is being submitted.
Idle == [busy |-> FALSE, items |-> <<>>, results |-> <<>>, staged |-> FALSE]

Ready == ~submission.busy

-----------------------------------------------------------------------------
(* An exception: a group is not rolled back.                               *)

Raise == UNCHANGED <<heap, objs, staged, groups, assets, clear>>

-----------------------------------------------------------------------------
(* Building inner transactions.                                            *)

\* Mutant: the zero address get_txn_defaults gives every account field.
DefaultFields == [type |-> Default, create |-> TRUE, created |-> 0,
                  sender |-> NoSender, assetSender |-> NoSender]

NewFields == [type |-> Default, create |-> TRUE, created |-> 0,
              sender |-> AppAddress, assetSender |-> NoSender]

Alloc(f) == Len(heap) < MaxHeap /\ heap' = Append(heap, f)

With(f, input) ==
  [f EXCEPT !.type = input.type, !.create = input.create, !.sender = input.sender]

New(input) ==
  /\ Ready
  /\ Alloc(With(NewFields, input))
  /\ objs' = objs \cup {Len(heap) + 1}
  /\ UNCHANGED <<staged, groups, submission, assets, clear>>

Copy(o) ==
  /\ Ready
  /\ Alloc(heap[o])
  /\ objs' = objs \cup {Len(heap) + 1}
  /\ UNCHANGED <<staged, groups, submission, assets, clear>>

\* set() on an object, and ITxnCreate's setters on the last staged one.
Set(o, input) ==
  /\ Ready
  /\ heap' = [heap EXCEPT ![o] = With(heap[o], input)]
  /\ UNCHANGED <<objs, staged, groups, submission, assets, clear>>

OpSet(input) ==
  \/ staged # <<>> /\ Set(staged[Len(staged)], input)
  \/ Ready /\ staged = <<>> /\ Raise /\ UNCHANGED submission

-----------------------------------------------------------------------------
(* Staging a group: the objects themselves, not what they hold. Bound: one *)
(* object too many at most.                                                *)

MayBegin == staged = <<>> /\ ~clear

Stage(o, begin) ==
  /\ Ready
  /\ \/ /\ IF begin THEN MayBegin ELSE staged # <<>>
        /\ staged' = Append(staged, o)
        /\ UNCHANGED <<heap, objs, groups, submission, assets, clear>>
     \/ /\ ~(IF begin THEN MayBegin ELSE staged # <<>>)
        /\ Raise /\ UNCHANGED submission

\* ITxnCreate.begin and next make their own object.
OpStage(begin) ==
  /\ Ready
  /\ \/ /\ IF begin THEN MayBegin ELSE staged # <<>>
        /\ Alloc(NewFields)
        /\ staged' = Append(staged, Len(heap) + 1)
        /\ UNCHANGED <<objs, groups, submission, assets, clear>>
     \/ /\ ~(IF begin THEN MayBegin ELSE staged # <<>>)
        /\ Raise /\ UNCHANGED submission

-----------------------------------------------------------------------------
(* Submitting.                                                             *)

Submit(items, isStaged) ==
  /\ Ready
  /\ \/ /\ Len(items) <= MaxGroupSize
        /\ Len(heap) + Len(items) <= MaxHeap /\ Len(groups) < MaxGroups
        /\ submission' = [busy |-> TRUE, items |-> items, results |-> <<>>,
                          staged |-> isStaged]
        /\ UNCHANGED <<heap, objs, staged, groups, assets, clear>>
     \/ /\ Len(items) > MaxGroupSize
        /\ Raise /\ UNCHANGED submission

SubmitStaged ==
  \/ staged # <<>> /\ Submit(staged, TRUE)
  \/ Ready /\ staged = <<>> /\ Raise /\ UNCHANGED submission

\* A handler returns the fields of the transaction it was given.
CreatesAsset(f) == f.type = AssetConfig /\ f.create

Handle(f) ==
  IF CreatesAsset(f) THEN [f EXCEPT !.created = assets + 1]
  ELSE IF f.type = AssetTransfer /\ f.assetSender = NoSender
       THEN [f EXCEPT !.assetSender = f.sender]
       ELSE f

Item == submission.items[Len(submission.results) + 1]

\* Mutant: the result is the transaction's own dictionary.
SharedResult(f) ==
  /\ heap' = [heap EXCEPT ![Item] = f]
  /\ submission' = [submission EXCEPT !.results = Append(@, Item)]

\* A result copies the fields.
Result(f) ==
  /\ heap' = Append([heap EXCEPT ![Item] = f], f)
  /\ submission' = [submission EXCEPT !.results = Append(@, Len(heap) + 1)]

SubmitItem ==
  /\ ~Ready /\ Len(submission.results) < Len(submission.items)
  /\ LET f == heap[Item]
     IN  \/ /\ f.type # NoHandler
            /\ Result(Handle(f))
            /\ assets' = IF CreatesAsset(f) THEN assets + 1 ELSE assets
            /\ UNCHANGED <<objs, staged, groups, clear>>
         \/ /\ f.type = NoHandler
            /\ Raise /\ submission' = Idle

\* Mutant: whatever is submitted, nothing stays staged.
NothingStaged == <<>>

StillStaged == IF submission.staged THEN <<>> ELSE staged

FinishSubmit ==
  /\ ~Ready /\ Len(submission.results) = Len(submission.items)
  /\ groups' = Append(groups, submission.results)
  /\ staged' = StillStaged
  /\ submission' = Idle
  /\ UNCHANGED <<heap, objs, assets, clear>>

-----------------------------------------------------------------------------
Init ==
  /\ heap = <<>> /\ objs = {} /\ staged = <<>> /\ groups = <<>>
  /\ submission = Idle
  /\ assets = 0
  /\ clear \in BOOLEAN

\* Arguments of submit_txns: one too many at most.
Arguments == UNION {[1..n -> objs] : n \in 0..(MaxGroupSize + 1)}

Next ==
  \/ \E input \in Inputs : New(input) \/ OpSet(input) \/ \E o \in objs : Set(o, input)
  \/ \E o \in objs : Copy(o)
  \/ /\ Len(staged) <= MaxGroupSize
     /\ \E begin \in BOOLEAN : OpStage(begin) \/ \E o \in objs : Stage(o, begin)
  \/ \E items \in Arguments : Submit(items, FALSE)
  \/ SubmitStaged \/ SubmitItem \/ FinishSubmit

Spec == Init /\ [][Next]_vars

-----------------------------------------------------------------------------
(* Properties.                                                             *)

\* Type correctness: references are to dictionaries that exist.
TypeOK ==
  /\ heap \in Seq(Fields)
  /\ objs \subseteq 1..Len(heap)
  /\ staged \in Seq(1..Len(heap))
  /\ groups \in Seq(Seq(1..Len(heap)))
  /\ submission \in [busy: BOOLEAN, items: Seq(1..Len(heap)),
                     results: Seq(1..Len(heap)), staged: BOOLEAN]
  /\ assets \in Nat
  /\ clear \in BOOLEAN

Entry(f) == [fields |-> f, asset |-> IF CreatesAsset(f) THEN f.created ELSE 0]

Log == [i \in DOMAIN groups |-> [j \in DOMAIN groups[i] |-> Entry(heap[groups[i][j]])]]

Recorded == INSTANCE ItxnLog WITH log <- Log

\* However objects are staged twice, reused, changed or copied after they were
\* submitted, the recorded groups implement a log: they never change, and every
\* asset creation in them made an asset of its own.
RecordsItxns == Recorded!Spec

\* Staged transactions are only forgotten when all of them were recorded, as
\* they were when submitted: a failed submission, or a direct one in between,
\* keeps them.
StagedAreRecorded ==
  [][staged # <<>> /\ staged' = <<>> =>
       /\ Len(groups') = Len(groups) + 1
       /\ Len(groups'[Len(groups')]) = Len(staged)
       /\ \A i \in DOMAIN staged :
            LET result == heap[groups'[Len(groups')][i]]
            IN  [result EXCEPT !.created = 0] = [heap[staged[i]] EXCEPT !.created = 0]]_vars

\* txn_context.py:334, "Cannot begin inner transaction group in a clear state
\* call": such a call submits no inner transactions.
ClearStateSubmitsNothing == clear => \A i \in DOMAIN groups : groups[i] = <<>>
=============================================================================
