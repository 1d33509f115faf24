----------------------------- MODULE TxnContext -----------------------------
(***************************************************************************)
(* Application calls of the testing framework: transaction groups          *)
(* (context_helpers/txn_context.py), contract instances                    *)
(* (models/contract.py), ARC4 routing (decorators/arc4.py) and the         *)
(* transactions of a group (gtxn.py).                                      *)
(*                                                                         *)
(* The framework is single threaded; what interleaves is the nesting of    *)
(* Python frames (test code in a `with create_group` block, a contract's   *)
(* __init__, its methods and subroutines, its programs) with exceptions    *)
(* that unwind any number of them, each frame running its `finally`.       *)
(* `stack' holds those frames, `raising' is TRUE while an exception is in  *)
(* flight.                                                                 *)
(***************************************************************************)
EXTENDS Integers, Sequences, FiniteSets

CONSTANTS
  Apps,          \* contracts the test can instantiate, by application id
  NoApp,         \* application id 0
  CreateApps,    \* those whose class declares a create method itself
  Methods,       \* ARC4 methods
  NoMethod,
  Create,        \* Create[m]: "allow", "require" or "disallow"
  AllowActions,  \* AllowActions[m]: on completion actions m may be called with
  Actions,       \* on completion actions
  NoOp,          \* the default one
  Unset,         \* an override the test does not give
  TestOverrides, \* bound: the overrides tests give a group
  MaxGroupSize,  \* MAX_TRANSACTION_GROUP_SIZE
  MaxLogs,       \* MAX_ITEMS_IN_LOG
  MaxTxns,       \* bound: transaction objects
  MaxDepth       \* bound: nested frames

ASSUME ConstantsAssumption ==
  /\ NoApp \notin Apps /\ CreateApps \subseteq Apps
  /\ NoMethod \notin Methods
  /\ Create \in [Methods -> {"allow", "require", "disallow"}]
  /\ AllowActions \in [Methods -> SUBSET Actions]
  /\ NoOp \in Actions /\ Unset \notin Actions \cup Apps
  /\ TestOverrides \subseteq [oc: Actions \cup {Unset}, app: Apps \cup {Unset}]
  /\ MaxGroupSize \in Nat \ {0} /\ MaxLogs \in Nat
  /\ MaxTxns \in Nat /\ MaxDepth \in Nat

VARIABLES
  status,      \* of each contract instance: absent, init, ready, failed
  isCreating,  \* ApplicationContextData.is_creating
  txn,         \* every transaction object made so far
  active,      \* TransactionContext._active_group
  groups,      \* TransactionContext._groups
  stack,       \* Python frames, innermost last
  raising      \* an exception is propagating

vars == <<status, isCreating, txn, active, groups, stack, raising>>

-----------------------------------------------------------------------------
(* Transactions, groups and frames.                                        *)

NoLogs == -1

\* A transaction: an application call of app (a payment has none), made by
\* deferring a call of method or by the test itself. It has no logs field
\* until it becomes the active transaction of a group.
Txns ==
  {t \in [app: Apps \cup {NoApp}, oc: Actions, method: Methods \cup {NoMethod},
          logs: {NoLogs} \cup Nat] :
     t.method # NoMethod => t.app \in Apps}

Overrides == [oc: Actions \cup {Unset}, app: Apps \cup {Unset}]

NoOverrides == [oc |-> Unset, app |-> Unset]

NoGroup == [open |-> FALSE, txns |-> <<>>, index |-> 0, over |-> NoOverrides]

\* owner: leaving the frame leaves the create_group context manager.
Frames == [kind: {"group", "init", "call", "rejected", "program", "helper"},
           app: Apps \cup {NoApp}, method: Methods \cup {NoMethod},
           owner: BOOLEAN]

Frame(kind, a, m) == [kind |-> kind, app |-> a, method |-> m, owner |-> FALSE]

Top == stack[Len(stack)]

\* Test code runs outside every call, or in a `with create_group' block.
InTestCode == stack # <<>> => Top.kind = "group"

TestCode == ~raising /\ InTestCode

ContractCode ==
  ~raising /\ stack # <<>> /\ Top.kind \in {"init", "call", "program", "helper"}

Executing == TestCode \/ ContractCode

ActiveTxn == active.txns[active.index]

ActiveApp == txn[ActiveTxn].app

Raise ==
  /\ raising' = TRUE
  /\ UNCHANGED <<status, txn, active, groups, stack>>

-----------------------------------------------------------------------------
(* Transactions built for a call.                                          *)

\* The overrides of an open group may name another application.
OverridesFit(a) == active.over.app \in {Unset, a}

DefaultAction(S) == IF Cardinality(S) = 1 THEN CHOOSE oc \in S : TRUE ELSE NoOp

NewTxn(a, oc, m) == [app |-> a, oc |-> oc, method |-> m, logs |-> NoLogs]

\* Mutant: the override is taken though the test gave none.
OverrideTxn(a, m, allowed) == NewTxn(a, active.over.oc, m)

\* on_completion: an override, the single allowed action, or NoOp.
CallTxn(a, m, allowed) ==
  NewTxn(a, IF active.over.oc # Unset THEN active.over.oc
                                      ELSE DefaultAction(allowed), m)

-----------------------------------------------------------------------------
(* Entering a frame that needs a group: an implicit group when none is     *)
(* open, the open one otherwise, whose active transaction must be for the  *)
(* same application id -- which is 0 while the application is creating.    *)

ExpectedApp(a) == IF isCreating[a] THEN NoApp ELSE a

\* Mutant: while an application is creating, every call is admitted.
AdmitsCreating(a) ==
  active.txns # <<>> =>
    \/ ExpectedApp(a) = ActiveApp
    \/ ActiveApp # NoApp /\ isCreating[ActiveApp]

Admits(a) ==
  active.txns # <<>> =>
    \/ ExpectedApp(a) = ActiveApp
    \/ /\ ActiveApp # NoApp
       /\ isCreating[ActiveApp] /\ ExpectedApp(a) = NoApp

\* Mutant: the frame whose transaction is the first of the group owns it.
FillsGroup == active.txns = <<>>

OpensGroup == ~active.open

\* The frame's own transaction only becomes the active one of an empty group.
Enter(frame, t) ==
  /\ Len(stack) < MaxDepth
  /\ stack' = Append(stack, [frame EXCEPT !.owner = OpensGroup])
  /\ IF active.txns = <<>>
     THEN /\ Len(txn) < MaxTxns
          /\ txn' = Append(txn, [t EXCEPT !.logs = 0])
          /\ active' = [open |-> TRUE, txns |-> <<Len(txn) + 1>>, index |-> 1,
                        over |-> active.over]
     ELSE UNCHANGED <<txn, active>>
  /\ UNCHANGED groups

\* Mutant: the on completion action is only checked outside creation.
RoutesCreation(a, m, oc) ==
  IF isCreating[a] THEN Create[m] # "disallow"
                   ELSE Create[m] # "require" /\ oc \in AllowActions[m]

\* check_routing_conditions, under the active transaction's action.
Routes(a, m, oc) ==
  /\ isCreating[a] => Create[m] # "disallow"
  /\ ~isCreating[a] => Create[m] # "require"
  /\ oc \in AllowActions[m]

ActionFor(t) == IF active.txns = <<>> THEN t.oc ELSE txn[ActiveTxn].oc

-----------------------------------------------------------------------------
(* Test code: transactions, deferred calls and explicit groups.            *)

AnyTxn(a, oc) ==
  /\ TestCode /\ Len(txn) < MaxTxns
  /\ a # NoApp => status[a] = "ready"
  /\ txn' = Append(txn, NewTxn(a, oc, NoMethod))
  /\ UNCHANGED <<status, isCreating, active, groups, stack, raising>>

DeferAppCall(a, m) ==
  /\ TestCode /\ Len(txn) < MaxTxns
  /\ status[a] = "ready"
  /\ LET allowed == IF AllowActions[m] = {} THEN {NoOp} ELSE AllowActions[m]
     IN  IF OverridesFit(a)
         THEN /\ txn' = Append(txn, CallTxn(a, m, allowed))
              /\ UNCHANGED <<status, isCreating, active, groups, stack, raising>>
         ELSE Raise /\ UNCHANGED isCreating

IsDeferred(t) == txn[t].method # NoMethod

\* The active index create_group settles on; 0 stands for "not given".
ActiveIndex(items, index) ==
  LET deferred == {i \in 1..Len(items) : IsDeferred(items[i])}
  IN  CASE index # 0 -> index
        [] index = 0 /\ deferred # {} ->
             CHOOSE i \in deferred : \A j \in deferred : j <= i
        [] OTHER -> Len(items)

\* Mutant: a transaction that was active before may be active again.
GroupIsOpen(items, index, over) ==
  /\ ~active.open
  /\ items = <<>> \/ over = NoOverrides
  /\ index = 0 \/ items # <<>>
  /\ items # <<>> =>
       /\ Len(items) <= MaxGroupSize
       /\ ActiveIndex(items, index) \in DOMAIN items

\* What the constructor of TransactionGroup accepts.
GroupIsValid(items, index, over) ==
  /\ ~active.open
  /\ items = <<>> \/ over = NoOverrides
  /\ index = 0 \/ items # <<>>
  /\ items # <<>> =>
       /\ Len(items) <= MaxGroupSize
       /\ ActiveIndex(items, index) \in DOMAIN items
       /\ txn[items[ActiveIndex(items, index)]].logs = NoLogs

CreateGroup(items, index, over) ==
  /\ TestCode /\ Len(stack) < MaxDepth
  /\ GroupIsValid(items, index, over)
  /\ LET i == ActiveIndex(items, index)
     IN  /\ active' = [open |-> TRUE, txns |-> items, index |-> i, over |-> over]
         /\ txn' = IF items = <<>> THEN txn
                                   ELSE [txn EXCEPT ![items[i]].logs = 0]
  /\ stack' = Append(stack, [Frame("group", NoApp, NoMethod) EXCEPT !.owner = TRUE])
  /\ UNCHANGED <<status, isCreating, groups, raising>>

CreateGroupFails(items, index, over) ==
  /\ TestCode
  /\ ~GroupIsValid(items, index, over)
  /\ Raise /\ UNCHANGED isCreating

-----------------------------------------------------------------------------
(* Contract instances, and calls of their methods and programs.            *)

\* _ContractMeta.__call__ up to __init__; a group that already has
\* transactions belongs to another application.
Instantiate(a) ==
  /\ Executing
  /\ status[a] = "absent"
  /\ isCreating' = [isCreating EXCEPT ![a] = TRUE]
  /\ \/ /\ active.over.app = Unset /\ active.txns = <<>>
        /\ Enter(Frame("init", a, NoMethod), CallTxn(a, NoMethod, {}))
        /\ status' = [status EXCEPT ![a] = "init"]
        /\ UNCHANGED raising
     \/ /\ active.over.app # Unset \/ active.txns # <<>>
        /\ status' = [status EXCEPT ![a] = "failed"]
        /\ raising' = TRUE
        /\ UNCHANGED <<txn, active, groups, stack>>

\* Test code has the instance once __init__ returned, and so has the code of every contract;
\* while __init__ runs, the code it calls.
HasInstance(a) == Executing /\ status[a] \in {"init", "ready"}

\* A decorated method: its group, its routing check, then its body. A call
\* that fails before the body still runs set_is_creating's finally.
CallMethod(a, m) ==
  LET t == CallTxn(a, m, AllowActions[m])
      routed == Routes(a, m, ActionFor(t))
  IN  /\ HasInstance(a)
      /\ \/ /\ OverridesFit(a) /\ Admits(a)
            /\ Enter(Frame(IF routed THEN "call" ELSE "rejected", a, m), t)
            /\ raising' = ~routed
            /\ UNCHANGED <<status, isCreating>>
         \/ /\ ~(OverridesFit(a) /\ Admits(a))
            /\ Raise /\ isCreating' = [isCreating EXCEPT ![a] = FALSE]

\* DeferredAppCall.submit: routed once by itself, then again as a call.
Submit(t) ==
  /\ TestCode /\ IsDeferred(t)
  /\ LET a == txn[t].app
         m == txn[t].method
     IN  IF active.txns # <<>> /\ Routes(a, m, txn[ActiveTxn].oc)
         THEN CallMethod(a, m)
         ELSE Raise /\ UNCHANGED isCreating

\* approval_program or clear_state_program: no routing, and the finally is
\* inside the group.
CallProgram(a) ==
  /\ HasInstance(a)
  /\ \/ /\ OverridesFit(a) /\ Admits(a)
        /\ Enter(Frame("program", a, NoMethod), CallTxn(a, NoMethod, {}))
        /\ UNCHANGED <<status, isCreating, raising>>
     \/ /\ ~(OverridesFit(a) /\ Admits(a))
        /\ Raise /\ UNCHANGED isCreating

\* An undecorated method (a subroutine): no group, only set_is_creating.
CallHelper(a) ==
  /\ HasInstance(a) /\ Len(stack) < MaxDepth
  /\ stack' = Append(stack, Frame("helper", a, NoMethod))
  /\ UNCHANGED <<status, isCreating, txn, active, groups, raising>>

-----------------------------------------------------------------------------
(* What the code in a frame does.                                          *)

\* append_log on the active transaction.
CanLog ==
  active.txns # <<>> /\ ActiveApp # NoApp /\ txn[ActiveTxn].logs < MaxLogs

\* Mutant: the log goes to the group's first transaction.
AddLogFirst == [txn EXCEPT ![active.txns[1]].logs = @ + 1]

AddLog == [txn EXCEPT ![ActiveTxn].logs = @ + 1]

Log ==
  /\ ContractCode
  /\ IF CanLog
     THEN /\ txn' = AddLog
          /\ UNCHANGED <<status, isCreating, active, groups, stack, raising>>
     ELSE Raise /\ UNCHANGED isCreating

Fail ==
  /\ ContractCode \/ (TestCode /\ stack # <<>>)
  /\ Raise /\ UNCHANGED isCreating

\* Mutant: no finally, an exception leaves the group open.
ClosesOnReturn == Top.owner /\ ~raising

ClosesGroup == Top.owner

\* Mutant: a subroutine leaves the application as its constructor does.
CreatingAgain == Top.kind \in {"init", "helper"} /\ Top.app \in CreateApps

CreatingNext == Top.kind = "init" /\ Top.app \in CreateApps

\* Leaving the innermost frame: create_group's finally when it owns the
\* group, set_is_creating's, and the end of _ContractMeta.__call__.
Leave(t) ==
  /\ stack' = SubSeq(stack, 1, Len(stack) - 1)
  /\ txn' = t
  /\ IF ClosesGroup
     THEN /\ active' = NoGroup
          /\ groups' = IF active.txns = <<>> THEN groups
                       ELSE Append(groups, [txns |-> active.txns, index |-> active.index])
     ELSE UNCHANGED <<active, groups>>
  /\ isCreating' =
       IF Top.kind = "group" \/ (Top.kind = "init" /\ raising) THEN isCreating
       ELSE [isCreating EXCEPT ![Top.app] = CreatingNext]
  /\ status' = IF Top.kind = "init"
               THEN [status EXCEPT ![Top.app] = IF raising THEN "failed" ELSE "ready"]
               ELSE status
  /\ UNCHANGED raising

\* The end of a frame without a return value to log.
Return ==
  /\ ContractCode \/ (TestCode /\ stack # <<>>)
  /\ Leave(txn)

\* The end of an ARC4 method with a value: it is logged first, and a log
\* that fails raises inside the method's group.
ReturnValue ==
  /\ ContractCode /\ Top.kind = "call"
  /\ IF CanLog THEN Leave(AddLog) ELSE Raise /\ UNCHANGED isCreating

Unwind == raising /\ stack # <<>> /\ Leave(txn)

\* pytest.raises around a call in test code.
Catch ==
  /\ raising /\ InTestCode
  /\ raising' = FALSE
  /\ UNCHANGED <<status, isCreating, txn, active, groups, stack>>

-----------------------------------------------------------------------------
Init ==
  /\ status = [a \in Apps |-> "absent"]
  /\ isCreating = [a \in Apps |-> FALSE]
  /\ txn = <<>>
  /\ active = NoGroup
  /\ groups = <<>>
  /\ stack = <<>>
  /\ raising = FALSE

\* The groups the test may ask for: distinct transactions, one too many at most.
Items ==
  {s \in UNION {[1..n -> 1..Len(txn)] : n \in 0..(MaxGroupSize + 1)} :
     \A i, j \in DOMAIN s : s[i] = s[j] => i = j}

Next ==
  \/ \E a \in Apps : Instantiate(a) \/ CallProgram(a) \/ CallHelper(a)
  \/ \E a \in Apps, m \in Methods : DeferAppCall(a, m) \/ CallMethod(a, m)
  \/ \E a \in Apps \cup {NoApp}, oc \in Actions : AnyTxn(a, oc)
  \/ \E items \in Items, index \in 0..(MaxGroupSize + 1), over \in TestOverrides :
       CreateGroup(items, index, over) \/ CreateGroupFails(items, index, over)
  \/ \E t \in 1..Len(txn) : Submit(t)
  \/ Log \/ Fail \/ Return \/ ReturnValue \/ Unwind \/ Catch

\* Python always runs the finally blocks of an exception's frames.
Fairness == WF_vars(Unwind)

Spec == Init /\ [][Next]_vars /\ Fairness

-----------------------------------------------------------------------------
(* Properties.                                                             *)

Groups == [txns: Seq(Nat \ {0}), index: Nat]

\* Type correctness of the whole state.
TypeOK ==
  /\ status \in [Apps -> {"absent", "init", "ready", "failed"}]
  /\ isCreating \in [Apps -> BOOLEAN]
  /\ txn \in Seq(Txns)
  /\ active \in [open: BOOLEAN, txns: Seq(Nat \ {0}), index: Nat, over: Overrides]
  /\ groups \in Seq(Groups)
  /\ stack \in Seq(Frames)
  /\ raising \in BOOLEAN

\* Whatever frames return, fail or are unwound: a group is open exactly while
\* one frame, and no other, is to close it. (_active_group is None when no
\* application call is being executed.)
GroupHasOneOwner ==
  /\ active.open <=> \E i \in DOMAIN stack : stack[i].owner
  /\ \A i, j \in DOMAIN stack : stack[i].owner /\ stack[j].owner => i = j

\* A constructor, and a method that cannot create its application, never runs
\* under another application's transaction: also when a contract calls it while
\* one of the two applications, or both, are being created.
RunsUnderItsOwnTxn ==
  \A i \in DOMAIN stack :
    LET f == stack[i]
    IN  f.kind = "init" \/ (f.kind = "call" /\ Create[f.method] = "disallow") =>
          active.txns # <<>> /\ ActiveApp = f.app

\* Nested or deferred, a method body only ever runs with an on completion
\* action it allows, and a method that cannot create its application only
\* while that application is not being created.
RunningMethodsAreRouted ==
  \A i \in DOMAIN stack :
    LET f == stack[i]
    IN  f.kind = "call" =>
          /\ active.txns # <<>> /\ txn[ActiveTxn].oc \in AllowActions[f.method]
          /\ Create[f.method] = "disallow" => ~isCreating[f.app]

ActiveTxnOf(g) == g.txns[g.index]

\* No transaction object is ever the active one of two groups, so the logs of
\* a call are its own; a recorded group has an active transaction.
ActivatedOnce ==
  /\ \A i \in DOMAIN groups :
       /\ groups[i].index \in DOMAIN groups[i].txns
       /\ active.txns # <<>> => ActiveTxnOf(groups[i]) # ActiveTxn
  /\ \A i, j \in DOMAIN groups :
       ActiveTxnOf(groups[i]) = ActiveTxnOf(groups[j]) => i = j

\* What a finished group recorded stays as it was: the groups so far, and the
\* logs of their active transactions.
RecordedGroupsAreFinal ==
  [][\A i \in DOMAIN groups :
       /\ i \in DOMAIN groups' /\ groups'[i] = groups[i]
       /\ txn'[ActiveTxnOf(groups[i])] = txn[ActiveTxnOf(groups[i])]]_vars

\* Once an instance is out of its creation phase no later call, nested or
\* failing, puts it back: a create="require" method cannot run again.
CreationIsFinal ==
  [][\A a \in Apps : status[a] = "ready" /\ ~isCreating[a] => ~isCreating'[a]]_vars

\* An exception that reaches the test has closed the group it came from.
ExceptionsCloseTheirGroup ==
  raising /\ active.open ~> ~raising \/ ~active.open

\* gtxn.py:84: a transaction's application id is 0 while that application is
\* being created, until the code creating it is done.
CreatingUntilCreated ==
  \A i \in DOMAIN stack :
    LET f == stack[i]
    IN  f.kind = "init" \/ (f.kind = "call" /\ Create[f.method] = "require") =>
          isCreating[f.app]
=============================================================================
