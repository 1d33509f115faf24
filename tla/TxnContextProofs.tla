-------------------------- MODULE TxnContextProofs --------------------------
(* Proofs about application calls, for every set of contracts, methods,    *)
(* on completion actions and bounds.                                       *)
EXTENDS TxnContext, SequenceTheorems, FiniteSetTheorems, TLAPS

USE DEF OpensGroup, ClosesGroup, CreatingNext

\* Leaving the innermost frame keeps the others.
LEMMA PopFrame ==
  ASSUME NEW S, NEW s \in Seq(S), s # <<>>
  PROVE  LET t == SubSeq(s, 1, Len(s) - 1)
         IN  /\ t \in Seq(S) /\ Len(t) = Len(s) - 1
             /\ \A i \in 1..Len(t) : t[i] = s[i]
<1> DEFINE n == Len(s) - 1
           t == SubSeq(s, 1, n)
<1>1. n \in Nat /\ \A i \in 1..n : s[i] \in S
  BY EmptySeq, ElementOfSeq
<1> HIDE DEF n
<1>2. /\ t \in Seq(S)
      /\ Len(t) = IF 1 <= n THEN n - 1 + 1 ELSE 0
      /\ \A i \in 1..(n - 1 + 1) : t[i] = s[1 + i - 1]
  BY <1>1, SubSeqProperties
<1> HIDE DEF t
<1>3. t \in Seq(S) /\ Len(t) = n
  BY <1>1, <1>2
<1>4. ASSUME NEW i \in 1..Len(t) PROVE t[i] = s[i]
  BY <1>1, <1>2, <1>3
<1> QED
  BY <1>3, <1>4 DEF t, n

\* The sequences a test can ask a group for are sequences of transactions.
LEMMA ItemsAreTxns ==
  ASSUME txn \in Seq(Txns), NEW items \in Items
  PROVE  items \in Seq(Nat \ {0}) /\ \A i \in 1..Len(items) : items[i] \in 1..Len(txn)
<1>1. PICK n \in Nat : items \in [1..n -> 1..Len(txn)]
  BY ConstantsAssumption DEF Items
<1>2. Len(txn) \in Nat
  OBVIOUS
<1>3. items \in Seq(Nat \ {0})
  BY <1>1, <1>2 
<1> QED
  BY <1>1, <1>3

-----------------------------------------------------------------------------
(* Types.                                                                  *)

\* A call's transaction is one, whatever the overrides.
LEMMA CallTxnType ==
  ASSUME TypeOK, NEW a \in Apps, NEW m \in Methods \cup {NoMethod},
         NEW S \in SUBSET Actions
  PROVE  CallTxn(a, m, S) \in Txns
<1>1. DefaultAction(S) \in Actions
  <2>1. CASE Cardinality(S) = 1
    <3>1. S # {}
      BY <2>1, FS_EmptySet
    <3> QED
      BY <2>1, <3>1 DEF DefaultAction
  <2>2. CASE Cardinality(S) # 1
    BY <2>2, ConstantsAssumption DEF DefaultAction
  <2> QED
    BY <2>1, <2>2
<1>2. active.over.oc \in Actions \cup {Unset}
  BY DEF TypeOK, Overrides
<1> QED
  BY <1>1, <1>2 DEF CallTxn, NewTxn, Txns, NoLogs

\* Only the logs of a transaction ever change.
LEMMA WithLogs ==
  ASSUME NEW t \in Txns, NEW n \in {NoLogs} \cup Nat
  PROVE  LET u == [t EXCEPT !.logs = n]
         IN  u \in Txns /\ u.app = t.app /\ u.oc = t.oc /\ u.logs = n
  BY DEF Txns

LEMMA SetLogs ==
  ASSUME TypeOK, NEW k \in 1..Len(txn), NEW n \in {NoLogs} \cup Nat
  PROVE  /\ [txn EXCEPT ![k].logs = n] \in Seq(Txns)
         /\ Len([txn EXCEPT ![k].logs = n]) = Len(txn)
         /\ \A j \in 1..Len(txn) :
              [txn EXCEPT ![k].logs = n][j] = IF j = k THEN [txn[k] EXCEPT !.logs = n]
                                                       ELSE txn[j]
<1> DEFINE e == [txn[k] EXCEPT !.logs = n]
<1>1. e \in Txns
  <2>1. txn[k] \in Txns
    BY DEF TypeOK
  <2> QED
    BY <2>1, WithLogs
<1>2. [txn EXCEPT ![k].logs = n] = [txn EXCEPT ![k] = e]
  BY DEF TypeOK
<1> HIDE DEF e
<1>3. LET u == [txn EXCEPT ![k] = e]
      IN  /\ u \in Seq(Txns) /\ Len(u) = Len(txn)
          /\ \A j \in 1..Len(txn) : u[j] = IF j = k THEN e ELSE txn[j]
  BY <1>1, ExceptSeq DEF TypeOK
<1> QED
  BY <1>2, <1>3 DEF e

\* One more log on the active transaction.
LEMMA AddLogType ==
  ASSUME TypeOK, ActiveTxn \in 1..Len(txn)
  PROVE  /\ AddLog \in Seq(Txns) /\ Len(AddLog) = Len(txn)
         /\ \A k \in 1..Len(txn) :
              AddLog[k] = IF k = ActiveTxn
                          THEN [txn[k] EXCEPT !.logs = txn[k].logs + 1]
                          ELSE txn[k]
<1>1. txn[ActiveTxn] \in Txns
  BY DEF TypeOK
<1>2. txn[ActiveTxn].logs + 1 \in {NoLogs} \cup Nat
  BY <1>1 DEF Txns, NoLogs
<1>3. AddLog = [txn EXCEPT ![ActiveTxn].logs = txn[ActiveTxn].logs + 1]
  BY DEF AddLog
<1> QED
  BY <1>2, <1>3, SetLogs

-----------------------------------------------------------------------------
(* Types, together with what they rest on: a group that has transactions   *)
(* has an active one, and that one has logs.                               *)

ActiveOK ==
  /\ ~active.open => active.txns = <<>>
  /\ active.txns # <<>> =>
       /\ active.index \in 1..Len(active.txns)
       /\ ActiveTxn \in 1..Len(txn)
       /\ txn[ActiveTxn].logs # NoLogs

TypeInv == TypeOK /\ ActiveOK

LEMMA EnterType ==
  ASSUME TypeInv, NEW f \in Frames, NEW t \in Txns, Enter(f, t),
         status' \in [Apps -> {"absent", "init", "ready", "failed"}],
         isCreating' \in [Apps -> BOOLEAN], raising' \in BOOLEAN
  PROVE  TypeInv'
<1> DEFINE g == [f EXCEPT !.owner = ~active.open]
           u == [t EXCEPT !.logs = 0]
<1>1. g \in Frames
  BY DEF Frames
<1>2. u \in Txns /\ u.logs = 0
  BY WithLogs
<1>3. stack' = Append(stack, g) /\ groups' = groups
  BY DEF Enter
<1>4. CASE active.txns = <<>>
  <2> DEFINE k == Len(txn) + 1
             h == [open |-> TRUE, txns |-> <<k>>, index |-> 1, over |-> active.over]
  <2>1. txn' = Append(txn, u) /\ active' = h
    BY <1>4 DEF Enter
  <2> HIDE DEF u, g
  <2>2. k \in Nat \ {0} /\ active.over \in Overrides
    BY DEF TypeInv, TypeOK
  <2> HIDE DEF k
  <2>3. h \in [open: BOOLEAN, txns: Seq(Nat \ {0}), index: Nat, over: Overrides]
    BY <2>2
  <2>4. /\ h.open /\ h.index \in 1..Len(h.txns) /\ h.txns[h.index] = k
    BY <2>2
  <2> HIDE DEF h
  <2>5. /\ txn' \in Seq(Txns) /\ Len(txn') = k /\ txn'[k] = u
    BY <1>2, <2>1 DEF TypeInv, TypeOK, k
  <2>6. TypeOK'
    BY <1>1, <1>3, <2>1, <2>3, <2>5 DEF TypeInv, TypeOK
  <2>7. ActiveOK'
    BY <1>2, <2>1, <2>2, <2>4, <2>5 DEF ActiveOK, ActiveTxn, NoLogs
  <2> QED
    BY <2>6, <2>7 DEF TypeInv
<1>5. CASE active.txns # <<>>
  <2> HIDE DEF u, g
  <2>1. UNCHANGED <<txn, active>>
    BY <1>5 DEF Enter
  <2> QED
    BY <1>1, <1>3, <2>1 DEF TypeInv, TypeOK, ActiveOK, ActiveTxn
<1> QED
  BY <1>4, <1>5

LEMMA LeaveType ==
  ASSUME TypeInv, stack # <<>>, Top \in Frames, NEW t \in Seq(Txns), Leave(t),
         Len(t) = Len(txn),
         \A k \in 1..Len(txn) : txn[k].logs # NoLogs => t[k].logs # NoLogs
  PROVE  TypeInv'
<1>1. stack' \in Seq(Frames)
  BY PopFrame DEF Leave, TypeInv, TypeOK
<1>2. /\ active' \in [open: BOOLEAN, txns: Seq(Nat \ {0}), index: Nat, over: Overrides]
      /\ groups' \in Seq(Groups)
  <2>1. CASE Top.owner
    <3>1. active' = NoGroup
      BY <2>1 DEF Leave
    <3>2. NoGroup \in [open: BOOLEAN, txns: Seq(Nat \ {0}), index: Nat, over: Overrides]
      BY DEF NoGroup, NoOverrides, Overrides
    <3> DEFINE g == [txns |-> active.txns, index |-> active.index]
    <3>3. g \in Groups
      BY DEF TypeInv, TypeOK, Groups
    <3>4. groups' = groups \/ groups' = Append(groups, g)
      BY <2>1 DEF Leave
    <3> HIDE DEF g
    <3>5. groups' \in Seq(Groups)
      <4>1. groups \in Seq(Groups)
        BY DEF TypeInv, TypeOK
      <4>2. Append(groups, g) \in Seq(Groups)
        BY <3>3, <4>1
      <4> QED
        BY <3>4, <4>1, <4>2
    <3> QED
      BY <3>1, <3>2, <3>5
  <2>2. CASE ~Top.owner
    BY <2>2 DEF Leave, TypeInv, TypeOK
  <2> QED
    BY <2>1, <2>2
<1>3. isCreating' \in [Apps -> BOOLEAN]
  <2>1. \A b \in BOOLEAN : [isCreating EXCEPT ![Top.app] = b] \in [Apps -> BOOLEAN]
    BY DEF TypeInv, TypeOK
  <2>2. (Top.kind = "init" /\ Top.app \in CreateApps) \in BOOLEAN
    OBVIOUS
  <2>3. isCreating \in [Apps -> BOOLEAN]
    BY DEF TypeInv, TypeOK
  <2> QED
    BY <2>1, <2>2, <2>3, Zenon DEF Leave
<1>4. status' \in [Apps -> {"absent", "init", "ready", "failed"}]
  BY DEF Leave, TypeInv, TypeOK
<1>5. TypeOK'
  BY <1>1, <1>2, <1>3, <1>4 DEF Leave, TypeInv, TypeOK
<1>6. ActiveOK'
  <2>1. CASE Top.owner
    BY <2>1 DEF Leave, NoGroup, ActiveOK
  <2>2. CASE ~Top.owner
    BY <2>2 DEF Leave, TypeInv, ActiveOK, ActiveTxn
  <2> QED
    BY <2>1, <2>2
<1> QED
  BY <1>5, <1>6 DEF TypeInv


LEMMA TopFrame ==
  ASSUME TypeOK, stack # <<>>
  PROVE  Top \in Frames
<1>1. Len(stack) \in 1..Len(stack)
  BY EmptySeq DEF TypeOK
<1> QED
  BY <1>1, ElementOfSeq DEF TypeOK, Top

\* Raising, logging and leaving preserve the types.
LEMMA RaiseType ==
  ASSUME TypeInv, Raise, isCreating' \in [Apps -> BOOLEAN]
  PROVE  TypeInv'
  BY DEF Raise, TypeInv, TypeOK, ActiveOK, ActiveTxn

LEMMA LogKeepsActive ==
  ASSUME TypeInv, CanLog
  PROVE  /\ AddLog \in Seq(Txns) /\ Len(AddLog) = Len(txn)
         /\ \A k \in 1..Len(txn) :
              /\ txn[k].logs # NoLogs => AddLog[k].logs # NoLogs
              /\ AddLog[k].app = txn[k].app /\ AddLog[k].oc = txn[k].oc
              /\ AddLog[k].method = txn[k].method
              /\ k # ActiveTxn => AddLog[k] = txn[k]
<1>1. ActiveTxn \in 1..Len(txn) /\ txn \in Seq(Txns)
  BY DEF TypeInv, TypeOK, ActiveOK, CanLog
<1> DEFINE u(k) == [txn[k] EXCEPT !.logs = txn[k].logs + 1]
<1>2. ASSUME NEW k \in 1..Len(txn), txn[k].logs # NoLogs
      PROVE  u(k).logs # NoLogs
  BY <1>1, <1>2 DEF Txns, NoLogs
<1>3. \A k \in 1..Len(txn) :
        u(k).app = txn[k].app /\ u(k).oc = txn[k].oc /\ u(k).method = txn[k].method
  BY <1>1 DEF Txns
<1>4. /\ AddLog \in Seq(Txns) /\ Len(AddLog) = Len(txn)
      /\ \A k \in 1..Len(txn) : AddLog[k] = IF k = ActiveTxn THEN u(k) ELSE txn[k]
  BY <1>1, AddLogType DEF TypeInv
<1> HIDE DEF u
<1> QED
  BY <1>2, <1>3, <1>4

LEMMA NewTxnType ==
  ASSUME TypeInv, NEW t \in Txns, txn' = Append(txn, t),
         UNCHANGED <<status, isCreating, active, groups, stack, raising>>
  PROVE  TypeInv'
<1>1. TypeOK'
  BY DEF TypeInv, TypeOK
<1>2. ActiveOK'
  BY DEF TypeInv, TypeOK, ActiveOK, ActiveTxn
<1> QED
  BY <1>1, <1>2 DEF TypeInv

LEMMA TypeStep == TypeInv /\ [Next]_vars => TypeInv'
<1> SUFFICES ASSUME TypeInv, [Next]_vars PROVE TypeInv'
  OBVIOUS
<1> USE DEF TypeInv
<1>1. ASSUME NEW a \in Apps, Instantiate(a) PROVE TypeInv'
  <2>1. /\ isCreating' \in [Apps -> BOOLEAN]
        /\ status' \in [Apps -> {"absent", "init", "ready", "failed"}]
    BY <1>1 DEF Instantiate, TypeOK
  <2>2. Frame("init", a, NoMethod) \in Frames
    BY DEF Frame, Frames
  <2>3. CallTxn(a, NoMethod, {}) \in Txns
    BY CallTxnType
  <2>4. CASE Enter(Frame("init", a, NoMethod), CallTxn(a, NoMethod, {})) /\ UNCHANGED raising
    BY <2>1, <2>2, <2>3, <2>4, EnterType DEF TypeOK
  <2>5. CASE raising' = TRUE /\ UNCHANGED <<txn, active, groups, stack>>
    BY <2>1, <2>5 DEF TypeOK, ActiveOK, ActiveTxn
  <2> QED
    BY <1>1, <2>4, <2>5 DEF Instantiate
<1>2. ASSUME NEW a \in Apps, NEW m \in Methods, CallMethod(a, m) PROVE TypeInv'
  <2> DEFINE t == CallTxn(a, m, AllowActions[m])
             routed == Routes(a, m, ActionFor(t))
             f == Frame(IF routed THEN "call" ELSE "rejected", a, m)
  <2>1. AllowActions[m] \in SUBSET Actions
    BY ConstantsAssumption
  <2>2. t \in Txns
    BY <2>1, CallTxnType
  <2>3. f \in Frames
    BY DEF Frame, Frames
  <2>4. CASE Enter(f, t) /\ raising' = ~routed /\ UNCHANGED <<status, isCreating>>
    BY <2>2, <2>3, <2>4, EnterType DEF TypeOK
  <2>5. CASE Raise /\ isCreating' = [isCreating EXCEPT ![a] = FALSE]
    BY <2>5, RaiseType DEF TypeOK
  <2> QED
    BY <1>2, <2>4, <2>5 DEF CallMethod
<1>3. ASSUME NEW a \in Apps, CallProgram(a) PROVE TypeInv'
  <2>1. Frame("program", a, NoMethod) \in Frames
    BY DEF Frame, Frames
  <2>2. CallTxn(a, NoMethod, {}) \in Txns
    BY CallTxnType
  <2>3. CASE /\ Enter(Frame("program", a, NoMethod), CallTxn(a, NoMethod, {}))
             /\ UNCHANGED <<status, isCreating, raising>>
    BY <2>1, <2>2, <2>3, EnterType DEF TypeOK
  <2>4. CASE Raise /\ UNCHANGED isCreating
    BY <2>4, RaiseType DEF TypeOK
  <2> QED
    BY <1>3, <2>3, <2>4 DEF CallProgram
<1>4. ASSUME NEW a \in Apps, CallHelper(a) PROVE TypeInv'
  <2>1. Frame("helper", a, NoMethod) \in Frames
    BY DEF Frame, Frames
  <2> QED
    BY <1>4, <2>1 DEF CallHelper, TypeOK, ActiveOK, ActiveTxn
<1>5. ASSUME NEW a \in Apps, NEW m \in Methods, DeferAppCall(a, m) PROVE TypeInv'
  <2> DEFINE allowed == IF AllowActions[m] = {} THEN {NoOp} ELSE AllowActions[m]
  <2>1. allowed \in SUBSET Actions
    BY ConstantsAssumption
  <2>2. CallTxn(a, m, allowed) \in Txns
    BY <2>1, CallTxnType
  <2>3. CASE /\ txn' = Append(txn, CallTxn(a, m, allowed))
             /\ UNCHANGED <<status, isCreating, active, groups, stack, raising>>
    BY <2>2, <2>3, NewTxnType
  <2>4. CASE Raise /\ UNCHANGED isCreating
    BY <2>4, RaiseType DEF TypeOK
  <2> QED
    BY <1>5, <2>3, <2>4 DEF DeferAppCall
<1>6. ASSUME NEW a \in Apps \cup {NoApp}, NEW oc \in Actions, AnyTxn(a, oc) PROVE TypeInv'
  <2>1. NewTxn(a, oc, NoMethod) \in Txns
    BY ConstantsAssumption DEF NewTxn, Txns
  <2> QED
    BY <1>6, <2>1, NewTxnType DEF AnyTxn
<1>7. ASSUME NEW items \in Items, NEW index \in 0..(MaxGroupSize + 1),
             NEW over \in TestOverrides, CreateGroup(items, index, over)
      PROVE  TypeInv'
  <2> DEFINE i == ActiveIndex(items, index)
             h == [open |-> TRUE, txns |-> items, index |-> i, over |-> over]
  <2>1. items \in Seq(Nat \ {0}) /\ \A k \in 1..Len(items) : items[k] \in 1..Len(txn)
    BY ItemsAreTxns DEF TypeOK
  <2>2. over \in Overrides
    BY ConstantsAssumption DEF Overrides
  <2>3. ActiveIndex(items, index) \in Nat
    <3>1. CASE items = <<>>
      BY <3>1, ConstantsAssumption DEF ActiveIndex
    <3>2. CASE items # <<>>
      BY <1>7, <2>1, <3>2 DEF CreateGroup, GroupIsValid
    <3> QED
      BY <3>1, <3>2
  <2>4. [Frame("group", NoApp, NoMethod) EXCEPT !.owner = TRUE] \in Frames
    BY DEF Frame, Frames
  <2>5. /\ active' = h
        /\ stack' = Append(stack, [Frame("group", NoApp, NoMethod) EXCEPT !.owner = TRUE])
        /\ UNCHANGED <<status, isCreating, groups, raising>>
    BY <1>7 DEF CreateGroup
  <2>6. active' \in [open: BOOLEAN, txns: Seq(Nat \ {0}), index: Nat, over: Overrides]
    BY <2>1, <2>2, <2>3, <2>5
  <2>7. CASE items = <<>>
    <3>1. txn' = txn
      BY <1>7, <2>7 DEF CreateGroup
    <3> QED
      BY <2>4, <2>5, <2>6, <2>7, <3>1 DEF TypeOK, ActiveOK
  <2>8. CASE items # <<>>
    <3>1. i \in 1..Len(items) /\ txn' = [txn EXCEPT ![items[i]].logs = 0]
      BY <1>7, <2>1, <2>8 DEF CreateGroup, GroupIsValid
    <3>2. items[i] \in 1..Len(txn)
      BY <2>1, <3>1
    <3> HIDE DEF i
    <3>3. 0 \in {NoLogs} \cup Nat /\ [txn[items[i]] EXCEPT !.logs = 0].logs = 0
      BY <3>2 DEF TypeOK, Txns
    <3> DEFINE k == items[i]
               u == [txn EXCEPT ![k].logs = 0]
    <3>4. /\ txn' \in Seq(Txns) /\ Len(txn') = Len(txn)
          /\ txn'[items[i]] = [txn[items[i]] EXCEPT !.logs = 0]
      <4>1. txn' = u /\ k \in 1..Len(txn)
        BY <3>1, <3>2
      <4> HIDE DEF k
      <4>2. /\ u \in Seq(Txns) /\ Len(u) = Len(txn)
            /\ u[k] = [txn[k] EXCEPT !.logs = 0]
        <5>1. TypeOK /\ 0 \in {NoLogs} \cup Nat
          BY DEF NoLogs
        <5>2. /\ u \in Seq(Txns) /\ Len(u) = Len(txn)
              /\ \A j \in 1..Len(txn) : u[j] = IF j = k THEN [txn[k] EXCEPT !.logs = 0]
                                                       ELSE txn[j]
          BY <4>1, <5>1, SetLogs
        <5> HIDE DEF u
        <5> QED
          BY <4>1, <5>2
      <4> QED
        BY <4>1, <4>2 DEF k
    <3>5. TypeOK'
      BY <2>4, <2>5, <2>6, <3>4 DEF TypeOK
    <3>6. ActiveOK'
      BY <2>5, <3>1, <3>2, <3>3, <3>4 DEF ActiveOK, ActiveTxn, NoLogs
    <3> QED
      BY <3>5, <3>6
  <2> QED
    BY <2>7, <2>8
<1>8. ASSUME NEW items \in Items, NEW index \in 0..(MaxGroupSize + 1),
             NEW over \in TestOverrides, CreateGroupFails(items, index, over)
      PROVE  TypeInv'
  BY <1>8, RaiseType DEF CreateGroupFails, TypeOK
<1>9. ASSUME NEW t \in 1..Len(txn), Submit(t) PROVE TypeInv'
  <2>1. txn[t] \in Txns /\ txn[t].app \in Apps /\ txn[t].method \in Methods
    BY <1>9 DEF TypeOK, Submit, IsDeferred, Txns
  <2>2. CASE CallMethod(txn[t].app, txn[t].method)
    BY <1>2, <2>1, <2>2
  <2>3. CASE Raise /\ UNCHANGED isCreating
    BY <2>3, RaiseType DEF TypeOK
  <2> QED
    BY <1>9, <2>2, <2>3 DEF Submit
<1>10. CASE Log
  <2>1. CASE CanLog
    BY <1>10, <2>1, LogKeepsActive DEF Log, TypeOK, ActiveOK, ActiveTxn
  <2>2. CASE ~CanLog
    BY <1>10, <2>2, RaiseType DEF Log, TypeOK
  <2> QED
    BY <2>1, <2>2
<1>11. CASE Fail
  BY <1>11, RaiseType DEF Fail, TypeOK
<1>12. CASE stack # <<>> /\ Leave(txn)
  BY <1>12, LeaveType, TopFrame DEF TypeOK
<1>13. CASE ReturnValue
  <2>1. CASE CanLog
    <3>1. stack # <<>> /\ Leave(AddLog)
      BY <1>13, <2>1 DEF ReturnValue, ContractCode
    <3> QED
      BY <2>1, <3>1, LogKeepsActive, LeaveType, TopFrame
  <2>2. CASE ~CanLog
    BY <1>13, <2>2, RaiseType DEF ReturnValue, TypeOK
  <2> QED
    BY <2>1, <2>2
<1>14. CASE Catch
  BY <1>14 DEF Catch, TypeOK, ActiveOK, ActiveTxn
<1>15. CASE UNCHANGED vars
  BY <1>15 DEF vars, TypeOK, ActiveOK, ActiveTxn
<1>16. Return \/ Unwind => stack # <<>> /\ Leave(txn)
  BY DEF Return, Unwind, ContractCode
<1> QED
  BY <1>1, <1>2, <1>3, <1>4, <1>5, <1>6, <1>7, <1>8, <1>9, <1>10, <1>11, <1>12,
     <1>13, <1>14, <1>15, <1>16 DEF Next

LEMMA InitType == Init => TypeInv
<1> SUFFICES ASSUME Init PROVE TypeInv
  OBVIOUS
<1>1. NoGroup \in [open: BOOLEAN, txns: Seq(Nat \ {0}), index: Nat, over: Overrides]
  BY DEF NoGroup, NoOverrides, Overrides
<1>2. TypeOK
  <2>1. <<>> \in Seq(Txns) /\ <<>> \in Seq(Groups) /\ <<>> \in Seq(Frames)
    BY EmptySeq
  <2> QED
    BY <1>1, <2>1 DEF Init, TypeOK
<1>3. ActiveOK
  BY DEF Init, ActiveOK, NoGroup
<1> QED
  BY <1>2, <1>3 DEF TypeInv

LEMMA TypeInvariant == Spec => []TypeInv
  BY InitType, TypeStep, PTL DEF Spec

\* In every reachable state the variables have the types of the framework's
\* objects: TypeOK, whatever the test does.
THEOREM TypeCorrect == Spec => []TypeOK
<1>1. TypeInv => TypeOK
  BY DEF TypeInv
<1> QED
  BY <1>1, TypeInvariant, PTL

-----------------------------------------------------------------------------
(* The frames. GroupHasOneOwner and RunsUnderItsOwnTxn are not inductive:  *)
(* that a popped owner leaves nothing behind that needs the group rests on *)
(* every such frame having an owner under it, and that a constructor does  *)
(* not put an application under a running method back into its creation on *)
(* constructors opening a transaction of their own, for which the frames   *)
(* below must have none: they are blocks of the test and subroutines.      *)

FrameOK(i) ==
  LET f == stack[i]
  IN  /\ f.kind # "helper" => \E j \in 1..i : stack[j].owner
      /\ f.kind = "helper" => ~f.owner
      /\ f.kind = "group" => i = 1 /\ f.owner
      /\ f.kind \notin {"group", "helper"} => active.txns # <<>>
      /\ f.kind # "group" => f.app \in Apps /\ status[f.app] # "absent"
      /\ f.kind \in {"call", "rejected"} => f.method \in Methods
      /\ f.kind = "init" =>
           /\ status[f.app] = "init"
           /\ \A j \in 1..(i - 1) : stack[j].kind \in {"group", "helper"}

StackOK == GroupHasOneOwner /\ \A i \in 1..Len(stack) : FrameOK(i)

RunOK(i) ==
  LET f == stack[i]
  IN  /\ f.kind = "init" \/ (f.kind = "call" /\ Create[f.method] = "disallow") =>
           active.txns # <<>> /\ ActiveApp = f.app
      /\ f.kind = "call" =>
           /\ active.txns # <<>> /\ txn[ActiveTxn].oc \in AllowActions[f.method]
           /\ Create[f.method] = "disallow" => ~isCreating[f.app]

IInv == TypeInv /\ StackOK /\ \A i \in 1..Len(stack) : RunOK(i)

\* A frame that stays keeps what it relies on as long as its group and its
\* active transaction stay.
LEMMA KeepFrame ==
  ASSUME NEW i \in 1..Len(stack), Len(stack) \in Nat,
         FrameOK(i), RunOK(i),
         \A j \in 1..i : stack'[j] = stack[j],
         stack[i].kind \notin {"helper", "group"} =>
           /\ active'.txns # <<>> /\ ActiveApp' = ActiveApp
           /\ (txn[ActiveTxn].oc)' = txn[ActiveTxn].oc,
         \A a \in Apps : status[a] # "absent" => status'[a] # "absent",
         stack[i].kind = "init" => status'[stack[i].app] = status[stack[i].app],
         stack[i].kind = "call" /\ isCreating'[stack[i].app] => isCreating[stack[i].app]
  PROVE  FrameOK(i)' /\ RunOK(i)'
<1>1. stack'[i] = stack[i]
  OBVIOUS
<1>2. FrameOK(i)'
  BY <1>1 DEF FrameOK
<1>3. RunOK(i)'
  BY <1>1 DEF RunOK
<1> QED
  BY <1>2, <1>3

\* A step that leaves every frame, and the group, as they are.
LEMMA SameStack ==
  ASSUME IInv, UNCHANGED <<stack, status>>,
         active' = active, active.txns # <<>> =>
           /\ ActiveApp' = ActiveApp /\ (txn[ActiveTxn].oc)' = txn[ActiveTxn].oc,
         \A a \in Apps : isCreating'[a] => isCreating[a]
  PROVE  StackOK' /\ \A i \in 1..Len(stack') : RunOK(i)'
<1>1. GroupHasOneOwner'
  BY DEF IInv, StackOK, GroupHasOneOwner
<1>2. ASSUME NEW i \in 1..Len(stack) PROVE FrameOK(i)' /\ RunOK(i)'
  <2>1. FrameOK(i) /\ RunOK(i) /\ Len(stack) \in Nat
    BY DEF IInv, StackOK, TypeInv, TypeOK
  <2>2. stack[i].kind \notin {"helper", "group"} => active.txns # <<>>
    BY <2>1 DEF FrameOK
  <2>3. stack[i].kind = "call" => stack[i].app \in Apps
    BY <2>1 DEF FrameOK
  <2> QED
    BY <2>1, <2>2, <2>3, KeepFrame
<1> QED
  BY <1>1, <1>2 DEF StackOK

\* A step that pushes a frame, which owns the group exactly when it opens it.
LEMMA Push ==
  ASSUME IInv, NEW g \in Frames, stack' = Append(stack, g),
         IF g.owner THEN ~active.open /\ active'.open ELSE active'.open = active.open,
         active.txns # <<>> =>
           /\ active'.txns # <<>>
           /\ ActiveApp' = ActiveApp /\ (txn[ActiveTxn].oc)' = txn[ActiveTxn].oc,
         \A a \in Apps : status[a] # "absent" => status'[a] = status[a],
         \A a \in Apps : isCreating'[a] => isCreating[a] \/ status[a] = "absent",
         NEW k, k = Len(stack) + 1, FrameOK(k)', RunOK(k)'
  PROVE  StackOK' /\ \A i \in 1..Len(stack') : RunOK(i)'
<1> DEFINE n == Len(stack)
<1>1. /\ n \in Nat /\ Len(stack') = n + 1 /\ stack'[n + 1] = g
      /\ \A j \in 1..n : stack'[j] = stack[j]
  BY DEF IInv, TypeInv, TypeOK
<1>2. GroupHasOneOwner'
  <2>1. DOMAIN stack = 1..n /\ DOMAIN stack' = 1..(n + 1)
    BY <1>1, EmptySeq DEF IInv, TypeInv, TypeOK
  <2>2. /\ active.open <=> \E i \in 1..n : stack[i].owner
        /\ \A i, j \in 1..n : stack[i].owner /\ stack[j].owner => i = j
    BY <2>1 DEF IInv, StackOK, GroupHasOneOwner
  <2>3. g.owner \in BOOLEAN /\ active.open \in BOOLEAN
    BY DEF Frames, IInv, TypeInv, TypeOK
  <2>4. /\ active'.open <=> \E i \in 1..(n + 1) : stack'[i].owner
        /\ \A i, j \in 1..(n + 1) : stack'[i].owner /\ stack'[j].owner => i = j
    <3>1. CASE g.owner
      BY <1>1, <2>2, <2>3, <3>1
    <3>2. CASE ~g.owner
      BY <1>1, <2>2, <2>3, <3>2
    <3> QED
      BY <3>1, <3>2
  <2> QED
    BY <2>1, <2>4 DEF GroupHasOneOwner
<1>3. ASSUME NEW i \in 1..n PROVE FrameOK(i)' /\ RunOK(i)'
  <2>1. FrameOK(i) /\ RunOK(i)
    BY DEF IInv, StackOK
  <2>2. /\ stack[i].kind \notin {"helper", "group"} => active.txns # <<>>
        /\ stack[i].kind # "group" => stack[i].app \in Apps /\ status[stack[i].app] # "absent"
    BY <2>1 DEF FrameOK
  <2>3. \A j \in 1..i : stack'[j] = stack[j]
    BY <1>1
  <2> QED
    BY <1>1, <2>1, <2>2, <2>3, KeepFrame
<1>4. ASSUME NEW i \in 1..Len(stack') PROVE FrameOK(i)' /\ RunOK(i)'
  <2>1. CASE i \in 1..n
    BY <1>3, <2>1
  <2>2. CASE i = k
    BY <2>2
  <2> QED
    BY <1>1, <2>1, <2>2
<1> QED
  BY <1>2, <1>4 DEF StackOK

\* A step that pops a frame, and closes the group with its owner.
LEMMA Pop ==
  ASSUME IInv, stack # <<>>, NEW t \in Seq(Txns), Leave(t), Len(t) = Len(txn),
         \A k \in 1..Len(txn) : t[k].app = txn[k].app /\ t[k].oc = txn[k].oc
  PROVE  StackOK' /\ \A i \in 1..Len(stack') : RunOK(i)'
<1> DEFINE n == Len(stack)
<1>1. /\ n \in Nat \ {0} /\ Len(stack') = n - 1 /\ stack' \in Seq(Frames)
      /\ \A j \in 1..(n - 1) : stack'[j] = stack[j]
  BY PopFrame, EmptySeq DEF Leave, IInv, TypeInv, TypeOK
<1>2. /\ active.open <=> \E i \in 1..n : stack[i].owner
      /\ \A i, j \in 1..n : stack[i].owner /\ stack[j].owner => i = j
      /\ \A i \in 1..n : FrameOK(i) /\ RunOK(i)
      /\ Top = stack[n] /\ Top \in Frames
  <2>1. DOMAIN stack = 1..n
    BY <1>1 DEF IInv, TypeInv, TypeOK
  <2> QED
    BY <2>1, TopFrame DEF IInv, StackOK, GroupHasOneOwner, Top, TypeInv
<1>3. active' = IF Top.owner THEN NoGroup ELSE active
  BY DEF Leave
<1>4. GroupHasOneOwner'
  <2>1. /\ active'.open <=> \E i \in 1..(n - 1) : stack'[i].owner
        /\ \A i, j \in 1..(n - 1) : stack'[i].owner /\ stack'[j].owner => i = j
    <3>1. CASE Top.owner
      BY <1>1, <1>2, <1>3, <3>1 DEF NoGroup
    <3>2. CASE ~Top.owner
      <4>1. \A i \in 1..n : stack[i].owner => i \in 1..(n - 1)
        BY <1>1, <1>2, <3>2
      <4>2. \A i \in 1..(n - 1) : i \in 1..n /\ stack'[i] = stack[i]
        BY <1>1
      <4> HIDE DEF n
      <4> QED
        BY <1>2, <1>3, <3>2, <4>1, <4>2
    <3> QED
      BY <3>1, <3>2
  <2>2. DOMAIN stack' = 1..(n - 1)
    BY <1>1
  <2> QED
    BY <2>1, <2>2 DEF GroupHasOneOwner
<1>5. ASSUME NEW i \in 1..(n - 1) PROVE FrameOK(i)' /\ RunOK(i)'
  <2>1. i \in 1..n /\ FrameOK(i) /\ RunOK(i) /\ \A j \in 1..i : stack'[j] = stack[j]
    BY <1>1, <1>2
  <2>2. Top.owner => stack[i].kind = "helper"
    BY <1>1, <1>2, <2>1 DEF FrameOK
  <2>3. Top.kind = "init" => stack[i].kind \in {"group", "helper"}
    BY <1>1, <1>2, <2>1 DEF FrameOK
  <2>4. stack[i].kind \notin {"helper", "group"} =>
          /\ active'.txns # <<>> /\ ActiveApp' = ActiveApp
          /\ (txn[ActiveTxn].oc)' = txn[ActiveTxn].oc
    <3> SUFFICES ASSUME stack[i].kind \notin {"helper", "group"}
                 PROVE  /\ active'.txns # <<>> /\ ActiveApp' = ActiveApp
                        /\ (txn[ActiveTxn].oc)' = txn[ActiveTxn].oc
      OBVIOUS
    <3>1. active' = active /\ active.txns # <<>>
      BY <1>2, <1>3, <2>1, <2>2 DEF FrameOK, Frames
    <3>2. ActiveTxn \in 1..Len(txn) /\ ActiveTxn' = ActiveTxn /\ txn' = t
      BY <3>1 DEF IInv, TypeInv, ActiveOK, ActiveTxn, Leave
    <3> QED
      BY <3>1, <3>2 DEF ActiveApp
  <2>5. \A a \in Apps : status[a] # "absent" => status'[a] # "absent"
    BY DEF Leave, IInv, TypeInv, TypeOK
  <2>6. stack[i].kind = "init" => status'[stack[i].app] = status[stack[i].app]
    BY <2>3 DEF Leave
  <2>7. stack[i].kind = "call" /\ isCreating'[stack[i].app] => isCreating[stack[i].app]
    <3> SUFFICES ASSUME stack[i].kind = "call", isCreating'[stack[i].app]
                 PROVE  isCreating[stack[i].app]
      OBVIOUS
    <3>1. Top.kind # "init" /\ stack[i].app \in Apps
      BY <2>1, <2>3 DEF FrameOK
    <3>2. isCreating' = isCreating \/ isCreating' = [isCreating EXCEPT ![Top.app] = FALSE]
      BY <3>1 DEF Leave
    <3> QED
      BY <3>1, <3>2 DEF IInv, TypeInv, TypeOK
  <2> QED
    BY <1>1, <2>1, <2>4, <2>5, <2>6, <2>7, KeepFrame
<1> QED
  BY <1>1, <1>4, <1>5 DEF StackOK

\* What entering a frame leaves behind: an open group with an active
\* transaction, which is the frame's own if the group had none.
LEMMA EnterFacts ==
  ASSUME TypeInv, NEW f \in Frames, NEW t \in Txns, Enter(f, t)
  PROVE  /\ stack' = Append(stack, [f EXCEPT !.owner = ~active.open])
         /\ active'.open /\ active'.txns # <<>>
         /\ active.txns = <<>> =>
              ActiveApp' = t.app /\ (txn[ActiveTxn].oc)' = t.oc
         /\ active.txns # <<>> =>
              ActiveApp' = ActiveApp /\ (txn[ActiveTxn].oc)' = txn[ActiveTxn].oc
<1>1. CASE active.txns = <<>>
  <2> DEFINE u == [t EXCEPT !.logs = 0]
             k == Len(txn) + 1
  <2>1. u \in Txns /\ u.app = t.app /\ u.oc = t.oc
    BY WithLogs
  <2>2. /\ txn' = Append(txn, u)
        /\ active' = [open |-> TRUE, txns |-> <<k>>, index |-> 1, over |-> active.over]
    BY <1>1 DEF Enter
  <2> HIDE DEF u
  <2>3. txn'[k] = u
    BY <2>1, <2>2 DEF TypeInv, TypeOK
  <2>4. active'.txns = <<k>> /\ active'.index = 1 /\ active'.open
    BY <2>2
  <2>5. ActiveTxn' = k /\ active'.txns # <<>>
    BY <2>4 DEF ActiveTxn
  <2>6. stack' = Append(stack, [f EXCEPT !.owner = ~active.open])
    BY DEF Enter
  <2> QED
    BY <1>1, <2>1, <2>3, <2>4, <2>5, <2>6 DEF ActiveApp
<1>2. CASE active.txns # <<>>
  <2>1. UNCHANGED <<txn, active>> /\ active.open
    BY <1>2 DEF Enter, TypeInv, TypeOK, ActiveOK
  <2>2. stack' = Append(stack, [f EXCEPT !.owner = ~active.open])
    BY DEF Enter
  <2> QED
    BY <1>2, <2>1, <2>2 DEF ActiveApp, ActiveTxn
<1> QED
  BY <1>1, <1>2

\* Entering a frame whose transaction suits it keeps every frame in order.
LEMMA EnterStack ==
  ASSUME IInv, NEW kind \in {"init", "call", "rejected", "program"}, NEW a \in Apps,
         NEW m \in Methods \cup {NoMethod}, NEW t \in Txns,
         Enter(Frame(kind, a, m), t),
         \A b \in Apps : status[b] # "absent" => status'[b] = status[b],
         \A b \in Apps : isCreating'[b] => isCreating[b] \/ status[b] = "absent",
         status'[a] # "absent",
         kind \in {"call", "rejected"} => m \in Methods,
         kind = "init" => status'[a] = "init" /\ active.txns = <<>>,
         kind = "init" \/ (kind = "call" /\ Create[m] = "disallow") =>
           (IF active.txns = <<>> THEN t.app ELSE ActiveApp) = a,
         kind = "call" =>
           /\ ActionFor(t) \in AllowActions[m]
           /\ Create[m] = "disallow" => ~isCreating'[a]
  PROVE  StackOK' /\ \A i \in 1..Len(stack') : RunOK(i)'
<1> DEFINE g == [kind |-> kind, app |-> a, method |-> m, owner |-> ~active.open]
           n == Len(stack)
<1>1. g \in Frames /\ Frame(kind, a, m) \in Frames
      /\ g = [Frame(kind, a, m) EXCEPT !.owner = ~active.open]
  BY DEF Frames, Frame
<1>2. /\ g.kind = kind /\ g.app = a /\ g.method = m /\ g.owner = ~active.open
  OBVIOUS
<1> HIDE DEF g
<1>3. /\ stack' = Append(stack, g) /\ active'.open /\ active'.txns # <<>>
      /\ active.txns = <<>> =>
           ActiveApp' = t.app /\ (txn[ActiveTxn].oc)' = t.oc
      /\ active.txns # <<>> =>
           ActiveApp' = ActiveApp /\ (txn[ActiveTxn].oc)' = txn[ActiveTxn].oc
  BY <1>1, EnterFacts DEF IInv
<1>4. /\ n \in Nat /\ stack'[n + 1] = g /\ \A j \in 1..n : stack'[j] = stack[j]
  BY <1>1, <1>3 DEF IInv, TypeInv, TypeOK
<1>5. PICK k \in Nat : k = n + 1
  BY <1>4
<1>6. \E j \in 1..k : stack'[j].owner
  <2>1. CASE active.open
    <3>1. \E j \in 1..n : stack[j].owner
      BY <1>4, <2>1 DEF IInv, TypeInv, TypeOK, StackOK, GroupHasOneOwner
    <3> QED
      BY <1>4, <1>5, <3>1
  <2>2. CASE ~active.open
    <3>1. k \in 1..k /\ stack'[k] = g
      BY <1>4, <1>5
    <3>2. g.owner
      BY <1>2, <2>2
    <3> QED
      BY <3>1, <3>2
  <2> QED
    BY <2>1, <2>2
<1>7. kind = "init" => \A j \in 1..(k - 1) : stack'[j].kind \in {"group", "helper"}
  <2> SUFFICES ASSUME kind = "init", NEW j \in 1..(k - 1)
               PROVE  stack'[j].kind \in {"group", "helper"}
    OBVIOUS
  <2>1. j \in 1..n
    BY <1>4, <1>5
  <2>2. stack[j].kind \in {"group", "helper"}
    BY <2>1 DEF IInv, StackOK, FrameOK
  <2> QED
    BY <1>4, <2>1, <2>2
<1> HIDE DEF n
<1>8. FrameOK(k)'
  <2>1. stack'[k] = g
    BY <1>4, <1>5
  <2> QED
    BY <1>2, <1>3, <1>6, <1>7, <2>1 DEF FrameOK
<1>9. RunOK(k)'
  <2>1. stack'[k] = g
    BY <1>4, <1>5
  <2>2. kind = "call" => (txn[ActiveTxn].oc)' \in AllowActions[m]
    BY <1>3 DEF ActionFor
  <2>3. kind = "init" \/ (kind = "call" /\ Create[m] = "disallow") => ActiveApp' = a
    BY <1>3
  <2> QED
    BY <1>2, <1>3, <2>1, <2>2, <2>3 DEF RunOK
<1>10. IF g.owner THEN ~active.open /\ active'.open ELSE active'.open = active.open
  BY <1>2, <1>3 DEF IInv, TypeInv, TypeOK
<1> QED
  BY <1>1, <1>3, <1>5, <1>8, <1>9, <1>10, Push DEF n

\* A raise in place changes neither the frames nor the group.
LEMMA RaiseStack ==
  ASSUME IInv, Raise, \A a \in Apps : isCreating'[a] => isCreating[a]
  PROVE  StackOK' /\ \A i \in 1..Len(stack') : RunOK(i)'
  BY SameStack DEF Raise, ActiveApp, ActiveTxn

\* A new transaction object leaves the others as they were.
LEMMA NewTxnStack ==
  ASSUME IInv, NEW t \in Txns, txn' = Append(txn, t),
         UNCHANGED <<status, isCreating, active, groups, stack, raising>>
  PROVE  StackOK' /\ \A i \in 1..Len(stack') : RunOK(i)'
<1>1. active.txns # <<>> => txn'[ActiveTxn] = txn[ActiveTxn]
  BY DEF IInv, TypeInv, TypeOK, ActiveOK
<1> QED
  BY <1>1, SameStack DEF ActiveApp, ActiveTxn

\* Calling a method, from test code or from contract code.
LEMMA CallStack ==
  ASSUME IInv, NEW a \in Apps, NEW m \in Methods, CallMethod(a, m)
  PROVE  StackOK' /\ \A i \in 1..Len(stack') : RunOK(i)'
<1> DEFINE t == CallTxn(a, m, AllowActions[m])
           routed == Routes(a, m, ActionFor(t))
           kind == IF routed THEN "call" ELSE "rejected"
<1>1. t \in Txns /\ t.app = a
  <2>1. AllowActions[m] \in SUBSET Actions
    BY ConstantsAssumption
  <2> QED
    BY <2>1, CallTxnType DEF IInv, TypeInv, CallTxn, NewTxn
<1>2. status[a] # "absent"
  BY DEF CallMethod, HasInstance
<1>3. CASE /\ Admits(a) /\ Enter(Frame(kind, a, m), t)
           /\ UNCHANGED <<status, isCreating>>
  <2>1. kind = "call" => ActionFor(t) \in AllowActions[m]
    BY DEF Routes
  <2>2. kind = "call" /\ Create[m] = "disallow" => ~isCreating[a]
    BY DEF Routes
  <2>3. ~isCreating[a] /\ active.txns # <<>> => ActiveApp = a
    BY <1>3, ConstantsAssumption DEF Admits, ExpectedApp
  <2>4. kind \in {"call", "rejected"}
    OBVIOUS
  <2> HIDE DEF t, kind
  <2> QED
    BY <1>1, <1>2, <1>3, <2>1, <2>2, <2>3, <2>4, EnterStack
<1>4. CASE Raise /\ isCreating' = [isCreating EXCEPT ![a] = FALSE]
  BY <1>4, RaiseStack DEF IInv, TypeInv, TypeOK
<1> QED
  BY <1>3, <1>4 DEF CallMethod

FramesOK == StackOK /\ \A i \in 1..Len(stack) : RunOK(i)

LEMMA StackStep ==
  ASSUME IInv, [Next]_vars
  PROVE  FramesOK'
<1> USE DEF FramesOK
<1>1. ASSUME NEW a \in Apps, Instantiate(a) PROVE FramesOK'
  <2>1. CallTxn(a, NoMethod, {}) \in Txns /\ CallTxn(a, NoMethod, {}).app = a
    BY CallTxnType DEF IInv, TypeInv, CallTxn, NewTxn
  <2>2. /\ status[a] = "absent"
        /\ \A b \in Apps : isCreating'[b] => isCreating[b] \/ status[b] = "absent"
    BY <1>1 DEF Instantiate, IInv, TypeInv, TypeOK
  <2>3. CASE /\ active.txns = <<>>
             /\ Enter(Frame("init", a, NoMethod), CallTxn(a, NoMethod, {}))
             /\ status' = [status EXCEPT ![a] = "init"]
    <3>1. /\ \A b \in Apps : status[b] # "absent" => status'[b] = status[b]
          /\ status'[a] = "init"
      BY <2>2, <2>3 DEF IInv, TypeInv, TypeOK
    <3> QED
      BY <2>1, <2>2, <2>3, <3>1, EnterStack
  <2>4. CASE /\ status' = [status EXCEPT ![a] = "failed"]
             /\ UNCHANGED <<txn, active, groups, stack>>
    <3>1. GroupHasOneOwner'
      BY <2>4 DEF IInv, StackOK, GroupHasOneOwner
    <3>2. ASSUME NEW i \in 1..Len(stack) PROVE FrameOK(i)' /\ RunOK(i)'
      <4>1. FrameOK(i) /\ RunOK(i) /\ Len(stack) \in Nat
        BY DEF IInv, StackOK, TypeInv, TypeOK
      <4>2. stack[i].kind \notin {"helper", "group"} => active.txns # <<>>
        BY <4>1 DEF FrameOK
      <4>3. stack[i].kind # "group" =>
              stack[i].app \in Apps /\ status[stack[i].app] # "absent"
        BY <4>1 DEF FrameOK
      <4>4. \A b \in Apps : status[b] # "absent" => status'[b] = status[b]
        BY <2>2, <2>4 DEF IInv, TypeInv, TypeOK
      <4>5. ActiveApp' = ActiveApp /\ (txn[ActiveTxn].oc)' = txn[ActiveTxn].oc
        BY <2>4 DEF ActiveApp, ActiveTxn
      <4> QED
        BY <2>2, <2>4, <4>1, <4>2, <4>3, <4>4, <4>5, KeepFrame
    <3> QED
      BY <2>4, <3>1, <3>2 DEF StackOK
  <2> QED
    BY <1>1, <2>3, <2>4 DEF Instantiate
<1>2. ASSUME NEW a \in Apps, NEW m \in Methods, CallMethod(a, m) PROVE FramesOK'
  BY <1>2, CallStack
<1>3. ASSUME NEW a \in Apps, CallProgram(a) PROVE FramesOK'
  <2>1. CallTxn(a, NoMethod, {}) \in Txns
    BY CallTxnType DEF IInv, TypeInv
  <2>2. CASE /\ Enter(Frame("program", a, NoMethod), CallTxn(a, NoMethod, {}))
             /\ UNCHANGED <<status, isCreating, raising>>
    <3>1. status[a] # "absent"
      BY <1>3 DEF CallProgram, HasInstance
    <3> QED
      BY <2>1, <2>2, <3>1, EnterStack
  <2>3. CASE Raise /\ UNCHANGED isCreating
    BY <2>3, RaiseStack
  <2> QED
    BY <1>3, <2>2, <2>3 DEF CallProgram
<1>4. ASSUME NEW a \in Apps, CallHelper(a) PROVE FramesOK'
  <2> DEFINE g == Frame("helper", a, NoMethod)
  <2>1. g \in Frames /\ g.kind = "helper" /\ g.app = a /\ ~g.owner
    BY DEF Frame, Frames
  <2>2. status[a] # "absent"
    BY <1>4 DEF CallHelper, HasInstance
  <2> HIDE DEF g
  <2>3. stack' = Append(stack, g) /\ UNCHANGED <<status, isCreating, txn, active>>
    BY <1>4 DEF CallHelper, g
  <2>4. PICK k \in Nat : k = Len(stack) + 1
    BY DEF IInv, TypeInv, TypeOK
  <2>5. stack'[k] = g
    BY <2>1, <2>3, <2>4 DEF IInv, TypeInv, TypeOK
  <2>6. FrameOK(k)' /\ RunOK(k)'
    BY <2>1, <2>2, <2>3, <2>5 DEF FrameOK, RunOK
  <2> QED
    BY <2>1, <2>3, <2>4, <2>6, Push DEF ActiveApp, ActiveTxn
<1>5. ASSUME NEW a \in Apps, NEW m \in Methods, DeferAppCall(a, m) PROVE FramesOK'
  <2> DEFINE allowed == IF AllowActions[m] = {} THEN {NoOp} ELSE AllowActions[m]
  <2>1. allowed \in SUBSET Actions
    BY ConstantsAssumption
  <2>2. CallTxn(a, m, allowed) \in Txns
    BY <2>1, CallTxnType DEF IInv, TypeInv
  <2>3. CASE /\ txn' = Append(txn, CallTxn(a, m, allowed))
             /\ UNCHANGED <<status, isCreating, active, groups, stack, raising>>
    BY <2>2, <2>3, NewTxnStack
  <2>4. CASE Raise /\ UNCHANGED isCreating
    BY <2>4, RaiseStack
  <2> QED
    BY <1>5, <2>3, <2>4 DEF DeferAppCall
<1>6. ASSUME NEW a \in Apps \cup {NoApp}, NEW oc \in Actions, AnyTxn(a, oc) PROVE FramesOK'
  <2>1. NewTxn(a, oc, NoMethod) \in Txns
    BY ConstantsAssumption DEF NewTxn, Txns
  <2> QED
    BY <1>6, <2>1, NewTxnStack DEF AnyTxn
<1>7. ASSUME NEW items \in Items, NEW index \in 0..(MaxGroupSize + 1),
             NEW over \in TestOverrides, CreateGroup(items, index, over)
      PROVE  FramesOK'
  <2> DEFINE g == [Frame("group", NoApp, NoMethod) EXCEPT !.owner = TRUE]
  <2>1. g \in Frames /\ g.kind = "group" /\ g.owner
    BY DEF Frame, Frames
  <2> HIDE DEF g
  <2>2. /\ stack' = Append(stack, g) /\ active'.open /\ ~active.open
        /\ UNCHANGED <<status, isCreating>>
    BY <1>7 DEF CreateGroup, GroupIsValid, g
  <2>3. active.txns = <<>>
    BY <2>2 DEF IInv, TypeInv, ActiveOK
  <2>4. stack = <<>>
    <3> SUFFICES ASSUME stack # <<>> PROVE FALSE
      OBVIOUS
    <3>1. Len(stack) \in 1..Len(stack) /\ DOMAIN stack = 1..Len(stack)
      BY EmptySeq DEF IInv, TypeInv, TypeOK
    <3>2. Top.kind = "group"
      BY <1>7 DEF CreateGroup, TestCode, InTestCode
    <3>3. stack[Len(stack)].owner
      BY <3>1, <3>2 DEF IInv, StackOK, FrameOK, Top
    <3> QED
      BY <2>2, <3>1, <3>3 DEF IInv, StackOK, GroupHasOneOwner
  <2>5. Len(stack) + 1 = 1 /\ stack'[1] = g
    BY <2>1, <2>2, <2>4
  <2>6. FrameOK(1)' /\ RunOK(1)'
    BY <2>1, <2>5 DEF FrameOK, RunOK
  <2> QED
    BY <2>1, <2>2, <2>3, <2>5, <2>6, Push
<1>8. ASSUME NEW items \in Items, NEW index \in 0..(MaxGroupSize + 1),
             NEW over \in TestOverrides, CreateGroupFails(items, index, over)
      PROVE  FramesOK'
  BY <1>8, RaiseStack DEF CreateGroupFails
<1>9. ASSUME NEW t \in 1..Len(txn), Submit(t) PROVE FramesOK'
  <2>1. txn[t].app \in Apps /\ txn[t].method \in Methods
    BY <1>9 DEF IInv, TypeInv, TypeOK, Submit, IsDeferred, Txns
  <2>2. CASE CallMethod(txn[t].app, txn[t].method)
    BY <2>1, <2>2, CallStack
  <2>3. CASE Raise /\ UNCHANGED isCreating
    BY <2>3, RaiseStack
  <2> QED
    BY <1>9, <2>2, <2>3 DEF Submit
<1>10. CASE Log
  <2>1. CASE CanLog
    <3>1. txn' = AddLog /\ UNCHANGED <<status, isCreating, active, groups, stack, raising>>
      BY <1>10, <2>1 DEF Log
    <3>2. ActiveTxn \in 1..Len(txn) /\ ActiveTxn' = ActiveTxn
      BY <2>1, <3>1 DEF CanLog, IInv, TypeInv, ActiveOK, ActiveTxn
    <3>3. txn'[ActiveTxn].app = txn[ActiveTxn].app /\ txn'[ActiveTxn].oc = txn[ActiveTxn].oc
      BY <2>1, <3>1, <3>2, LogKeepsActive DEF IInv
    <3> QED
      BY <3>1, <3>2, <3>3, SameStack DEF ActiveApp
  <2>2. CASE ~CanLog
    BY <1>10, <2>2, RaiseStack DEF Log
  <2> QED
    BY <2>1, <2>2
<1>11. CASE Fail
  BY <1>11, RaiseStack DEF Fail
<1>12. CASE stack # <<>> /\ Leave(txn)
  BY <1>12, Pop DEF IInv, TypeInv, TypeOK
<1>13. CASE ReturnValue
  <2>1. CASE CanLog
    <3>1. stack # <<>> /\ Leave(AddLog)
      BY <1>13, <2>1 DEF ReturnValue, ContractCode
    <3> QED
      BY <2>1, <3>1, LogKeepsActive, Pop DEF IInv
  <2>2. CASE ~CanLog
    BY <1>13, <2>2, RaiseStack DEF ReturnValue
  <2> QED
    BY <2>1, <2>2
<1>14. CASE Catch
  BY <1>14, SameStack DEF Catch, ActiveApp, ActiveTxn
<1>15. CASE UNCHANGED vars
  BY <1>15, SameStack DEF vars, ActiveApp, ActiveTxn
<1>16. Return \/ Unwind => stack # <<>> /\ Leave(txn)
  BY DEF Return, Unwind, ContractCode
<1> HIDE DEF FramesOK
<1> QED
  BY <1>1, <1>2, <1>3, <1>4, <1>5, <1>6, <1>7, <1>8, <1>9, <1>10, <1>11, <1>12,
     <1>13, <1>14, <1>15, <1>16 DEF Next

LEMMA StackInvariant == Spec => []IInv
<1>1. Init => IInv
  <2> SUFFICES ASSUME Init PROVE IInv
    OBVIOUS
  <2>1. TypeInv
    BY InitType
  <2>2. Len(stack) = 0 /\ DOMAIN stack = {} /\ ~active.open
    BY DEF Init, NoGroup
  <2> QED
    BY <2>1, <2>2 DEF IInv, StackOK, GroupHasOneOwner
<1>2. IInv /\ [Next]_vars => IInv'
  BY StackStep, TypeStep DEF IInv, FramesOK
<1> QED
  BY <1>1, <1>2, PTL DEF Spec

\* A group is open exactly while one frame is going to close it, however the
\* frames of calls return, fail or are unwound.
THEOREM OneOwner == Spec => []GroupHasOneOwner
<1>1. IInv => GroupHasOneOwner
  BY DEF IInv, StackOK
<1> QED
  BY <1>1, StackInvariant, PTL

\* A constructor, and a method that cannot create its application, runs under
\* its own application's transaction.
THEOREM OwnTxn == Spec => []RunsUnderItsOwnTxn
<1>1. IInv => RunsUnderItsOwnTxn
  <2>1. IInv => DOMAIN stack = 1..Len(stack)
    BY DEF IInv, TypeInv, TypeOK
  <2> QED
    BY <2>1 DEF IInv, RunOK, RunsUnderItsOwnTxn
<1> QED
  BY <1>1, StackInvariant, PTL

\* A method body only runs with an action it allows, and while its
\* application is in the phase it is declared for.
THEOREM Routed == Spec => []RunningMethodsAreRouted
<1>1. IInv => RunningMethodsAreRouted
  <2>1. IInv => DOMAIN stack = 1..Len(stack)
    BY DEF IInv, TypeInv, TypeOK
  <2> QED
    BY <2>1 DEF IInv, RunOK, RunningMethodsAreRouted
<1> QED
  BY <1>1, StackInvariant, PTL

\* Once an instance is out of its creation phase it stays out: only the end of
\* its own constructor turns is_creating back on.
THEOREM CreationStaysFinal == Spec => CreationIsFinal
<1> DEFINE Final == \A a \in Apps : status[a] = "ready" /\ ~isCreating[a] => ~isCreating'[a]
<1>1. ASSUME IInv, [Next]_vars, NEW a \in Apps, status[a] = "ready", ~isCreating[a]
      PROVE  ~isCreating'[a]
  <2>1. isCreating \in [Apps -> BOOLEAN]
    BY <1>1 DEF IInv, TypeInv, TypeOK
  <2>2. CASE UNCHANGED isCreating
    BY <1>1, <2>2
  <2>3. ASSUME NEW b \in Apps, Instantiate(b) PROVE ~isCreating'[a]
    BY <1>1, <2>1, <2>3 DEF Instantiate
  <2>4. ASSUME NEW b \in Apps, NEW m \in Methods, CallMethod(b, m)
        PROVE  ~isCreating'[a]
    BY <1>1, <2>1, <2>4 DEF CallMethod
  <2>5. ASSUME NEW t \in 1..Len(txn), Submit(t) PROVE ~isCreating'[a]
    <3>1. txn[t].app \in Apps /\ txn[t].method \in Methods
      BY <1>1, <2>5 DEF IInv, TypeInv, TypeOK, Submit, IsDeferred, Txns
    <3> QED
      BY <1>1, <2>4, <2>5, <3>1 DEF Submit
  <2>6. ASSUME NEW t, stack # <<>>, Leave(t) PROVE ~isCreating'[a]
    <3>1. Len(stack) \in 1..Len(stack)
      BY <1>1, <2>6, EmptySeq DEF IInv, TypeInv, TypeOK
    <3>2. Top.kind = "init" => status[Top.app] = "init"
      BY <1>1, <3>1 DEF IInv, StackOK, FrameOK, Top
    <3> QED
      BY <1>1, <2>1, <2>6, <3>2 DEF Leave
  <2>7. \/ UNCHANGED isCreating
        \/ \E b \in Apps : Instantiate(b)
        \/ \E b \in Apps, m \in Methods : CallMethod(b, m)
        \/ \E t \in 1..Len(txn) : Submit(t)
        \/ stack # <<>> /\ (Leave(txn) \/ Leave(AddLog))
    BY <1>1 DEF Next, vars, CallProgram, CallHelper, DeferAppCall, AnyTxn, CreateGroup,
                CreateGroupFails, Log, Fail, Return, ReturnValue, Unwind, Catch, ContractCode
  <2> QED
    BY <2>2, <2>3, <2>4, <2>5, <2>6, <2>7
<1>2. IInv /\ [Next]_vars => [Final]_vars
  BY <1>1
<1> QED
  BY <1>2, StackInvariant, PTL DEF Spec, CreationIsFinal

-----------------------------------------------------------------------------
(* The groups that are recorded: which transactions were active in them,   *)
(* and that nothing changes them any more. What a step does to them.       *)

\* Nothing but the active transaction changes once it was in a group.
KeepsTxns ==
  /\ txn' \in Seq(Txns) /\ Len(txn) <= Len(txn')
  /\ \A k \in 1..Len(txn) :
       txn[k].logs # NoLogs =>
         /\ txn'[k].logs # NoLogs
         /\ (active.txns # <<>> => k # ActiveTxn) => txn'[k] = txn[k]

Stays == UNCHANGED <<active, groups>>

\* The transaction that becomes active is a new one, or was in no group yet.
Opens ==
  /\ groups' = groups
  /\ ActiveTxn' \in 1..Len(txn) => txn[ActiveTxn'].logs = NoLogs

Closes ==
  /\ active'.txns = <<>>
  /\ groups' = IF active.txns = <<>> THEN groups
               ELSE Append(groups, [txns |-> active.txns, index |-> active.index])

GroupEffect == KeepsTxns /\ (Stays \/ Opens \/ Closes)

LEMMA SameTxns ==
  ASSUME TypeInv, txn' = txn
  PROVE  KeepsTxns
BY DEF KeepsTxns, TypeInv, TypeOK

LEMMA MoreTxns ==
  ASSUME TypeInv, NEW t \in Txns, txn' = Append(txn, t)
  PROVE  KeepsTxns
BY DEF KeepsTxns, TypeInv, TypeOK

LEMMA EnterEffect ==
  ASSUME TypeInv, NEW f, NEW t \in Txns, Enter(f, t)
  PROVE  GroupEffect
<1>1. CASE active.txns = <<>>
  <2> DEFINE u == [t EXCEPT !.logs = 0]
  <2>1. u \in Txns
    BY WithLogs
  <2>2. /\ txn' = Append(txn, u) /\ groups' = groups
        /\ active' = [open |-> TRUE, txns |-> <<Len(txn) + 1>>, index |-> 1,
                      over |-> active.over]
    BY <1>1 DEF Enter
  <2> HIDE DEF u
  <2>3. KeepsTxns
    BY <2>1, <2>2, MoreTxns
  <2>4. active'.txns = <<Len(txn) + 1>> /\ active'.index = 1
    BY <2>2
  <2>5. ActiveTxn' = Len(txn) + 1 /\ Len(txn) \in Nat
    BY <2>4 DEF ActiveTxn, TypeInv, TypeOK
  <2> QED
    BY <2>2, <2>3, <2>5 DEF GroupEffect, Opens
<1>2. CASE active.txns # <<>>
  <2>1. UNCHANGED <<txn, active, groups>>
    BY <1>2 DEF Enter
  <2> QED
    BY <2>1, SameTxns DEF GroupEffect, Stays
<1> QED
  BY <1>1, <1>2

LEMMA LeaveEffect ==
  ASSUME TypeInv, NEW t, Leave(t), txn' = t => KeepsTxns
  PROVE  GroupEffect
<1>1. KeepsTxns
  BY DEF Leave
<1>2. CASE Top.owner
  BY <1>1, <1>2 DEF Leave, ClosesGroup, GroupEffect, Closes, NoGroup
<1>3. CASE ~Top.owner
  BY <1>1, <1>3 DEF Leave, ClosesGroup, GroupEffect, Stays
<1> QED
  BY <1>2, <1>3

LEMMA LoggedTxns ==
  ASSUME TypeInv, CanLog, txn' = AddLog
  PROVE  KeepsTxns
<1>1. Len(txn) \in Nat /\ active.txns # <<>>
  BY DEF TypeInv, TypeOK, CanLog
<1> QED
  BY <1>1, LogKeepsActive DEF KeepsTxns

LEMMA RaiseEffect ==
  ASSUME TypeInv, Raise
  PROVE  GroupEffect
BY SameTxns DEF Raise, GroupEffect, Stays

LEMMA CallEffect ==
  ASSUME TypeInv, NEW a \in Apps, NEW m \in Methods, CallMethod(a, m)
  PROVE  GroupEffect
<1> DEFINE t == CallTxn(a, m, AllowActions[m])
<1>1. t \in Txns
  BY CallTxnType, ConstantsAssumption DEF TypeInv
<1>2. (\E f : Enter(f, t)) \/ Raise
  BY DEF CallMethod
<1> HIDE DEF t
<1> QED
  BY <1>1, <1>2, EnterEffect, RaiseEffect

LEMMA CreateGroupEffect ==
  ASSUME TypeInv, NEW items \in Items, NEW index \in 0..(MaxGroupSize + 1),
         NEW over \in TestOverrides, CreateGroup(items, index, over)
  PROVE  GroupEffect
<1> DEFINE i == ActiveIndex(items, index)
<1>1. GroupIsValid(items, index, over) /\ active.txns = <<>>
  BY DEF CreateGroup, GroupIsValid, TypeInv, ActiveOK
<1>2. /\ active' = [open |-> TRUE, txns |-> items, index |-> i, over |-> over]
      /\ txn' = IF items = <<>> THEN txn ELSE [txn EXCEPT ![items[i]].logs = 0]
      /\ groups' = groups
  BY DEF CreateGroup
<1>3. CASE items = <<>>
  <2>1. active'.txns = <<>>
    BY <1>2, <1>3
  <2> QED
    BY <1>1, <1>2, <1>3, <2>1, SameTxns DEF GroupEffect, Closes
<1>4. CASE items # <<>>
  <2>1. i \in DOMAIN items /\ txn[items[i]].logs = NoLogs
    BY <1>1, <1>4 DEF GroupIsValid
  <2>2. /\ txn \in Seq(Txns) /\ items \in Seq(Nat \ {0})
        /\ \A j \in 1..Len(items) : items[j] \in 1..Len(txn)
    BY ItemsAreTxns DEF TypeInv, TypeOK
  <2>3. items[i] \in 1..Len(txn)
    BY <2>1, <2>2
  <2>4. active'.txns = items /\ active'.index = i
    BY <1>2
  <2> HIDE DEF i
  <2>5. ActiveTxn' = items[i]
    BY <2>4 DEF ActiveTxn
  <2> DEFINE k == items[i]
             u == [txn EXCEPT ![k].logs = 0]
  <2> HIDE DEF k
  <2>6. /\ u \in Seq(Txns) /\ Len(u) = Len(txn)
        /\ \A j \in 1..Len(txn) : u[j] = IF j = k THEN [txn[k] EXCEPT !.logs = 0] ELSE txn[j]
    BY <2>3, SetLogs DEF TypeInv, k
  <2>7. txn' = u
    BY <1>2, <1>4 DEF k
  <2> HIDE DEF u
  <2>8. KeepsTxns
    BY <2>1, <2>2, <2>6, <2>7 DEF KeepsTxns, k
  <2> QED
    BY <1>2, <2>1, <2>5, <2>8 DEF GroupEffect, Opens
<1> QED
  BY <1>3, <1>4

LEMMA StepEffect ==
  ASSUME TypeInv, [Next]_vars
  PROVE  GroupEffect
<1>1. ASSUME NEW a \in Apps, Instantiate(a) PROVE GroupEffect
  <2>1. CallTxn(a, NoMethod, {}) \in Txns
    BY CallTxnType DEF TypeInv
  <2>2. \/ Enter(Frame("init", a, NoMethod), CallTxn(a, NoMethod, {}))
        \/ UNCHANGED <<txn, active, groups>>
    BY <1>1 DEF Instantiate
  <2> QED
    BY <2>1, <2>2, EnterEffect, SameTxns DEF GroupEffect, Stays
<1>2. ASSUME NEW a \in Apps, CallProgram(a) PROVE GroupEffect
  <2>1. CallTxn(a, NoMethod, {}) \in Txns
    BY CallTxnType DEF TypeInv
  <2>2. Enter(Frame("program", a, NoMethod), CallTxn(a, NoMethod, {})) \/ Raise
    BY <1>2 DEF CallProgram
  <2> QED
    BY <2>1, <2>2, EnterEffect, RaiseEffect
<1>3. ASSUME NEW a \in Apps, CallHelper(a) PROVE GroupEffect
  BY <1>3, SameTxns DEF CallHelper, GroupEffect, Stays
<1>4. ASSUME NEW a \in Apps, NEW m \in Methods, DeferAppCall(a, m) PROVE GroupEffect
  <2> DEFINE allowed == IF AllowActions[m] = {} THEN {NoOp} ELSE AllowActions[m]
  <2>1. allowed \in SUBSET Actions
    BY ConstantsAssumption
  <2> HIDE DEF allowed
  <2>2. CallTxn(a, m, allowed) \in Txns
    BY <2>1, CallTxnType DEF TypeInv
  <2>3. \/ txn' = Append(txn, CallTxn(a, m, allowed)) /\ UNCHANGED <<active, groups>>
        \/ Raise
    BY <1>4 DEF DeferAppCall, allowed
  <2> QED
    BY <2>2, <2>3, MoreTxns, RaiseEffect DEF GroupEffect, Stays
<1>5. ASSUME NEW a \in Apps \cup {NoApp}, NEW oc \in Actions, AnyTxn(a, oc) PROVE GroupEffect
  <2>1. NewTxn(a, oc, NoMethod) \in Txns
    BY DEF NewTxn, Txns, NoLogs
  <2> QED
    BY <1>5, <2>1, MoreTxns DEF AnyTxn, GroupEffect, Stays
<1>6. ASSUME NEW t \in 1..Len(txn), Submit(t) PROVE GroupEffect
  <2>1. txn[t].app \in Apps /\ txn[t].method \in Methods
    BY <1>6 DEF TypeInv, TypeOK, Submit, IsDeferred, Txns
  <2>2. CallMethod(txn[t].app, txn[t].method) \/ Raise
    BY <1>6 DEF Submit
  <2> QED
    BY <2>1, <2>2, CallEffect, RaiseEffect
<1>7. CASE Log
  <2>1. \/ CanLog /\ txn' = AddLog /\ UNCHANGED <<active, groups>>
        \/ Raise
    BY <1>7 DEF Log
  <2> QED
    BY <2>1, LoggedTxns, RaiseEffect DEF GroupEffect, Stays
<1>8. CASE Return \/ Unwind
  <2>1. Leave(txn)
    BY <1>8 DEF Return, Unwind
  <2> QED
    BY <2>1, SameTxns, LeaveEffect
<1>9. CASE ReturnValue
  <2>1. (CanLog /\ Leave(AddLog)) \/ Raise
    BY <1>9 DEF ReturnValue
  <2> QED
    BY <2>1, LoggedTxns, LeaveEffect, RaiseEffect
<1>10. CASE Fail \/ \E items \in Items, index \in 0..(MaxGroupSize + 1), over \in TestOverrides :
                      CreateGroupFails(items, index, over)
  BY <1>10, RaiseEffect DEF Fail, CreateGroupFails
<1>11. CASE Catch \/ UNCHANGED vars
  BY <1>11, SameTxns DEF Catch, vars, GroupEffect, Stays
<1> QED
  BY <1>1, <1>2, <1>3, <1>4, <1>5, <1>6, <1>7, <1>8, <1>9, <1>10, <1>11, CallEffect,
     CreateGroupEffect DEF Next

-----------------------------------------------------------------------------
(* Recorded groups. That a transaction which was active has a logs field,  *)
(* and keeps it, is why it is refused a second group.                      *)

RecordOK(i) ==
  /\ groups[i].index \in DOMAIN groups[i].txns
  /\ ActiveTxnOf(groups[i]) \in 1..Len(txn)
  /\ txn[ActiveTxnOf(groups[i])].logs # NoLogs
  /\ active.txns # <<>> => ActiveTxnOf(groups[i]) # ActiveTxn

RecordsInv ==
  /\ \A i \in 1..Len(groups) : RecordOK(i)
  /\ \A i, j \in 1..Len(groups) : ActiveTxnOf(groups[i]) = ActiveTxnOf(groups[j]) => i = j

LEMMA RecordsStep ==
  ASSUME TypeInv, RecordsInv, [Next]_vars
  PROVE  RecordsInv'
<1>0. /\ groups \in Seq(Groups) /\ txn \in Seq(Txns)
      /\ KeepsTxns /\ (Stays \/ Opens \/ Closes)
  BY StepEffect DEF TypeInv, TypeOK, GroupEffect
<1>1. ASSUME NEW i \in 1..Len(groups)
      PROVE  LET k == ActiveTxnOf(groups[i])
             IN  /\ groups[i].index \in DOMAIN groups[i].txns
                 /\ k \in 1..Len(txn) /\ k \in 1..Len(txn')
                 /\ txn[k].logs # NoLogs /\ txn'[k].logs # NoLogs
                 /\ active.txns # <<>> => k # ActiveTxn
  BY <1>0 DEF RecordsInv, RecordOK, KeepsTxns
<1>2. CASE Stays
  <2>1. UNCHANGED <<active, groups, ActiveTxn>>
    BY <1>2 DEF Stays, ActiveTxn
  <2>2. \A i \in 1..Len(groups) : RecordOK(i)'
    BY <1>1, <2>1 DEF RecordOK, ActiveTxnOf
  <2> QED
    BY <2>1, <2>2 DEF RecordsInv, ActiveTxnOf
<1>3. CASE Opens
  <2>1. \A i \in 1..Len(groups) : RecordOK(i)'
    BY <1>1, <1>3 DEF Opens, RecordOK, ActiveTxnOf
  <2> QED
    BY <1>3, <2>1 DEF Opens, RecordsInv, ActiveTxnOf
<1>4. CASE Closes /\ active.txns = <<>>
  <2>1. \A i \in 1..Len(groups) : RecordOK(i)'
    BY <1>1, <1>4 DEF Closes, RecordOK, ActiveTxnOf
  <2> QED
    BY <1>4, <2>1 DEF Closes, RecordsInv, ActiveTxnOf
<1>5. CASE Closes /\ active.txns # <<>>
  <2> DEFINE g == [txns |-> active.txns, index |-> active.index]
  <2>0. PICK n \in Nat : n = Len(groups) + 1
    BY <1>0
  <2>1. /\ g.index \in DOMAIN g.txns /\ ActiveTxnOf(g) = ActiveTxn
        /\ ActiveTxn \in 1..Len(txn) /\ txn[ActiveTxn].logs # NoLogs
    BY <1>5 DEF TypeInv, TypeOK, ActiveOK, ActiveTxnOf, ActiveTxn
  <2>2. groups' = Append(groups, g) /\ active'.txns = <<>>
    BY <1>5 DEF Closes
  <2> HIDE DEF g
  <2>3. /\ Len(groups) \in Nat /\ Len(groups') = n /\ groups'[n] = g
        /\ \A i \in 1..Len(groups) : groups'[i] = groups[i]
    BY <1>0, <2>0, <2>2
  <2>4. ActiveTxn \in 1..Len(txn') /\ txn'[ActiveTxn].logs # NoLogs
    BY <1>0, <2>1 DEF KeepsTxns
  <2>5. \A i \in 1..Len(groups) :
          /\ RecordOK(i)'
          /\ ActiveTxnOf(groups'[i]) = ActiveTxnOf(groups[i])
          /\ ActiveTxnOf(groups[i]) # ActiveTxnOf(g)
    BY <1>1, <1>5, <2>1, <2>2, <2>3 DEF RecordOK, ActiveTxnOf
  <2>6. RecordOK(n)' /\ ActiveTxnOf(groups'[n]) = ActiveTxnOf(g)
    BY <2>1, <2>2, <2>3, <2>4 DEF RecordOK, ActiveTxnOf
  <2>7. \A i \in 1..n : i \in 1..Len(groups) \/ i = n
    BY <2>0, <2>3
  <2>8. \A i \in 1..Len(groups') : RecordOK(i)'
    BY <2>3, <2>5, <2>6, <2>7
  <2>9. ASSUME NEW i \in 1..n, NEW j \in 1..n,
               ActiveTxnOf(groups'[i]) = ActiveTxnOf(groups'[j])
        PROVE  i = j
    BY <2>5, <2>6, <2>7, <2>9 DEF RecordsInv
  <2> QED
    BY <2>3, <2>8, <2>9 DEF RecordsInv, ActiveTxnOf
<1> QED
  BY <1>0, <1>2, <1>3, <1>4, <1>5

LEMMA RecordsInvariant == Spec => [](TypeInv /\ RecordsInv)
<1>1. Init => RecordsInv
  BY DEF Init, RecordsInv
<1>2. TypeInv /\ RecordsInv /\ [Next]_vars => RecordsInv'
  BY RecordsStep
<1> QED
  BY <1>1, <1>2, TypeInvariant, PTL DEF Spec

\* No transaction object is the active one of two groups, however groups are
\* opened, nested, left and unwound: the logs of a call are its own.
THEOREM OnceActive == Spec => []ActivatedOnce
<1>1. TypeInv /\ RecordsInv => ActivatedOnce
  <2>1. TypeInv => DOMAIN groups = 1..Len(groups)
    BY DEF TypeInv, TypeOK
  <2> QED
    BY <2>1 DEF RecordsInv, RecordOK, ActivatedOnce
<1> QED
  BY <1>1, RecordsInvariant, PTL

\* A finished group, and the logs of its active transaction, never change.
THEOREM RecordsFinal == Spec => RecordedGroupsAreFinal
<1> DEFINE Final == \A i \in DOMAIN groups :
                      /\ i \in DOMAIN groups' /\ groups'[i] = groups[i]
                      /\ txn'[ActiveTxnOf(groups[i])] = txn[ActiveTxnOf(groups[i])]
<1>1. ASSUME TypeInv, RecordsInv, [Next]_vars PROVE Final
  <2>1. /\ groups \in Seq(Groups) /\ KeepsTxns /\ (Stays \/ Opens \/ Closes)
    BY <1>1, StepEffect DEF TypeInv, TypeOK, GroupEffect
  <2>2. groups' = groups \/ \E g : groups' = Append(groups, g)
    BY <2>1 DEF Stays, Opens, Closes
  <2> SUFFICES ASSUME NEW i \in DOMAIN groups
               PROVE  /\ i \in DOMAIN groups' /\ groups'[i] = groups[i]
                      /\ txn'[ActiveTxnOf(groups[i])] = txn[ActiveTxnOf(groups[i])]
    OBVIOUS
  <2>3. i \in 1..Len(groups) /\ Len(groups) \in Nat
    BY <2>1
  <2>4. RecordOK(i)
    BY <1>1, <2>3 DEF RecordsInv
  <2>5. txn'[ActiveTxnOf(groups[i])] = txn[ActiveTxnOf(groups[i])]
    BY <2>1, <2>4 DEF RecordOK, KeepsTxns
  <2> QED
    BY <2>1, <2>2, <2>3, <2>5
<1>2. TypeInv /\ RecordsInv /\ [Next]_vars => [Final]_vars
  BY <1>1
<1> QED
  BY <1>2, RecordsInvariant, PTL DEF Spec, RecordedGroupsAreFinal
=============================================================================
