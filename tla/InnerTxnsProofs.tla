-------------------------- MODULE InnerTxnsProofs --------------------------
(* Proofs about inner transactions, for every set of types, senders and    *)
(* inputs and every bound.                                                 *)
EXTENDS InnerTxns, SequenceTheorems, TLAPS

-----------------------------------------------------------------------------
(* Types.                                                                  *)

\* Whatever code sets, a dictionary holds fields.
LEMMA WithType ==
  ASSUME NEW f \in Fields, NEW input \in Inputs
  PROVE  With(f, input) \in Fields
  BY ConstantsAssumption DEF With, Fields

LEMMA NewFieldsType == NewFields \in Fields
  BY ConstantsAssumption DEF NewFields, Fields

\* A handler writes an asset's id or its sender, and nothing else.
LEMMA HandleType ==
  ASSUME NEW f \in Fields, assets \in Nat
  PROVE  /\ Handle(f) \in Fields
         /\ CreatesAsset(Handle(f)) <=> CreatesAsset(f)
         /\ CreatesAsset(f) => Handle(f).created = assets + 1
  BY DEF Handle, CreatesAsset, Fields

\* More dictionaries: the references to the others remain.
LEMMA MoreRefs ==
  ASSUME NEW n \in Nat, NEW k \in Nat, n <= k
  PROVE  /\ \A s \in Seq(1..n) : s \in Seq(1..k)
         /\ \A s \in Seq(Seq(1..n)) : s \in Seq(Seq(1..k))
<1>1. 1..n \subseteq 1..k
  OBVIOUS
<1>2. \A s \in Seq(1..n) : s \in Seq(1..k)
  BY <1>1, SeqMonotonic
<1> QED
  BY <1>2, SeqMonotonic

Submissions(n) == [busy: BOOLEAN, items: Seq(1..n), results: Seq(1..n), staged: BOOLEAN]

\* What every step shows of the dictionaries is enough for the types.
LEMMA TypeStep ==
  ASSUME TypeOK, heap' \in Seq(Fields), Len(heap') >= Len(heap),
         objs' \subseteq 1..Len(heap'), staged' \in Seq(1..Len(heap')),
         groups' \in Seq(Seq(1..Len(heap'))), submission' \in Submissions(Len(heap')),
         assets' \in Nat, clear' \in BOOLEAN
  PROVE  TypeOK'
  BY DEF TypeOK, Submissions

LEMMA SubmissionTypes ==
  ASSUME TypeOK, NEW k \in Nat, Len(heap) <= k
  PROVE  /\ objs \subseteq 1..k /\ staged \in Seq(1..k) /\ groups \in Seq(Seq(1..k))
         /\ submission \in Submissions(k) /\ Idle \in Submissions(k)
<1>1. Len(heap) \in Nat /\ 1..Len(heap) \subseteq 1..k
  BY DEF TypeOK
<1>2. staged \in Seq(1..k) /\ groups \in Seq(Seq(1..k)) /\ objs \subseteq 1..k
  BY <1>1, MoreRefs DEF TypeOK
<1>3. submission.items \in Seq(1..k) /\ submission.results \in Seq(1..k)
  BY <1>1, MoreRefs DEF TypeOK
<1>4. submission \in Submissions(k)
  BY <1>3 DEF TypeOK, Submissions
<1>5. <<>> \in Seq(1..k)
  BY EmptySeq
<1>6. Idle \in Submissions(k)
  BY <1>5 DEF Idle, Submissions
<1> QED
  BY <1>2, <1>4, <1>6

\* A new dictionary gets the next reference.
LEMMA AllocType ==
  ASSUME TypeOK, NEW f \in Fields, Alloc(f)
  PROVE  /\ heap' \in Seq(Fields) /\ Len(heap') = Len(heap) + 1
         /\ \A r \in 1..Len(heap) : heap'[r] = heap[r]
         /\ heap'[Len(heap) + 1] = f
         /\ Len(heap) \in Nat
  BY AppendProperties DEF TypeOK, Alloc

LEMMA StageType ==
  ASSUME NEW n \in Nat, NEW s \in Seq(1..n), NEW r \in 1..n
  PROVE  Append(s, r) \in Seq(1..n)
  BY AppendProperties

\* An exception leaves everything but the submission.
LEMMA RaiseType ==
  ASSUME TypeOK, Raise, submission' = submission \/ submission' = Idle
  PROVE  TypeOK'
<1>1. Len(heap) \in Nat
  BY DEF TypeOK
<1>2. /\ submission \in Submissions(Len(heap)) /\ Idle \in Submissions(Len(heap))
  BY <1>1, SubmissionTypes
<1>3. submission' \in Submissions(Len(heap))
  BY <1>2
<1>4. heap' = heap /\ objs' = objs /\ staged' = staged /\ groups' = groups
      /\ assets' = assets /\ clear' = clear
  BY DEF Raise
<1>5. /\ heap' \in Seq(Fields) /\ objs' \subseteq 1..Len(heap') /\ staged' \in Seq(1..Len(heap'))
      /\ groups' \in Seq(Seq(1..Len(heap'))) /\ submission' \in Submissions(Len(heap'))
  BY <1>3, <1>4 DEF TypeOK
<1>6. Len(heap') >= Len(heap) /\ assets' \in Nat
  BY <1>1, <1>4 DEF TypeOK
<1>7. clear' \in BOOLEAN
  BY <1>4, Zenon DEF TypeOK
<1> QED
  BY <1>5, <1>6, <1>7, TypeStep

\* What a finished submission leaves to the types: one more group.
LEMMA FinishType ==
  ASSUME TypeOK, FinishSubmit
  PROVE  TypeOK'
<1> DEFINE n == Len(heap)
<1>1. n \in Nat
  BY DEF TypeOK
<1>2. submission.results \in Seq(1..n) /\ groups \in Seq(Seq(1..n)) /\ heap \in Seq(Fields)
  BY DEF TypeOK
<1>3. UNCHANGED <<heap, objs, assets, clear>>
  BY DEF FinishSubmit
<1>4. groups' \in Seq(Seq(1..n))
  BY <1>2, AppendProperties DEF FinishSubmit
<1>5. <<>> \in Seq(1..n)
  BY EmptySeq
<1>6. staged' \in Seq(1..n)
  BY <1>5 DEF FinishSubmit, StillStaged, TypeOK
<1>7. submission' \in Submissions(n)
  BY <1>1, SubmissionTypes DEF FinishSubmit
<1> QED
  BY <1>1, <1>3, <1>4, <1>6, <1>7, TypeStep DEF TypeOK

\* The transaction a handler takes is one of those submitted.
LEMMA ItemType ==
  ASSUME TypeOK, Len(submission.results) < Len(submission.items)
  PROVE  /\ Item \in 1..Len(heap) /\ heap[Item] \in Fields
         /\ Len(submission.results) + 1 \in 1..Len(submission.items)
<1>1. /\ submission.items \in Seq(1..Len(heap))
      /\ submission.results \in Seq(1..Len(heap))
      /\ heap \in Seq(Fields)
  BY DEF TypeOK
<1>2. Len(submission.results) \in Nat /\ Len(submission.items) \in Nat
  BY <1>1, LenProperties
<1>3. Len(submission.results) + 1 \in 1..Len(submission.items)
  BY <1>2
<1>4. Item \in 1..Len(heap)
  BY <1>1, <1>3, ElementOfSeq DEF Item
<1> QED
  BY <1>1, <1>3, <1>4, ElementOfSeq

\* A handler's transaction and its result, the only dictionaries that change.
LEMMA ResultEffect ==
  ASSUME TypeOK, Len(submission.results) < Len(submission.items),
         NEW f \in Fields, Result(f)
  PROVE  /\ heap' \in Seq(Fields) /\ Len(heap') = Len(heap) + 1
         /\ \A r \in 1..Len(heap) : r # Item => heap'[r] = heap[r]
         /\ heap'[Len(heap) + 1] = f
         /\ submission' = [busy |-> submission.busy, items |-> submission.items,
                           results |-> Append(submission.results, Len(heap) + 1),
                           staged |-> submission.staged]
<1>1. Item \in 1..Len(heap) /\ heap \in Seq(Fields)
  BY ItemType DEF TypeOK
<1> DEFINE h == [heap EXCEPT ![Item] = f]
<1>2. /\ h \in Seq(Fields) /\ Len(h) = Len(heap)
      /\ \A r \in 1..Len(heap) : h[r] = IF r = Item THEN f ELSE heap[r]
  BY <1>1, ExceptSeq
<1>3. heap' = Append(h, f)
  BY DEF Result
<1> HIDE DEF h
<1>4. /\ heap' \in Seq(Fields) /\ Len(heap') = Len(heap) + 1
      /\ \A r \in 1..Len(heap) : heap'[r] = h[r]
      /\ heap'[Len(heap) + 1] = f
  BY <1>2, <1>3, AppendProperties
<1>5. submission' = [submission EXCEPT !.results = Append(submission.results, Len(heap) + 1)]
  BY DEF Result
<1>6. submission' = [busy |-> submission.busy, items |-> submission.items,
                     results |-> Append(submission.results, Len(heap) + 1),
                     staged |-> submission.staged]
  BY <1>5 DEF TypeOK
<1> QED
  BY <1>2, <1>4, <1>6

LEMMA SubmitItemType ==
  ASSUME TypeOK, SubmitItem
  PROVE  TypeOK'
<1> DEFINE n == Len(heap)
<1>1. n \in Nat /\ assets \in Nat /\ heap[Item] \in Fields
  BY ItemType DEF TypeOK, SubmitItem
<1>2. CASE submission' = Idle /\ Raise
  BY <1>2, RaiseType
<1>3. CASE /\ Result(Handle(heap[Item]))
           /\ assets' = (IF CreatesAsset(heap[Item]) THEN assets + 1 ELSE assets)
           /\ UNCHANGED <<objs, staged, groups, clear>>
  <2> DEFINE f == Handle(heap[Item])
  <2>1. f \in Fields
    BY <1>1, HandleType
  <2> HIDE DEF f
  <2>2. /\ heap' \in Seq(Fields) /\ Len(heap') = n + 1
        /\ submission' = [busy |-> submission.busy, items |-> submission.items,
                          results |-> Append(submission.results, n + 1),
                          staged |-> submission.staged]
    BY <1>3, <2>1, ResultEffect DEF SubmitItem, f
  <2>3. /\ objs \subseteq 1..(n + 1) /\ staged \in Seq(1..(n + 1))
        /\ groups \in Seq(Seq(1..(n + 1))) /\ submission \in Submissions(n + 1)
    BY <1>1, SubmissionTypes
  <2>4. Append(submission.results, n + 1) \in Seq(1..(n + 1))
    BY <1>1, <2>3, AppendProperties DEF Submissions
  <2>5. submission' \in Submissions(n + 1)
    BY <2>2, <2>3, <2>4 DEF Submissions
  <2> QED
    BY <1>1, <1>3, <2>2, <2>3, <2>5, TypeStep DEF TypeOK
<1> QED
  BY <1>2, <1>3 DEF SubmitItem

\* Code that builds inner transactions.
LEMMA BuildType ==
  ASSUME TypeOK, UNCHANGED <<groups, submission, assets, clear>>,
         heap' \in Seq(Fields), Len(heap') >= Len(heap),
         objs' \subseteq 1..Len(heap'), staged' \in Seq(1..Len(heap'))
  PROVE  TypeOK'
<1>1. Len(heap') \in Nat
  BY LenProperties
<1>2. groups \in Seq(Seq(1..Len(heap'))) /\ submission \in Submissions(Len(heap'))
  BY <1>1, SubmissionTypes
<1> QED
  BY <1>2, TypeStep DEF TypeOK

LEMMA AllocStepType ==
  ASSUME TypeOK, NEW f \in Fields, Alloc(f),
         UNCHANGED <<groups, submission, assets, clear>>,
         \/ objs' = objs \cup {Len(heap) + 1} /\ staged' = staged
         \/ objs' = objs /\ staged' = Append(staged, Len(heap) + 1)
  PROVE  TypeOK'
<1> DEFINE n == Len(heap)
<1>1. n \in Nat /\ heap' \in Seq(Fields) /\ Len(heap') = n + 1
  BY AllocType
<1>2. objs \subseteq 1..(n + 1) /\ staged \in Seq(1..(n + 1)) /\ n + 1 \in 1..(n + 1)
  BY <1>1, SubmissionTypes
<1>3. Append(staged, n + 1) \in Seq(1..(n + 1))
  BY <1>1, <1>2, StageType
<1>4. objs \cup {n + 1} \subseteq 1..(n + 1)
  BY <1>2
<1> HIDE DEF n
<1>5. objs' \subseteq 1..(n + 1) /\ staged' \in Seq(1..(n + 1))
  BY <1>2, <1>3, <1>4 DEF n
<1>6. Len(heap') >= Len(heap)
  BY <1>1 DEF n
<1> QED
  BY <1>1, <1>5, <1>6, BuildType

LEMMA SetType ==
  ASSUME TypeOK, NEW o \in 1..Len(heap), NEW input \in Inputs, Set(o, input)
  PROVE  /\ TypeOK' /\ Len(heap') = Len(heap)
         /\ \A r \in 1..Len(heap) : r # o => heap'[r] = heap[r]
<1>1. heap \in Seq(Fields) /\ With(heap[o], input) \in Fields
  BY WithType DEF TypeOK
<1>2. /\ heap' \in Seq(Fields) /\ Len(heap') = Len(heap)
      /\ \A r \in 1..Len(heap) : r # o => heap'[r] = heap[r]
  BY <1>1, ExceptSeq DEF Set
<1>3. UNCHANGED <<objs, staged, groups, submission, assets, clear>>
  BY DEF Set
<1>4. objs' \subseteq 1..Len(heap') /\ staged' \in Seq(1..Len(heap')) /\ Len(heap') >= Len(heap)
  BY <1>2, <1>3 DEF TypeOK
<1> QED
  BY <1>2, <1>3, <1>4, BuildType

LEMMA SubmitType ==
  ASSUME TypeOK, NEW items \in Seq(1..Len(heap)), NEW isStaged \in BOOLEAN,
         Submit(items, isStaged)
  PROVE  TypeOK'
<1>1. CASE Raise /\ UNCHANGED submission
  BY <1>1, RaiseType
<1>2. CASE /\ submission' = [busy |-> TRUE, items |-> items, results |-> <<>>,
                             staged |-> isStaged]
           /\ UNCHANGED <<heap, objs, staged, groups, assets, clear>>
  <2>1. <<>> \in Seq(1..Len(heap))
    BY EmptySeq
  <2>2. submission' \in Submissions(Len(heap))
    BY <1>2, <2>1 DEF Submissions
  <2>3. Len(heap) \in Nat
    BY DEF TypeOK
  <2> QED
    BY <1>2, <2>2, <2>3, TypeStep DEF TypeOK
<1> QED
  BY <1>1, <1>2 DEF Submit

LEMMA ArgumentsType ==
  ASSUME TypeOK, NEW items \in Arguments
  PROVE  /\ items \in Seq(1..Len(heap)) /\ \A i \in 1..Len(items) : items[i] \in objs
<1>1. PICK n \in 0..(MaxGroupSize + 1) : items \in [1..n -> objs]
  BY DEF Arguments
<1>2. objs \subseteq 1..Len(heap) /\ n \in Nat
  BY ConstantsAssumption DEF TypeOK
<1>3. items \in Seq(objs)
  BY <1>1, <1>2, SeqDef
<1> QED
  BY <1>2, <1>3, SeqMonotonic, ElementOfSeq

LEMMA LastStaged ==
  ASSUME TypeOK, staged # <<>>
  PROVE  Len(staged) \in 1..Len(staged) /\ staged[Len(staged)] \in 1..Len(heap)
<1>1. staged \in Seq(1..Len(heap)) /\ Len(staged) \in Nat \ {0}
  BY EmptySeq DEF TypeOK
<1> QED
  BY <1>1, ElementOfSeq

\* Every transaction a test or a contract submits exists.
LEMMA TypeInvariantStep == TypeOK /\ [Next]_vars => TypeOK'
<1> SUFFICES ASSUME TypeOK, [Next]_vars PROVE TypeOK'
  OBVIOUS
<1>1. Len(heap) \in Nat /\ objs \subseteq 1..Len(heap) /\ NewFields \in Fields
  BY NewFieldsType DEF TypeOK
<1>2. ASSUME UNCHANGED vars PROVE TypeOK'
  BY <1>2 DEF TypeOK, vars
<1>3. ASSUME NEW input \in Inputs, New(input) PROVE TypeOK'
  <2>1. With(NewFields, input) \in Fields
    BY <1>1, WithType
  <2> QED
    BY <1>3, <2>1, AllocStepType DEF New
<1>4. ASSUME NEW input \in Inputs, OpSet(input) PROVE TypeOK'
  <2>1. CASE staged # <<>> /\ Set(staged[Len(staged)], input)
    BY <2>1, LastStaged, SetType
  <2>2. CASE Raise /\ UNCHANGED submission
    BY <2>2, RaiseType
  <2> QED
    BY <1>4, <2>1, <2>2 DEF OpSet
<1>5. ASSUME NEW input \in Inputs, NEW o \in objs, Set(o, input) PROVE TypeOK'
  BY <1>1, <1>5, SetType
<1>6. ASSUME NEW o \in objs, Copy(o) PROVE TypeOK'
  <2>1. heap[o] \in Fields
    BY <1>1, ElementOfSeq DEF TypeOK
  <2> QED
    BY <1>6, <2>1, AllocStepType DEF Copy
<1>7. ASSUME NEW begin \in BOOLEAN, OpStage(begin) PROVE TypeOK'
  <2>1. CASE Raise /\ UNCHANGED submission
    BY <2>1, RaiseType
  <2>2. CASE /\ Alloc(NewFields)
             /\ staged' = Append(staged, Len(heap) + 1)
             /\ UNCHANGED <<objs, groups, submission, assets, clear>>
    BY <1>1, <2>2, AllocStepType
  <2> QED
    BY <1>7, <2>1, <2>2 DEF OpStage
<1>8. ASSUME NEW begin \in BOOLEAN, NEW o \in objs, Stage(o, begin) PROVE TypeOK'
  <2>1. CASE Raise /\ UNCHANGED submission
    BY <2>1, RaiseType
  <2>2. CASE /\ staged' = Append(staged, o)
             /\ UNCHANGED <<heap, objs, groups, submission, assets, clear>>
    <3>1. Append(staged, o) \in Seq(1..Len(heap))
      BY <1>1, StageType DEF TypeOK
    <3> QED
      BY <1>1, <2>2, <3>1, BuildType DEF TypeOK
  <2> QED
    BY <1>8, <2>1, <2>2 DEF Stage
<1>9. ASSUME NEW items \in Arguments, Submit(items, FALSE) PROVE TypeOK'
  BY <1>9, ArgumentsType, SubmitType
<1>10. ASSUME SubmitStaged PROVE TypeOK'
  <2>1. CASE Submit(staged, TRUE)
    <3>1. staged \in Seq(1..Len(heap))
      BY DEF TypeOK
    <3> QED
      BY <2>1, <3>1, SubmitType
  <2>2. CASE Raise /\ UNCHANGED submission
    BY <2>2, RaiseType
  <2> QED
    BY <1>10, <2>1, <2>2 DEF SubmitStaged
<1> QED
  BY <1>2, <1>3, <1>4, <1>5, <1>6, <1>7, <1>8, <1>9, <1>10,
     SubmitItemType, FinishType DEF Next

LEMMA InitType == Init => TypeOK
<1>1. <<>> \in Seq(Fields) /\ <<>> \in Seq(1..0) /\ <<>> \in Seq(Seq(1..0)) /\ Len(<<>>) = 0
  BY EmptySeq
<1> SUFFICES ASSUME Init PROVE TypeOK
  OBVIOUS
<1>2. submission \in [busy: BOOLEAN, items: Seq(1..0), results: Seq(1..0), staged: BOOLEAN]
  BY <1>1 DEF Init, Idle
<1>3. heap \in Seq(Fields) /\ Len(heap) = 0 /\ assets \in Nat /\ objs \subseteq 1..Len(heap)
  BY <1>1 DEF Init
<1>4. clear \in BOOLEAN
  BY DEF Init
<1>5. groups \in Seq(Seq(1..0)) /\ staged \in Seq(1..0)
  BY <1>1 DEF Init
<1> QED
  BY <1>2, <1>3, <1>4, <1>5 DEF TypeOK

\* Staged, submitted and recorded transactions are dictionaries that exist,
\* with fields of their types (itxn.py, TransactionGroup).
THEOREM TypeCorrect == Spec => []TypeOK
  BY InitType, TypeInvariantStep, PTL DEF Spec

-----------------------------------------------------------------------------
(* Results. The results of a group, and those of the submission so far,    *)
(* are dictionaries no code holds, and each asset creation among them made *)
(* an asset of its own. This is what makes a recorded group final.         *)

\* The dictionaries code, or a handler, may still write.
Held == objs \cup {staged[i] : i \in 1..Len(staged)}
             \cup {submission.items[i] : i \in 1..Len(submission.items)}

\* The results of a recorded group, or of the submission in progress.
Row(i) == IF i <= Len(groups) THEN groups[i] ELSE submission.results

Rows == 1..(Len(groups) + 1)

ResultsAreCopies == \A i \in Rows : \A j \in 1..Len(Row(i)) : Row(i)[j] \notin Held

AssetsExist ==
  \A i \in Rows : \A j \in 1..Len(Row(i)) :
    CreatesAsset(heap[Row(i)[j]]) => heap[Row(i)[j]].created \in 1..assets

AssetsDiffer ==
  \A i, k \in Rows : \A j \in 1..Len(Row(i)) : \A l \in 1..Len(Row(k)) :
    /\ CreatesAsset(heap[Row(i)[j]]) /\ CreatesAsset(heap[Row(k)[l]])
    /\ heap[Row(i)[j]].created = heap[Row(k)[l]].created
    => i = k /\ j = l

SubmissionFits ==
  /\ Len(submission.items) <= MaxGroupSize
  /\ Len(submission.results) <= Len(submission.items)
  /\ ~submission.busy => submission = Idle

IInv == TypeOK /\ ResultsAreCopies /\ AssetsExist /\ AssetsDiffer /\ SubmissionFits

LEMMA RowType ==
  ASSUME TypeOK, NEW i \in Rows
  PROVE  Row(i) \in Seq(1..Len(heap)) /\ \A j \in 1..Len(Row(i)) : Row(i)[j] \in 1..Len(heap)
<1>1. Row(i) \in Seq(1..Len(heap))
  <2>1. CASE i <= Len(groups)
    <3>1. groups \in Seq(Seq(1..Len(heap))) /\ i \in 1..Len(groups)
      BY <2>1 DEF TypeOK, Rows
    <3> QED
      BY <2>1, <3>1, ElementOfSeq DEF Row
  <2>2. CASE ~(i <= Len(groups))
    BY <2>2 DEF Row, TypeOK
  <2> QED
    BY <2>1, <2>2
<1> QED
  BY <1>1, ElementOfSeq

LEMMA HeldType ==
  ASSUME TypeOK
  PROVE  Held \subseteq 1..Len(heap)
<1>1. staged \in Seq(1..Len(heap)) /\ submission.items \in Seq(1..Len(heap))
  BY DEF TypeOK
<1>2. \A i \in 1..Len(staged) : staged[i] \in 1..Len(heap)
  BY <1>1, ElementOfSeq
<1>3. \A i \in 1..Len(submission.items) : submission.items[i] \in 1..Len(heap)
  BY <1>1, ElementOfSeq
<1> QED
  BY <1>2, <1>3 DEF Held, TypeOK

\* The log only depends on the recorded results.
LEMMA SameLog ==
  ASSUME TypeOK, ResultsAreCopies, groups' = groups,
         \A r \in 1..Len(heap) : r \notin Held => heap'[r] = heap[r]
  PROVE  Log' = Log
<1>1. ASSUME NEW i \in DOMAIN groups, NEW j \in DOMAIN groups[i]
      PROVE  heap'[groups[i][j]] = heap[groups[i][j]]
  <2>1. i \in 1..Len(groups) /\ Len(groups) \in Nat
    BY LenProperties DEF TypeOK
  <2>2. i \in Rows /\ Row(i) = groups[i]
    BY <2>1 DEF Rows, Row
  <2>3. j \in 1..Len(Row(i))
    BY <2>2, RowType, LenProperties
  <2>4. Row(i)[j] \in 1..Len(heap) /\ Row(i)[j] \notin Held
    BY <2>2, <2>3, RowType DEF ResultsAreCopies
  <2> QED
    BY <2>2, <2>4
<1>2. \A i \in DOMAIN groups :
        [j \in DOMAIN groups[i] |-> Entry(heap'[groups[i][j]])]
        = [j \in DOMAIN groups[i] |-> Entry(heap[groups[i][j]])]
  BY <1>1 DEF Entry
<1>3. Log' = [i \in DOMAIN groups |-> [j \in DOMAIN groups[i] |-> Entry(heap'[groups[i][j]])]]
  BY DEF Log, Entry, CreatesAsset
<1> QED
  BY <1>2, <1>3 DEF Log

\* A step that creates no asset and writes no result keeps all of them; the
\* results of the submission in progress may be dropped.
LEMMA KeepResults ==
  ASSUME IInv, groups' = groups, assets' = assets,
         submission'.results = submission.results \/ submission'.results = <<>>,
         \A r \in 1..Len(heap) : r \notin Held => heap'[r] = heap[r],
         \A r \in 1..Len(heap) : r \in Held' => r \in Held
  PROVE  ResultsAreCopies' /\ AssetsExist' /\ AssetsDiffer' /\ Log' = Log
<1>1. TypeOK /\ ResultsAreCopies /\ AssetsExist /\ AssetsDiffer
  BY DEF IInv
<1>2. Rows' = Rows
  BY DEF Rows
<1>3. ASSUME NEW i \in Rows, NEW j \in 1..Len(Row(i)')
      PROVE  /\ Row(i)' = Row(i) /\ j \in 1..Len(Row(i))
             /\ Row(i)[j] \notin Held'
             /\ heap'[Row(i)[j]] = heap[Row(i)[j]]
  <2>1. Row(i)' = Row(i)
    <3>1. Row(i)' = (IF i <= Len(groups) THEN groups[i] ELSE submission'.results)
      BY DEF Row
    <3>2. Len(<<>>) = 0
      BY EmptySeq
    <3> QED
      BY <3>1, <3>2 DEF Row
  <2>2. Row(i)[j] \in 1..Len(heap) /\ Row(i)[j] \notin Held
    BY <1>1, <2>1, RowType DEF ResultsAreCopies
  <2> QED
    BY <2>1, <2>2
<1>4. ResultsAreCopies'
  BY <1>2, <1>3 DEF ResultsAreCopies
<1>5. AssetsExist'
  BY <1>1, <1>2, <1>3 DEF AssetsExist, CreatesAsset
<1>6. AssetsDiffer'
  BY <1>1, <1>2, <1>3 DEF AssetsDiffer, CreatesAsset
<1>7. Log' = Log
  BY <1>1, SameLog
<1> QED
  BY <1>4, <1>5, <1>6, <1>7

\* A handler's result is a dictionary of its own, and so is the asset it made.
LEMMA NewResult ==
  ASSUME IInv, NEW f \in Fields, Len(submission.results) < Len(submission.items),
         Result(f), UNCHANGED <<objs, staged, groups>>,
         assets' = IF CreatesAsset(f) THEN assets + 1 ELSE assets,
         CreatesAsset(f) => f.created = assets + 1
  PROVE  ResultsAreCopies' /\ AssetsExist' /\ AssetsDiffer' /\ SubmissionFits' /\ Log' = Log
<1> DEFINE n == Len(heap)
           last == Len(groups) + 1
           m == Len(submission.results) + 1
<1>1. TypeOK /\ ResultsAreCopies /\ AssetsExist /\ AssetsDiffer /\ SubmissionFits
  BY DEF IInv
<1>2. n \in Nat /\ last \in Nat \ {0} /\ m \in Nat \ {0} /\ assets \in Nat /\ last = Len(groups) + 1
  BY <1>1 DEF TypeOK
<1>3. /\ Len(heap') = n + 1
      /\ \A r \in 1..n : r # Item => heap'[r] = heap[r]
      /\ heap'[n + 1] = f
      /\ submission' = [busy |-> submission.busy, items |-> submission.items,
                        results |-> Append(submission.results, n + 1),
                        staged |-> submission.staged]
  BY <1>1, ResultEffect
<1>4. Item \in Held /\ Held' = Held /\ Held \subseteq 1..n
  BY <1>1, <1>3, ItemType, HeldType DEF Held, Item
<1>5. \A r \in 1..n : r \notin Held => heap'[r] = heap[r]
  BY <1>3, <1>4
<1>6. /\ submission.results \in Seq(1..n) /\ submission.results \in Seq(Nat)
      /\ m = Len(submission.results) + 1
  BY <1>1, SeqMonotonic DEF TypeOK
<1>7. /\ Len(submission'.results) = m
      /\ submission'.results[m] = n + 1
      /\ \A j \in 1..(m - 1) : submission'.results[j] = submission.results[j]
  BY <1>2, <1>3, <1>6, AppendProperties
<1> HIDE DEF n, last, m
<1>8. Rows' = 1..last /\ Rows = 1..last
  BY <1>2 DEF Rows
<1>9. ASSUME NEW i \in 1..last, NEW j \in 1..Len(Row(i)')
      PROVE  \/ i = last /\ j = m /\ Row(i)'[j] = n + 1
             \/ /\ j \in 1..Len(Row(i)) /\ Row(i)'[j] = Row(i)[j]
                /\ Row(i)[j] \in 1..n /\ Row(i)[j] \notin Held
                /\ heap'[Row(i)[j]] = heap[Row(i)[j]]
                /\ ~(i = last /\ j = m)
  <2>1. CASE i = last
    <3>1. Row(i)' = submission'.results /\ Row(i) = submission.results
      BY <1>2, <2>1 DEF Row
    <3>2. CASE j = m
      BY <1>7, <2>1, <3>1, <3>2
    <3>3. CASE j # m
      <4>1. j \in 1..(m - 1) /\ j \in 1..Len(Row(i))
        BY <1>2, <1>6, <1>7, <3>1, <3>3
      <4>2. Row(i)[j] \in 1..n /\ Row(i)[j] \notin Held
        BY <1>1, <1>8, <4>1, RowType DEF ResultsAreCopies, n
      <4> QED
        BY <1>5, <1>7, <3>1, <3>3, <4>1, <4>2
    <3> QED
      BY <3>2, <3>3
  <2>2. CASE i # last
    <3>1. Row(i)' = groups[i] /\ Row(i) = groups[i]
      BY <1>2, <2>2 DEF Row
    <3>2. Row(i)[j] \in 1..n /\ Row(i)[j] \notin Held
      BY <1>1, <1>8, <3>1, RowType DEF ResultsAreCopies, n
    <3> QED
      BY <1>5, <2>2, <3>1, <3>2
  <2> QED
    BY <2>1, <2>2
<1>10. n + 1 \notin Held'
  BY <1>2, <1>4
<1>11. ResultsAreCopies'
  BY <1>4, <1>8, <1>9, <1>10 DEF ResultsAreCopies
<1>12. assets' \in Nat /\ assets <= assets' /\ (CreatesAsset(f) => f.created \in 1..assets')
  BY <1>2
<1>13. AssetsExist'
  <2> SUFFICES ASSUME NEW i \in 1..last, NEW j \in 1..Len(Row(i)'),
                      CreatesAsset(heap'[Row(i)'[j]])
               PROVE  heap'[Row(i)'[j]].created \in 1..assets'
    BY <1>8 DEF AssetsExist, CreatesAsset
  <2>1. CASE Row(i)'[j] = n + 1
    BY <1>3, <1>12, <2>1
  <2>2. CASE /\ j \in 1..Len(Row(i)) /\ Row(i)'[j] = Row(i)[j]
             /\ heap'[Row(i)[j]] = heap[Row(i)[j]]
    <3>1. heap[Row(i)[j]].created \in 1..assets
      BY <1>1, <1>8, <2>2 DEF AssetsExist
    <3> QED
      BY <1>2, <1>12, <2>2, <3>1
  <2> QED
    BY <1>9, <2>1, <2>2
<1>14. AssetsDiffer'
  <2> SUFFICES ASSUME NEW i \in 1..last, NEW k \in 1..last,
                      NEW j \in 1..Len(Row(i)'), NEW l \in 1..Len(Row(k)'),
                      CreatesAsset(heap'[Row(i)'[j]]), CreatesAsset(heap'[Row(k)'[l]]),
                      heap'[Row(i)'[j]].created = heap'[Row(k)'[l]].created
               PROVE  i = k /\ j = l
    BY <1>8 DEF AssetsDiffer, CreatesAsset
  <2> DEFINE Fresh(a, b) == a = last /\ b = m /\ Row(a)'[b] = n + 1
             Old(a, b) == /\ b \in 1..Len(Row(a)) /\ Row(a)'[b] = Row(a)[b]
                          /\ heap'[Row(a)[b]] = heap[Row(a)[b]]
  <2>1. \A a \in 1..last : \A b \in 1..Len(Row(a)') :
          Fresh(a, b) /\ CreatesAsset(heap'[Row(a)'[b]])
          => heap'[Row(a)'[b]].created = assets + 1
    BY <1>3
  <2>2. \A a \in 1..last : \A b \in 1..Len(Row(a)') :
          Old(a, b) /\ CreatesAsset(heap'[Row(a)'[b]])
          => heap'[Row(a)'[b]].created \in 1..assets
    BY <1>1, <1>8 DEF AssetsExist
  <2>3. CASE Fresh(i, j) /\ Fresh(k, l)
    BY <2>3
  <2>4. CASE Fresh(i, j) /\ Old(k, l)
    <3>1. heap'[Row(i)'[j]].created = assets + 1
      BY <2>1, <2>4
    <3>2. heap'[Row(k)'[l]].created \in 1..assets
      BY <2>2, <2>4
    <3> QED
      BY <1>2, <3>1, <3>2
  <2>5. CASE Old(i, j) /\ Fresh(k, l)
    <3>1. heap'[Row(k)'[l]].created = assets + 1
      BY <2>1, <2>5
    <3>2. heap'[Row(i)'[j]].created \in 1..assets
      BY <2>2, <2>5
    <3> QED
      BY <1>2, <3>1, <3>2
  <2>6. CASE Old(i, j) /\ Old(k, l)
    <3>1. /\ j \in 1..Len(Row(i)) /\ l \in 1..Len(Row(k)) /\ i \in Rows /\ k \in Rows
      BY <1>8, <2>6
    <3>2. /\ CreatesAsset(heap[Row(i)[j]]) /\ CreatesAsset(heap[Row(k)[l]])
          /\ heap[Row(i)[j]].created = heap[Row(k)[l]].created
      BY <2>6
    <3> QED
      BY <1>1, <3>1, <3>2 DEF AssetsDiffer
  <2> QED
    BY <1>9, <2>3, <2>4, <2>5, <2>6
<1>15. SubmissionFits'
  <2>1. submission.busy
    BY <1>1, <1>6, EmptySeq DEF SubmissionFits, Idle
  <2> QED
    BY <1>1, <1>3, <1>6, <1>7, <2>1, LenProperties DEF SubmissionFits, TypeOK
<1>16. Log' = Log
  BY <1>1, <1>5, SameLog DEF n
<1> QED
  BY <1>11, <1>13, <1>14, <1>15, <1>16

-----------------------------------------------------------------------------
(* The log.                                                                *)

Entries == [fields: Fields, asset: Nat]

Group(results) == [j \in 1..Len(results) |-> Entry(heap[results[j]])]

LEMMA GroupType ==
  ASSUME TypeOK, NEW results \in Seq(1..Len(heap))
  PROVE  /\ Group(results) \in Seq(Entries)
         /\ DOMAIN Group(results) = 1..Len(results)
         /\ Len(Group(results)) = Len(results)
         /\ [j \in DOMAIN results |-> Entry(heap[results[j]])] = Group(results)
<1>1. Len(results) \in Nat /\ DOMAIN results = 1..Len(results) /\ heap \in Seq(Fields)
  BY LenProperties DEF TypeOK
<1>2. ASSUME NEW j \in 1..Len(results) PROVE Entry(heap[results[j]]) \in Entries
  <2>1. heap[results[j]] \in Fields
    BY <1>1, ElementOfSeq
  <2> QED
    BY <2>1 DEF Entry, Entries, Fields
<1>3. Group(results) \in [1..Len(results) -> Entries]
  BY <1>2 DEF Group
<1>4. Group(results) \in Seq(Entries)
  BY <1>1, <1>3, SeqDef
<1>5. DOMAIN Group(results) = 1..Len(results)
  BY DEF Group
<1>6. Len(Group(results)) = Len(results)
  BY <1>1, <1>4, <1>5, LenProperties
<1> QED
  BY <1>1, <1>4, <1>5, <1>6 DEF Group

LogOf(g) == [i \in DOMAIN g |-> [j \in DOMAIN g[i] |-> Entry(heap[g[i][j]])]]

LEMMA LogType ==
  ASSUME TypeOK, NEW g \in Seq(Seq(1..Len(heap)))
  PROVE  /\ LogOf(g) \in Seq(Seq(Entries))
         /\ Len(LogOf(g)) = Len(g) /\ DOMAIN LogOf(g) = 1..Len(g)
         /\ \A i \in 1..Len(g) : LogOf(g)[i] = Group(g[i])
<1>1. Len(g) \in Nat /\ DOMAIN g = 1..Len(g)
  BY LenProperties
<1>2. \A i \in 1..Len(g) : g[i] \in Seq(1..Len(heap))
  BY ElementOfSeq
<1>3. \A i \in 1..Len(g) : LogOf(g)[i] = Group(g[i])
  BY <1>1, <1>2, GroupType DEF LogOf
<1>4. \A i \in 1..Len(g) : LogOf(g)[i] \in Seq(Entries)
  BY <1>2, <1>3, GroupType
<1>5. DOMAIN LogOf(g) = 1..Len(g) /\ LogOf(g) = [i \in 1..Len(g) |-> LogOf(g)[i]]
  BY <1>1 DEF LogOf
<1>6. LogOf(g) \in [1..Len(g) -> Seq(Entries)]
  BY <1>4, <1>5
<1>7. LogOf(g) \in Seq(Seq(Entries))
  <2> DEFINE T == Seq(Entries)
             h == LogOf(g)
             n == Len(g)
  <2>1. h \in [1..n -> T] /\ n \in Nat
    BY <1>1, <1>6
  <2> HIDE DEF T, h, n
  <2>2. h \in Seq(T)
    BY <2>1, SeqDef
  <2> QED
    BY <2>2 DEF T, h
<1> QED
  BY <1>1, <1>3, <1>5, <1>7, LenProperties

\* A finished submission is one more group of the log.
LEMMA Appended ==
  ASSUME TypeOK, heap' = heap, groups' = Append(groups, submission.results)
  PROVE  Log' = Append(Log, Group(submission.results))
<1> DEFINE r == submission.results
           G == Append(groups, r)
           S == Seq(1..Len(heap))
<1>1. r \in S /\ groups \in Seq(S)
  BY DEF TypeOK
<1> HIDE DEF r
<1>2. /\ G \in Seq(S) /\ Len(G) = Len(groups) + 1 /\ Len(groups) \in Nat
      /\ \A i \in 1..Len(groups) : G[i] = groups[i]
      /\ G[Len(groups) + 1] = r
  BY <1>1, AppendProperties
<1> HIDE DEF G
<1>3. /\ LogOf(G) \in Seq(Seq(Entries)) /\ Len(LogOf(G)) = Len(groups) + 1
      /\ \A i \in 1..(Len(groups) + 1) : LogOf(G)[i] = Group(G[i])
  BY <1>2, LogType
<1>4. /\ LogOf(groups) \in Seq(Seq(Entries)) /\ Len(LogOf(groups)) = Len(groups)
      /\ \A i \in 1..Len(groups) : LogOf(groups)[i] = Group(groups[i])
  BY <1>1, LogType
<1>5. Group(r) \in Seq(Entries)
  BY <1>1, GroupType
<1> DEFINE A == Append(LogOf(groups), Group(r))
<1>6. /\ A \in Seq(Seq(Entries)) /\ Len(A) = Len(groups) + 1
      /\ \A i \in 1..Len(groups) : A[i] = Group(groups[i])
      /\ A[Len(groups) + 1] = Group(r)
  BY <1>4, <1>5, AppendProperties
<1> HIDE DEF A
<1>7. \A i \in 1..(Len(groups) + 1) : LogOf(G)[i] = A[i]
  <2> SUFFICES ASSUME NEW i \in 1..(Len(groups) + 1) PROVE LogOf(G)[i] = A[i]
    OBVIOUS
  <2>1. LogOf(G)[i] = Group(G[i])
    BY <1>3
  <2>2. CASE i = Len(groups) + 1
    BY <1>2, <1>6, <2>1, <2>2
  <2>3. CASE i \in 1..Len(groups)
    BY <1>2, <1>6, <2>1, <2>3
  <2> QED
    BY <1>2, <2>2, <2>3
<1>8. LogOf(G) = A
  BY <1>3, <1>6, <1>7, SeqEqual
<1>9. Log' = LogOf(G) /\ Log = LogOf(groups)
  BY DEF Log, LogOf, G, r, Entry, CreatesAsset
<1> QED
  BY <1>8, <1>9 DEF A, r

\* The results of a finished submission are a group the log can record.
LEMMA FinishRecords ==
  ASSUME IInv, FinishSubmit
  PROVE  Recorded!Next
<1> DEFINE r == submission.results
           last == Len(groups) + 1
<1>1. /\ TypeOK /\ AssetsExist /\ AssetsDiffer /\ SubmissionFits
      /\ heap' = heap /\ assets' = assets /\ groups' = Append(groups, r)
  BY DEF IInv, FinishSubmit
<1>2. r \in Seq(1..Len(heap)) /\ groups \in Seq(Seq(1..Len(heap)))
  BY <1>1 DEF TypeOK
<1>3. /\ Group(r) \in Seq(Entries) /\ DOMAIN Group(r) = 1..Len(r) /\ Len(Group(r)) = Len(r)
      /\ \A j \in 1..Len(r) : Group(r)[j] = Entry(heap[r[j]])
  BY <1>1, <1>2, GroupType DEF Group
<1>4. Len(groups) \in Nat /\ last \in Rows /\ Row(last) = r
  BY <1>2, LenProperties DEF Rows, Row
<1> HIDE DEF r
<1>5. Log' = Append(Log, Group(r))
  BY <1>1, Appended DEF r
<1>6. /\ Log \in Seq(Seq(Entries)) /\ Len(Log) = Len(groups) /\ DOMAIN Log = 1..Len(groups)
      /\ \A i \in 1..Len(groups) : Log[i] = Group(groups[i])
  <2>1. Log = LogOf(groups)
    BY DEF Log, LogOf
  <2> QED
    BY <1>1, <1>2, <2>1, LogType
<1>7. Len(Log') = last /\ Log'[last] = Group(r)
  BY <1>3, <1>5, <1>6, AppendProperties
<1>8. Len(Group(r)) <= MaxGroupSize
  <2>1. Len(r) = Len(submission.items)
    BY DEF FinishSubmit, r
  <2> QED
    BY <1>1, <1>3, <2>1 DEF SubmissionFits
<1> HIDE DEF last
<1>9. \A j \in 1..Len(r) :
        Group(r)[j].asset = IF CreatesAsset(heap[r[j]]) THEN heap[r[j]].created ELSE 0
  BY <1>3 DEF Entry
<1>10. \A i, j \in DOMAIN Group(r) :
         Group(r)[i].asset = Group(r)[j].asset /\ Group(r)[i].asset # 0 => i = j
  BY <1>1, <1>3, <1>4, <1>9 DEF AssetsDiffer
<1>11. Recorded!Created(Group(r)) \subseteq 1..assets
  <2>1. \A j \in 1..Len(r) : CreatesAsset(heap[r[j]]) => heap[r[j]].created \in 1..assets
    BY <1>1, <1>4 DEF AssetsExist
  <2> QED
    BY <1>3, <1>9, <2>1 DEF Recorded!Created, Recorded!NoAsset
<1>12. Recorded!Created(Group(r)) \cap Recorded!AllCreated = {}
  <2> SUFFICES ASSUME NEW i \in 1..Len(groups), NEW a \in Recorded!Created(Log[i]),
                      a \in Recorded!Created(Group(r))
               PROVE  FALSE
    BY <1>6 DEF Recorded!AllCreated
  <2>1. PICK j \in 1..Len(r) : a = Group(r)[j].asset /\ a # 0
    BY <1>3 DEF Recorded!Created, Recorded!NoAsset
  <2>2. i \in Rows /\ Row(i) = groups[i] /\ groups[i] \in Seq(1..Len(heap)) /\ i # last
    BY <1>2, <1>4, ElementOfSeq DEF Rows, Row, last
  <2>3. /\ DOMAIN Log[i] = 1..Len(groups[i])
        /\ \A l \in 1..Len(groups[i]) : Log[i][l] = Entry(heap[groups[i][l]])
    BY <1>1, <1>6, <2>2, GroupType DEF Group
  <2>4. PICK l \in 1..Len(groups[i]) : a = Log[i][l].asset
    BY <2>3 DEF Recorded!Created
  <2>5. CreatesAsset(heap[groups[i][l]]) /\ a = heap[groups[i][l]].created
    <3>1. Log[i][l].asset = IF CreatesAsset(heap[groups[i][l]])
                            THEN heap[groups[i][l]].created ELSE 0
      <4>1. Log[i][l] = Entry(heap[groups[i][l]])
        BY <2>3
      <4> QED
        BY <4>1 DEF Entry
    <3> QED
      BY <2>1, <2>4, <3>1
  <2>6. CreatesAsset(heap[r[j]]) /\ a = heap[r[j]].created
    BY <1>9, <2>1
  <2> QED
    BY <1>1, <1>4, <2>2, <2>5, <2>6 DEF AssetsDiffer
<1>13. Recorded!Record(Group(r))
  BY <1>1, <1>5, <1>8, <1>10, <1>11, <1>12 DEF Recorded!Record, Recorded!NoAsset
<1>14. Len(Log') > 0 /\ Recorded!Record(Log'[Len(Log')])
  BY <1>4, <1>7, <1>13 DEF last
<1> QED
  BY <1>14 DEF Recorded!Next

\* Recording the results changes none of them.
LEMMA FinishKeeps ==
  ASSUME IInv, FinishSubmit
  PROVE  ResultsAreCopies' /\ AssetsExist' /\ AssetsDiffer' /\ SubmissionFits'
<1> DEFINE n == Len(groups)
<1>1. /\ TypeOK /\ ResultsAreCopies /\ AssetsExist /\ AssetsDiffer
      /\ heap' = heap /\ assets' = assets /\ objs' = objs
      /\ groups' = Append(groups, submission.results) /\ submission' = Idle
  BY DEF IInv, FinishSubmit
<1>2. /\ submission.results \in Seq(1..Len(heap)) /\ groups \in Seq(Seq(1..Len(heap)))
      /\ n \in Nat /\ Len(<<>>) = 0
  BY <1>1, EmptySeq DEF TypeOK
<1>3. /\ Len(groups') = n + 1
      /\ \A i \in 1..n : groups'[i] = groups[i]
      /\ groups'[n + 1] = submission.results
  BY <1>1, <1>2, AppendProperties
<1>4. submission'.results = <<>> /\ submission'.items = <<>>
  BY <1>1 DEF Idle
<1> HIDE DEF n
<1>5. Rows' = 1..(n + 2) /\ Rows = 1..(n + 1)
  BY <1>2, <1>3 DEF Rows, n
<1>6. ASSUME NEW i \in Rows', NEW j \in 1..Len(Row(i)')
      PROVE  i \in Rows /\ Row(i)' = Row(i) /\ j \in 1..Len(Row(i))
  <2>1. Row(i)' = IF i <= n + 1 THEN groups'[i] ELSE <<>>
    BY <1>3, <1>4 DEF Row
  <2>2. i # n + 2
    BY <1>2, <2>1
  <2>3. i \in 1..(n + 1)
    BY <1>2, <1>5, <2>2
  <2>4. Row(i)' = Row(i)
    <3>1. Row(i)' = groups'[i]
      BY <2>1, <2>3
    <3>2. CASE i \in 1..n
      BY <1>2, <1>3, <3>1, <3>2 DEF Row, n
    <3>3. CASE i = n + 1
      BY <1>2, <1>3, <3>1, <3>3 DEF Row, n
    <3> QED
      BY <1>2, <2>3, <3>2, <3>3
  <2> QED
    BY <1>5, <2>3, <2>4
<1>7. Held' \subseteq Held
  <2>1. staged' = <<>> \/ staged' = staged
    BY DEF FinishSubmit, StillStaged
  <2> QED
    BY <1>1, <1>2, <1>4, <2>1 DEF Held
<1>8. ResultsAreCopies'
  BY <1>1, <1>6, <1>7 DEF ResultsAreCopies
<1>9. AssetsExist'
  BY <1>1, <1>6 DEF AssetsExist, CreatesAsset
<1>10. AssetsDiffer'
  BY <1>1, <1>6 DEF AssetsDiffer, CreatesAsset
<1>11. SubmissionFits'
  BY <1>1, <1>2, ConstantsAssumption DEF SubmissionFits, Idle
<1> QED
  BY <1>8, <1>9, <1>10, <1>11

-----------------------------------------------------------------------------
(* Every step.                                                             *)

RecordedVars == <<Log, assets>>

\* What a step that is no submission's result shows.
Kept == ResultsAreCopies /\ AssetsExist /\ AssetsDiffer /\ SubmissionFits

\* A step that only adds dictionaries, or changes one code holds.
LEMMA BuildKeeps ==
  ASSUME IInv, UNCHANGED <<groups, assets>>, submission' = submission \/ submission' = Idle,
         \A r \in 1..Len(heap) : r \notin Held => heap'[r] = heap[r],
         \A r \in 1..Len(heap) : r \in objs' => r \in Held,
         \A r \in 1..Len(heap) : \A i \in 1..Len(staged') : staged'[i] = r => r \in Held
  PROVE  Kept' /\ UNCHANGED RecordedVars
<1>1. submission'.results = submission.results \/ submission'.results = <<>>
  BY DEF Idle
<1>2. submission'.items = submission.items \/ submission'.items = <<>>
  BY DEF Idle
<1>3. Len(<<>>) = 0
  BY EmptySeq
<1>4. \A r \in 1..Len(heap) : r \in Held' => r \in Held
  BY <1>2, <1>3 DEF Held
<1>5. SubmissionFits'
  <2>1. CASE submission' = submission
    BY <2>1 DEF IInv, SubmissionFits, Idle
  <2>2. CASE submission' = Idle
    BY <1>3, <2>2, ConstantsAssumption DEF SubmissionFits, Idle
  <2> QED
    BY <2>1, <2>2
<1>6. ResultsAreCopies' /\ AssetsExist' /\ AssetsDiffer' /\ Log' = Log
  BY <1>1, <1>4, KeepResults
<1> QED
  BY <1>5, <1>6 DEF Kept, RecordedVars

LEMMA RaiseKeeps ==
  ASSUME IInv, Raise, submission' = submission \/ submission' = Idle
  PROVE  Kept' /\ UNCHANGED RecordedVars
  BY BuildKeeps DEF Raise, Held

LEMMA AllocKeeps ==
  ASSUME IInv, NEW f \in Fields, Alloc(f), UNCHANGED <<groups, submission, assets>>,
         \/ objs' = objs \cup {Len(heap) + 1} /\ staged' = staged
         \/ objs' = objs /\ staged' = Append(staged, Len(heap) + 1)
  PROVE  Kept' /\ UNCHANGED RecordedVars
<1>1. TypeOK
  BY DEF IInv
<1>2. Len(heap) \in Nat /\ \A r \in 1..Len(heap) : heap'[r] = heap[r]
  BY <1>1, AllocType
<1>3. \A r \in 1..Len(heap) : r # Len(heap) + 1
  BY <1>2
<1>4. \A r \in 1..Len(heap) : r \in objs' => r \in Held
  BY <1>3 DEF Held
<1>5. \A r \in 1..Len(heap) : \A i \in 1..Len(staged') : staged'[i] = r => r \in Held
  <2>1. CASE staged' = staged
    BY <2>1 DEF Held
  <2>2. CASE staged' = Append(staged, Len(heap) + 1)
    <3>1. staged \in Seq(Nat) /\ Len(heap) + 1 \in Nat
      BY <1>1, <1>2, SeqMonotonic DEF TypeOK
    <3>2. /\ Len(staged') = Len(staged) + 1 /\ Len(staged) \in Nat
          /\ \A i \in 1..Len(staged) : staged'[i] = staged[i]
          /\ staged'[Len(staged) + 1] = Len(heap) + 1
      BY <2>2, <3>1, AppendProperties
    <3> QED
      BY <1>3, <3>2 DEF Held
  <2> QED
    BY <2>1, <2>2
<1> QED
  BY <1>2, <1>4, <1>5, BuildKeeps

LEMMA SetKeeps ==
  ASSUME IInv, NEW input \in Inputs, NEW o \in 1..Len(heap), o \in Held, Set(o, input)
  PROVE  Kept' /\ UNCHANGED RecordedVars
<1>1. \A r \in 1..Len(heap) : r # o => heap'[r] = heap[r]
  BY SetType DEF IInv
<1>2. UNCHANGED <<objs, staged, groups, submission, assets>>
  BY DEF Set
<1>3. /\ \A r \in 1..Len(heap) : r \in objs' => r \in Held
      /\ \A r \in 1..Len(heap) : \A i \in 1..Len(staged') : staged'[i] = r => r \in Held
  BY <1>2 DEF Held
<1> QED
  BY <1>1, <1>2, <1>3, BuildKeeps

\* What is submitted is held already.
LEMMA SubmitKeeps ==
  ASSUME IInv, NEW items \in Seq(1..Len(heap)), NEW isStaged \in BOOLEAN,
         \A i \in 1..Len(items) : items[i] \in Held, Submit(items, isStaged)
  PROVE  Kept' /\ UNCHANGED RecordedVars
<1>1. CASE Raise /\ UNCHANGED submission
  BY <1>1, RaiseKeeps
<1>2. CASE /\ Len(items) <= MaxGroupSize
           /\ submission' = [busy |-> TRUE, items |-> items, results |-> <<>>,
                             staged |-> isStaged]
           /\ UNCHANGED <<heap, objs, staged, groups, assets, clear>>
  <2>1. submission'.results = <<>> /\ submission'.items = items /\ submission'.busy
    BY <1>2
  <2>2. Len(<<>>) = 0 /\ Len(items) \in Nat
    BY EmptySeq, LenProperties
  <2>3. \A r \in 1..Len(heap) : r \in Held' => r \in Held
    <3>1. objs' = objs /\ staged' = staged
      BY <1>2
    <3>2. Held' = objs \cup {staged[i] : i \in 1..Len(staged)} \cup {items[i] : i \in 1..Len(items)}
      BY <2>1, <3>1 DEF Held
    <3>3. {items[i] : i \in 1..Len(items)} \subseteq Held
      OBVIOUS
    <3> QED
      BY <3>2, <3>3 DEF Held
  <2>4. SubmissionFits'
    BY <1>2, <2>1, <2>2 DEF SubmissionFits
  <2>5. ResultsAreCopies' /\ AssetsExist' /\ AssetsDiffer' /\ Log' = Log
    BY <1>2, <2>1, <2>3, KeepResults
  <2> QED
    BY <1>2, <2>4, <2>5 DEF Kept, RecordedVars
<1> QED
  BY <1>1, <1>2 DEF Submit

LEMMA ResultStep ==
  ASSUME IInv, SubmitItem
  PROVE  Kept' /\ (Recorded!Next \/ UNCHANGED RecordedVars)
<1>1. TypeOK /\ heap[Item] \in Fields /\ assets \in Nat
  BY ItemType DEF IInv, SubmitItem, TypeOK
<1>2. CASE Raise /\ submission' = Idle
  BY <1>2, RaiseKeeps
<1>3. CASE /\ Result(Handle(heap[Item]))
           /\ assets' = (IF CreatesAsset(heap[Item]) THEN assets + 1 ELSE assets)
           /\ UNCHANGED <<objs, staged, groups, clear>>
  <2> DEFINE f == Handle(heap[Item])
  <2>1. /\ f \in Fields /\ (CreatesAsset(f) <=> CreatesAsset(heap[Item]))
        /\ CreatesAsset(heap[Item]) => f.created = assets + 1
    BY <1>1, HandleType
  <2>2. Result(f)
    BY <1>3
  <2> HIDE DEF f
  <2>3. assets' = IF CreatesAsset(f) THEN assets + 1 ELSE assets
    BY <1>3, <2>1
  <2>4. Len(submission.results) < Len(submission.items)
    BY DEF SubmitItem
  <2>5. Kept' /\ Log' = Log
    BY <1>3, <2>1, <2>2, <2>3, <2>4, NewResult DEF Kept
  <2>6. CASE CreatesAsset(f)
    BY <2>3, <2>5, <2>6 DEF Recorded!Next, Recorded!CreateAsset
  <2>7. CASE ~CreatesAsset(f)
    BY <2>3, <2>5, <2>7 DEF RecordedVars
  <2> QED
    BY <2>5, <2>6, <2>7
<1> QED
  BY <1>2, <1>3 DEF SubmitItem

LEMMA Step ==
  ASSUME IInv, [Next]_vars
  PROVE  Kept' /\ (Recorded!Next \/ UNCHANGED RecordedVars)
<1>1. TypeOK /\ Kept /\ Len(heap) \in Nat /\ objs \subseteq 1..Len(heap) /\ objs \subseteq Held
  BY DEF IInv, TypeOK, Held, Kept
<1>2. ASSUME UNCHANGED <<heap, objs, staged, groups, submission, assets>>
      PROVE  Kept' /\ UNCHANGED RecordedVars
  BY <1>2, BuildKeeps DEF Held
<1>3. ASSUME NEW input \in Inputs, New(input) PROVE Kept' /\ UNCHANGED RecordedVars
  BY <1>3, NewFieldsType, WithType, AllocKeeps DEF New
<1>4. ASSUME NEW input \in Inputs, OpSet(input) PROVE Kept' /\ UNCHANGED RecordedVars
  <2>1. CASE staged # <<>> /\ Set(staged[Len(staged)], input)
    <3>1. /\ Len(staged) \in 1..Len(staged) /\ staged[Len(staged)] \in 1..Len(heap)
          /\ staged[Len(staged)] \in Held
      BY <1>1, <2>1, LastStaged DEF Held
    <3> QED
      BY <2>1, <3>1, SetKeeps
  <2>2. CASE Raise /\ UNCHANGED submission
    BY <2>2, RaiseKeeps
  <2> QED
    BY <1>4, <2>1, <2>2 DEF OpSet
<1>5. ASSUME NEW input \in Inputs, NEW o \in objs, Set(o, input)
      PROVE  Kept' /\ UNCHANGED RecordedVars
  BY <1>1, <1>5, SetKeeps
<1>6. ASSUME NEW o \in objs, Copy(o) PROVE Kept' /\ UNCHANGED RecordedVars
  <2>1. heap[o] \in Fields
    BY <1>1, ElementOfSeq DEF TypeOK
  <2> QED
    BY <1>6, <2>1, AllocKeeps DEF Copy
<1>7. ASSUME NEW begin \in BOOLEAN, OpStage(begin) PROVE Kept' /\ UNCHANGED RecordedVars
  <2>1. CASE Raise /\ UNCHANGED submission
    BY <2>1, RaiseKeeps
  <2>2. CASE /\ Alloc(NewFields)
             /\ staged' = Append(staged, Len(heap) + 1)
             /\ UNCHANGED <<objs, groups, submission, assets, clear>>
    BY <2>2, NewFieldsType, AllocKeeps
  <2> QED
    BY <1>7, <2>1, <2>2 DEF OpStage
<1>8. ASSUME NEW begin \in BOOLEAN, NEW o \in objs, Stage(o, begin)
      PROVE  Kept' /\ UNCHANGED RecordedVars
  <2>1. CASE Raise /\ UNCHANGED submission
    BY <2>1, RaiseKeeps
  <2>2. CASE /\ staged' = Append(staged, o)
             /\ UNCHANGED <<heap, objs, groups, submission, assets, clear>>
    <3>1. staged \in Seq(1..Len(heap)) /\ o \in 1..Len(heap)
      BY <1>1 DEF TypeOK
    <3>2. /\ Len(staged') = Len(staged) + 1 /\ Len(staged) \in Nat
          /\ \A i \in 1..Len(staged) : staged'[i] = staged[i]
          /\ staged'[Len(staged) + 1] = o
      BY <2>2, <3>1, AppendProperties
    <3>3. \A i \in 1..Len(staged') : staged'[i] \in Held
      BY <1>1, <3>2 DEF Held
    <3> QED
      BY <1>1, <2>2, <3>3, BuildKeeps
  <2> QED
    BY <1>8, <2>1, <2>2 DEF Stage
<1>9. ASSUME NEW items \in Arguments, Submit(items, FALSE)
      PROVE  Kept' /\ UNCHANGED RecordedVars
  BY <1>1, <1>9, ArgumentsType, SubmitKeeps
<1>10. ASSUME SubmitStaged PROVE Kept' /\ UNCHANGED RecordedVars
  <2>1. CASE Submit(staged, TRUE)
    <3>1. staged \in Seq(1..Len(heap)) /\ \A i \in 1..Len(staged) : staged[i] \in Held
      BY <1>1 DEF TypeOK, Held
    <3> QED
      BY <2>1, <3>1, SubmitKeeps
  <2>2. CASE Raise /\ UNCHANGED submission
    BY <2>2, RaiseKeeps
  <2> QED
    BY <1>10, <2>1, <2>2 DEF SubmitStaged
<1>11. ASSUME FinishSubmit PROVE Kept' /\ Recorded!Next
  BY <1>11, FinishRecords, FinishKeeps DEF Kept
<1>12. CASE Next
  BY <1>2, <1>3, <1>4, <1>5, <1>6, <1>7, <1>8, <1>9, <1>10, <1>11, <1>12, ResultStep
     DEF Next
<1> QED
  BY <1>2, <1>12 DEF vars

LEMMA InitKept == Init => Kept /\ Recorded!Init
<1> SUFFICES ASSUME Init PROVE Kept /\ Recorded!Init
  OBVIOUS
<1>1. Len(<<>>) = 0 /\ DOMAIN <<>> = {}
  BY EmptySeq
<1>2. groups = <<>> /\ submission = Idle /\ submission.results = <<>> /\ assets = 0
  BY DEF Init, Idle
<1>3. \A i \in Rows : Row(i) = <<>>
  BY <1>1, <1>2 DEF Rows, Row
<1>4. ResultsAreCopies /\ AssetsExist /\ AssetsDiffer
  BY <1>1, <1>3 DEF ResultsAreCopies, AssetsExist, AssetsDiffer
<1>5. SubmissionFits
  BY <1>1, <1>2, ConstantsAssumption DEF SubmissionFits, Idle
<1>6. Log = <<>>
  BY <1>1, <1>2 DEF Log
<1> QED
  BY <1>2, <1>4, <1>5, <1>6 DEF Kept, Recorded!Init

\* Results stay apart from what code holds (itxn.py:184-190): the strengthening
\* that makes the refinement inductive.
LEMMA Invariant == Spec => []IInv
<1>1. Init => IInv
  BY InitType, InitKept DEF IInv, Kept
<1>2. IInv /\ [Next]_vars => IInv'
  BY TypeInvariantStep, Step DEF IInv, Kept
<1> QED
  BY <1>1, <1>2, PTL DEF Spec

\* Whatever objects are staged twice, reused, changed or copied, the recorded
\* groups implement the log of ItxnLog: append-only, with an asset of its own
\* for every asset creation (itxn.py:123-126 and 168-190).
THEOREM ImplementsLog == Spec => RecordsItxns
<1>1. Init => Recorded!Init
  BY InitKept
<1>2. IInv /\ [Next]_vars => [Recorded!Next]_<<Log, assets>>
  BY Step DEF RecordedVars
<1> QED
  BY <1>1, <1>2, Invariant, PTL DEF Spec, RecordsItxns, Recorded!Spec

-----------------------------------------------------------------------------
(* What is staged is recorded. While a group is being submitted each       *)
(* result so far equals the transaction it came from but for the asset     *)
(* that was created: an object that is in the group twice is handled       *)
(* twice, and the second time no other field of it changes.                *)

Same(f, g) == [f EXCEPT !.created = 0] = [g EXCEPT !.created = 0]

\* The handler of its type leaves f as it is, but for the asset.
Settled(f) == CreatesAsset(f) \/ ~(f.type = AssetTransfer /\ f.assetSender = NoSender)

RecordedSoFar ==
  submission.busy =>
    /\ submission.staged => submission.items = staged
    /\ \A j \in 1..Len(submission.results) :
         /\ Same(heap[submission.results[j]], heap[submission.items[j]])
         /\ Settled(heap[submission.items[j]])

LEMMA HandledOnce ==
  ASSUME NEW f \in Fields
  PROVE  /\ Settled(Handle(f))
         /\ Settled(f) => Same(Handle(f), f)
<1>1. CASE CreatesAsset(f)
  BY <1>1 DEF Settled, Same, Handle, CreatesAsset, Fields
<1>2. CASE ~CreatesAsset(f) /\ f.type = AssetTransfer /\ f.assetSender = NoSender
  <2>1. f.sender # NoSender
    BY ConstantsAssumption DEF Fields
  <2>2. Handle(f) = [f EXCEPT !.assetSender = f.sender]
    BY <1>2 DEF Handle
  <2>3. Handle(f).assetSender = f.sender
    BY <2>2 DEF Fields
  <2> QED
    BY <1>2, <2>1, <2>3 DEF Settled
<1>3. CASE ~CreatesAsset(f) /\ ~(f.type = AssetTransfer /\ f.assetSender = NoSender)
  <2>1. Handle(f) = f
    BY <1>3 DEF Handle
  <2> QED
    BY <1>3, <2>1 DEF Settled, Same
<1> QED
  BY <1>1, <1>2, <1>3

LEMMA HandledSoFar ==
  ASSUME IInv, RecordedSoFar, SubmitItem
  PROVE  RecordedSoFar'
<1> DEFINE m == Len(submission.results)
           f == Handle(heap[Item])
<1>1. /\ TypeOK /\ ResultsAreCopies /\ submission.busy
      /\ m < Len(submission.items)
  BY DEF IInv, SubmitItem, Ready
<1>2. CASE submission' = Idle
  BY <1>2 DEF RecordedSoFar, Idle
<1>3. CASE Result(f) /\ UNCHANGED <<staged, groups>>
  <2>1. /\ Item \in 1..Len(heap) /\ heap[Item] \in Fields /\ m + 1 \in 1..Len(submission.items)
        /\ m \in Nat /\ Len(heap) \in Nat
        /\ submission.items \in Seq(1..Len(heap)) /\ submission.results \in Seq(1..Len(heap))
    BY <1>1, ItemType DEF TypeOK
  <2>2. f \in Fields /\ Settled(f) /\ (Settled(heap[Item]) => Same(f, heap[Item]))
    <3>1. assets \in Nat
      BY <1>1 DEF TypeOK
    <3>2. f \in Fields
      BY <2>1, <3>1, HandleType
    <3> QED
      BY <2>1, <3>2, HandledOnce
  <2> HIDE DEF f
  <2>3. /\ \A r \in 1..Len(heap) : r # Item => heap'[r] = heap[r]
        /\ heap'[Len(heap) + 1] = f
        /\ submission' = [busy |-> submission.busy, items |-> submission.items,
                          results |-> Append(submission.results, Len(heap) + 1),
                          staged |-> submission.staged]
    BY <1>1, <1>3, <2>2, ResultEffect
  <2>4. heap'[Item] = f
    <3>1. heap' = Append([heap EXCEPT ![Item] = f], f) /\ heap \in Seq(Fields)
      BY <1>1, <1>3 DEF Result, TypeOK
    <3> DEFINE h == [heap EXCEPT ![Item] = f]
    <3>2. h \in Seq(Fields) /\ Len(h) = Len(heap) /\ h[Item] = f
      BY <2>1, <2>2, <3>1, ExceptSeq
    <3>3. heap' = Append(h, f)
      BY <3>1
    <3> HIDE DEF h
    <3> QED
      BY <2>1, <2>2, <3>2, <3>3, AppendProperties
  <2>5. /\ submission'.items = submission.items /\ submission'.staged = submission.staged
        /\ submission'.results = Append(submission.results, Len(heap) + 1)
    BY <2>3
  <2>6. /\ Len(submission'.results) = m + 1 /\ submission'.results[m + 1] = Len(heap) + 1
        /\ \A j \in 1..m : submission'.results[j] = submission.results[j]
    <3>1. submission.results \in Seq(Nat) /\ Len(heap) + 1 \in Nat
      BY <2>1
    <3> QED
      BY <2>5, <3>1, AppendProperties
  <2>7. ASSUME NEW j \in 1..m
        PROVE  /\ Same(heap'[submission.results[j]], heap'[submission.items[j]])
               /\ Settled(heap'[submission.items[j]])
    <3>1. /\ Same(heap[submission.results[j]], heap[submission.items[j]])
          /\ Settled(heap[submission.items[j]])
      BY <1>1 DEF RecordedSoFar
    <3>2. submission.results[j] \in 1..Len(heap) /\ submission.results[j] \notin Held
      <4>1. Len(groups) + 1 \in Rows /\ Row(Len(groups) + 1) = submission.results
        BY <1>1, LenProperties DEF Rows, Row, TypeOK
      <4> QED
        BY <1>1, <2>1, <4>1, RowType DEF ResultsAreCopies
    <3>3. Item \in Held
      BY <2>1 DEF Held, Item
    <3>4. heap'[submission.results[j]] = heap[submission.results[j]]
      BY <2>3, <3>2, <3>3
    <3>5. submission.items[j] \in 1..Len(heap)
      <4>1. Len(submission.items) \in Nat
        BY <2>1
      <4>2. j \in 1..Len(submission.items)
        BY <1>1, <2>1, <4>1
      <4> QED
        BY <2>1, <4>2, ElementOfSeq
    <3>6. CASE submission.items[j] = Item
      BY <2>2, <2>4, <3>1, <3>4, <3>6 DEF Same
    <3>7. CASE submission.items[j] # Item
      BY <2>3, <3>1, <3>4, <3>5, <3>7
    <3> QED
      BY <3>6, <3>7
  <2>8. /\ heap'[submission'.results[m + 1]] = f /\ heap'[submission.items[m + 1]] = f
    BY <2>3, <2>4, <2>6 DEF Item
  <2>9. ASSUME NEW j \in 1..(m + 1)
        PROVE  /\ Same(heap'[submission'.results[j]], heap'[submission.items[j]])
               /\ Settled(heap'[submission.items[j]])
    <3>1. CASE j = m + 1
      BY <2>2, <2>8, <3>1 DEF Same
    <3>2. CASE j # m + 1
      <4>1. j \in 1..m
        BY <2>1, <3>2
      <4> QED
        BY <2>6, <2>7, <4>1
    <3> QED
      BY <3>1, <3>2
  <2>10. submission'.staged => submission'.items = staged'
    BY <1>1, <1>3, <2>5 DEF RecordedSoFar
  <2> HIDE DEF m
  <2> QED
    BY <2>5, <2>6, <2>9, <2>10 DEF RecordedSoFar
<1> QED
  BY <1>2, <1>3 DEF SubmitItem

LEMMA SubmitStarts ==
  ASSUME NEW items, NEW isStaged \in BOOLEAN, Submit(items, isStaged),
         isStaged => items = staged
  PROVE  RecordedSoFar'
<1>1. CASE /\ submission' = [busy |-> TRUE, items |-> items, results |-> <<>>,
                             staged |-> isStaged]
           /\ UNCHANGED staged
  <2>1. /\ submission'.items = items /\ submission'.results = <<>>
        /\ submission'.staged = isStaged
    BY <1>1
  <2>2. Len(<<>>) = 0
    BY EmptySeq
  <2> QED
    BY <1>1, <2>1, <2>2 DEF RecordedSoFar
<1>2. CASE UNCHANGED submission
  BY <1>2 DEF Submit, Ready, RecordedSoFar
<1> QED
  BY <1>1, <1>2 DEF Submit

LEMMA RecordedStep ==
  ASSUME IInv, RecordedSoFar, [Next]_vars
  PROVE  RecordedSoFar'
<1>1. CASE Ready /\ UNCHANGED submission
  BY <1>1 DEF Ready, RecordedSoFar
<1>2. ASSUME NEW items \in Arguments, Submit(items, FALSE) PROVE RecordedSoFar'
  BY <1>2, SubmitStarts
<1>3. CASE SubmitStaged
  BY <1>1, <1>3, SubmitStarts DEF SubmitStaged
<1>4. CASE FinishSubmit
  BY <1>4 DEF FinishSubmit, RecordedSoFar, Idle
<1>5. CASE UNCHANGED vars
  BY <1>5 DEF vars, RecordedSoFar
<1>6. \/ Ready /\ UNCHANGED submission
      \/ \E items \in Arguments : Submit(items, FALSE)
      \/ SubmitStaged \/ SubmitItem \/ FinishSubmit \/ UNCHANGED vars
  BY DEF Next, New, OpSet, Set, Copy, OpStage, Stage
<1> QED
  BY <1>1, <1>2, <1>3, <1>4, <1>5, <1>6, HandledSoFar

LEMMA RecordedInvariant == Spec => [](IInv /\ RecordedSoFar)
<1>1. Init => RecordedSoFar
  BY DEF Init, Idle, RecordedSoFar
<1>2. IInv /\ RecordedSoFar /\ [Next]_vars => RecordedSoFar'
  BY RecordedStep
<1> QED
  BY <1>1, <1>2, Invariant, PTL DEF Spec

\* What was staged is only forgotten once it is recorded, transaction by
\* transaction (itxn.py:119-128, txn_context.py:351).
THEOREM StagedRecorded == Spec => StagedAreRecorded
<1> DEFINE Recording ==
      staged # <<>> /\ staged' = <<>> =>
        /\ Len(groups') = Len(groups) + 1
        /\ Len(groups'[Len(groups')]) = Len(staged)
        /\ \A i \in DOMAIN staged :
             LET result == heap[groups'[Len(groups')][i]]
             IN  [result EXCEPT !.created = 0] = [heap[staged[i]] EXCEPT !.created = 0]
<1>1. ASSUME IInv, RecordedSoFar, [Next]_vars PROVE Recording
  <2>1. TypeOK
    BY <1>1 DEF IInv
  <2>2. CASE staged' = staged
    BY <2>2
  <2>3. ASSUME NEW o, staged' = Append(staged, o) PROVE Recording
    <3>1. staged \in Seq(1..Len(heap))
      BY <2>1 DEF TypeOK
    <3>2. staged' # <<>>
      BY <2>3, <3>1
    <3> QED
      BY <3>2
  <2>4. CASE FinishSubmit
    <3> SUFFICES ASSUME staged # <<>>, staged' = <<>>
                 PROVE  /\ Len(groups') = Len(groups) + 1
                        /\ Len(groups'[Len(groups')]) = Len(staged)
                        /\ \A i \in DOMAIN staged :
                             Same(heap[groups'[Len(groups')][i]], heap[staged[i]])
      BY DEF Same
    <3>1. /\ submission.busy /\ submission.staged
          /\ Len(submission.results) = Len(submission.items)
          /\ groups' = Append(groups, submission.results)
      BY <2>4 DEF FinishSubmit, StillStaged, Ready
    <3>2. /\ submission.items = staged /\ staged \in Seq(1..Len(heap))
          /\ groups \in Seq(Seq(1..Len(heap))) /\ submission.results \in Seq(1..Len(heap))
      BY <1>1, <2>1, <3>1 DEF RecordedSoFar, TypeOK
    <3>3. /\ Len(groups') = Len(groups) + 1
          /\ groups'[Len(groups) + 1] = submission.results
      BY <3>1, <3>2, AppendProperties
    <3>4. DOMAIN staged = 1..Len(submission.results)
      BY <3>1, <3>2
    <3>5. \A i \in DOMAIN staged : Same(heap[submission.results[i]], heap[staged[i]])
      BY <1>1, <3>1, <3>2, <3>4 DEF RecordedSoFar
    <3> QED
      BY <3>1, <3>2, <3>3, <3>5
  <2>5. staged' = staged \/ (\E o : staged' = Append(staged, o)) \/ FinishSubmit
    BY <1>1 DEF Next, New, OpSet, Set, Copy, OpStage, Stage, Submit, SubmitStaged,
                SubmitItem, Raise, vars
  <2> HIDE DEF Recording
  <2> QED
    BY <2>2, <2>3, <2>4, <2>5
<1>2. IInv /\ RecordedSoFar /\ [Next]_vars => [Recording]_vars
  BY <1>1
<1> QED
  BY <1>2, RecordedInvariant, PTL DEF Spec, StagedAreRecorded
=============================================================================
