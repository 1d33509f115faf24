--------------------------- MODULE BoxStoreProofs ---------------------------
(* Proofs about boxes, for every set of applications and keys and every    *)
(* MAX_BOX_SIZE.                                                           *)
EXTENDS BoxStore, SequenceTheorems, TLAPS

-----------------------------------------------------------------------------
(* Contents.                                                               *)

LEMMA ContentsAreSeqs ==
  \A s : s \in Contents <=> s \in Seq(Bytes) /\ Len(s) <= MaxBoxSize
<1>1. ASSUME NEW s, s \in Contents PROVE s \in Seq(Bytes) /\ Len(s) <= MaxBoxSize
  <2>1. PICK n \in 0..MaxBoxSize : s \in [1..n -> Bytes]
    BY <1>1 DEF Contents
  <2>2. n \in Nat /\ n <= MaxBoxSize
    BY <2>1, ConstantsAssumption
  <2>3. s \in Seq(Bytes)
    BY <2>1, <2>2, SeqDef
  <2>4. Len(s) = n
    BY <2>1, <2>2, <2>3, LenProperties
  <2> QED
    BY <2>2, <2>3, <2>4
<1>2. ASSUME NEW s, s \in Seq(Bytes), Len(s) <= MaxBoxSize PROVE s \in Contents
  <2>1. Len(s) \in 0..MaxBoxSize /\ s \in [1..Len(s) -> Bytes]
    BY <1>2, LenProperties, ConstantsAssumption
  <2> QED
    BY <2>1 DEF Contents
<1> QED
  BY <1>1, <1>2

LEMMA ZerosBytes ==
  ASSUME NEW n \in Nat
  PROVE  /\ Zeros(n) \in Seq(Bytes) /\ Len(Zeros(n)) = n
         /\ \A i \in 1..n : Zeros(n)[i] = 0
<1>1. Zeros(n) \in [1..n -> Bytes]
  BY ConstantsAssumption DEF Zeros
<1>2. Zeros(n) \in Seq(Bytes)
  BY <1>1, SeqDef
<1> QED
  BY <1>1, <1>2, LenProperties DEF Zeros

LEMMA ValuesAreSeqs == \A v \in Values : v \in Seq(Bytes)
<1>1. MaxBoxSize + 1 \in Nat
  BY ConstantsAssumption
<1>2. Zeros(MaxBoxSize + 1) \in Seq(Bytes)
  BY <1>1, ZerosBytes
<1> QED
  BY <1>2, ContentsAreSeqs DEF Values

LEMMA TakeBytes ==
  ASSUME NEW s \in Seq(Bytes), NEW n \in 0..Len(s)
  PROVE  /\ Take(s, n) \in Seq(Bytes) /\ Len(Take(s, n)) = n
         /\ \A i \in 1..n : Take(s, n)[i] = s[i]
<1>1. n \in Nat /\ \A i \in 1..n : s[i] \in Bytes
  BY ElementOfSeq
<1>2. /\ SubSeq(s, 1, n) \in Seq(Bytes)
      /\ Len(SubSeq(s, 1, n)) = IF 1 <= n THEN n - 1 + 1 ELSE 0
      /\ \A i \in 1..(n - 1 + 1) : SubSeq(s, 1, n)[i] = s[1 + i - 1]
  BY <1>1, SubSeqProperties
<1> HIDE DEF Take
<1>3. Take(s, n) \in Seq(Bytes) /\ Len(Take(s, n)) = n
  BY <1>1, <1>2 DEF Take
<1>4. ASSUME NEW i \in 1..n PROVE Take(s, n)[i] = s[i]
  BY <1>1, <1>2 DEF Take
<1> QED
  BY <1>3, <1>4

LEMMA DropBytes ==
  ASSUME NEW s \in Seq(Bytes), NEW n \in 0..Len(s)
  PROVE  /\ Drop(s, n) \in Seq(Bytes) /\ Len(Drop(s, n)) = Len(s) - n
         /\ \A i \in 1..(Len(s) - n) : Drop(s, n)[i] = s[n + i]
<1> DEFINE l == Len(s)
           d == SubSeq(s, n + 1, l)
<1>1. n \in Nat /\ l \in Nat /\ n <= l /\ \A i \in 1..l : s[i] \in Bytes
  BY ElementOfSeq
<1> HIDE DEF l
<1>2. \A i \in (n + 1)..l : s[i] \in Bytes
  BY <1>1
<1>3. /\ d \in Seq(Bytes)
      /\ Len(d) = IF n + 1 <= l THEN l - (n + 1) + 1 ELSE 0
      /\ \A i \in 1..(l - (n + 1) + 1) : d[i] = s[n + 1 + i - 1]
  BY <1>1, <1>2, SubSeqProperties
<1> HIDE DEF d
<1>4. d \in Seq(Bytes) /\ Len(d) = l - n
  BY <1>1, <1>3
<1>5. ASSUME NEW i \in 1..(l - n) PROVE d[i] = s[n + i]
  <2>1. i \in 1..(l - (n + 1) + 1) /\ n + 1 + i - 1 = n + i
    BY <1>1
  <2> QED
    BY <1>3, <2>1
<1> QED
  BY <1>4, <1>5 DEF Drop, d, l

LEMMA ResizedBytes ==
  ASSUME NEW s \in Seq(Bytes), NEW n \in Nat
  PROVE  /\ Resized(s, n) \in Seq(Bytes) /\ Len(Resized(s, n)) = n
         /\ \A i \in 1..n : Resized(s, n)[i] = IF i <= Len(s) THEN s[i] ELSE 0
<1>0. Len(s) \in Nat
  OBVIOUS
<1>1. CASE n > Len(s)
  <2> DEFINE z == Zeros(n - Len(s))
  <2>1. /\ z \in Seq(Bytes) /\ Len(z) = n - Len(s)
        /\ \A i \in 1..(n - Len(s)) : z[i] = 0
    <3>1. n - Len(s) \in Nat
      BY <1>0, <1>1
    <3> QED
      BY <3>1, ZerosBytes
  <2>2. Resized(s, n) = s \o z
    BY <1>1 DEF Resized
  <2> HIDE DEF z
  <2>3. /\ s \o z \in Seq(Bytes) /\ Len(s \o z) = n
        /\ \A i \in 1..n : (s \o z)[i] = IF i <= Len(s) THEN s[i] ELSE z[i - Len(s)]
    BY <1>0, <2>1, ConcatProperties
  <2>4. ASSUME NEW i \in 1..n PROVE (s \o z)[i] = IF i <= Len(s) THEN s[i] ELSE 0
    <3>1. ~(i <= Len(s)) => i - Len(s) \in 1..(n - Len(s))
      BY <1>0
    <3> QED
      BY <2>1, <2>3, <3>1
  <2> QED
    BY <2>2, <2>3, <2>4
<1>2. CASE ~(n > Len(s))
  <2>1. n \in 0..Len(s) /\ Resized(s, n) = Take(s, n)
    BY <1>0, <1>2 DEF Resized
  <2> QED
    BY <2>1, TakeBytes
<1> QED
  BY <1>1, <1>2

\* What an operation that changes a part of a box makes of it.
LEMMA JoinedBytes ==
  ASSUME NEW s \in Seq(Bytes), NEW v \in Seq(Bytes),
         NEW start \in 0..Len(s), NEW from \in 0..Len(s)
  PROVE  LET t == Joined(s, start, v, from)
         IN  /\ t \in Seq(Bytes) /\ Len(t) = start + Len(v) + (Len(s) - from)
             /\ \A i \in 1..Len(t) :
                  t[i] = IF i <= start THEN s[i]
                         ELSE IF i <= start + Len(v) THEN v[i - start]
                         ELSE s[i - start - Len(v) + from]
<1> DEFINE h == Take(s, start)
           d == Drop(s, from)
           hv == h \o v
           l == Len(s)
           m == Len(v)
<1>1. l \in Nat /\ m \in Nat /\ start \in Nat /\ from \in Nat /\ start <= l /\ from <= l
  OBVIOUS
<1>2. /\ h \in Seq(Bytes) /\ Len(h) = start
      /\ \A i \in 1..start : h[i] = s[i]
  BY TakeBytes
<1>3. /\ d \in Seq(Bytes) /\ Len(d) = l - from
      /\ \A i \in 1..(l - from) : d[i] = s[from + i]
  BY DropBytes
<1> HIDE DEF h, d
<1>4. /\ hv \in Seq(Bytes) /\ Len(hv) = start + m
      /\ \A i \in 1..(start + m) : hv[i] = IF i <= start THEN h[i] ELSE v[i - start]
  BY <1>2, ConcatProperties
<1> HIDE DEF hv
<1>5. /\ hv \o d \in Seq(Bytes) /\ Len(hv \o d) = start + m + (l - from)
      /\ \A i \in 1..(start + m + (l - from)) :
           (hv \o d)[i] = IF i <= start + m THEN hv[i] ELSE d[i - (start + m)]
  <2>1. /\ hv \o d \in Seq(Bytes) /\ Len(hv \o d) = Len(hv) + Len(d)
        /\ \A i \in 1..(Len(hv) + Len(d)) :
             (hv \o d)[i] = IF i <= Len(hv) THEN hv[i] ELSE d[i - Len(hv)]
    BY <1>3, <1>4, ConcatProperties
  <2> QED
    BY <1>3, <1>4, <2>1
<1> DEFINE t == hv \o d
<1> HIDE DEF t, l, m
<1>6. ASSUME NEW i \in 1..(start + m + (l - from))
      PROVE  t[i] = IF i <= start THEN s[i]
                    ELSE IF i <= start + m THEN v[i - start] ELSE s[i - start - m + from]
  <2>1. CASE i <= start + m
    <3>1. i \in 1..(start + m) /\ (i <= start => i \in 1..start)
      BY <1>1, <2>1
    <3> QED
      BY <1>2, <1>4, <1>5, <2>1, <3>1 DEF t
  <2>2. CASE ~(i <= start + m)
    <3>1. i - (start + m) \in 1..(l - from) /\ ~(i <= start)
      BY <1>1, <2>2
    <3>2. from + (i - (start + m)) = i - start - m + from
      BY <1>1
    <3>3. t[i] = s[from + (i - (start + m))]
      BY <1>3, <1>5, <2>2, <3>1 DEF t
    <3> QED
      BY <2>2, <3>1, <3>2, <3>3
  <2> QED
    BY <2>1, <2>2
<1> QED
  BY <1>5, <1>6 DEF Joined, t, hv, h, d, l, m

LEMMA ReplacedBytes ==
  ASSUME NEW s \in Seq(Bytes), NEW v \in Seq(Bytes), NEW start \in Nat,
         start + Len(v) <= Len(s)
  PROVE  /\ Replaced(s, start, v) \in Seq(Bytes) /\ Len(Replaced(s, start, v)) = Len(s)
         /\ \A i \in 1..Len(s) :
              Replaced(s, start, v)[i] = IF i \in (start + 1)..(start + Len(v))
                                         THEN v[i - start] ELSE s[i]
<1> DEFINE l == Len(s)
           m == Len(v)
           t == Replaced(s, start, v)
<1>1. l \in Nat /\ m \in Nat /\ start \in 0..l /\ start + m \in 0..l
  OBVIOUS
<1>2. /\ t \in Seq(Bytes) /\ Len(t) = start + m + (l - (start + m))
      /\ \A i \in 1..Len(t) :
           t[i] = IF i <= start THEN s[i]
                  ELSE IF i <= start + m THEN v[i - start]
                  ELSE s[i - start - m + (start + m)]
  BY <1>1, JoinedBytes DEF Replaced
<1> HIDE DEF l, m, t
<1>3. Len(t) = l
  BY <1>1, <1>2
<1>4. ASSUME NEW i \in 1..l
      PROVE  t[i] = IF i \in (start + 1)..(start + m) THEN v[i - start] ELSE s[i]
  <2>1. i - start - m + (start + m) = i
    BY <1>1
  <2>2. t[i] = IF i <= start THEN s[i]
               ELSE IF i <= start + m THEN v[i - start] ELSE s[i]
    BY <1>2, <1>3, <2>1
  <2>3. i \in (start + 1)..(start + m) <=> ~(i <= start) /\ i <= start + m
    BY <1>1
  <2> QED
    BY <2>2, <2>3
<1> QED
  BY <1>2, <1>3, <1>4 DEF l, m, t

LEMMA SplicedBytes ==
  ASSUME NEW s \in Seq(Bytes), NEW v \in Seq(Bytes), NEW start \in 0..Len(s), NEW count \in Nat
  PROVE  /\ Spliced(s, start, count, v) \in Seq(Bytes)
         /\ Len(Spliced(s, start, count, v)) = Len(s)
         /\ \A i \in 1..Len(s) :
              Spliced(s, start, count, v)[i] =
                IF i <= start THEN s[i]
                ELSE IF i <= start + Len(v) THEN v[i - start]
                ELSE IF i - Len(v) + count <= Len(s) THEN s[i - Len(v) + count]
                ELSE 0
<1> DEFINE l == Len(s)
           m == Len(v)
           end == IF start + count < l THEN start + count ELSE l
           t == Joined(s, start, v, end)
           r == Resized(t, l)
<1>1. l \in Nat /\ m \in Nat /\ start \in Nat /\ start <= l /\ end \in 0..l
  OBVIOUS
<1>5. end = IF start + count < l THEN start + count ELSE l
  OBVIOUS
<1> HIDE DEF end
<1>2. /\ t \in Seq(Bytes) /\ Len(t) = start + m + (l - end)
      /\ \A i \in 1..Len(t) :
           t[i] = IF i <= start THEN s[i]
                  ELSE IF i <= start + m THEN v[i - start]
                  ELSE s[i - start - m + end]
  BY <1>1, JoinedBytes
<1>3. Spliced(s, start, count, v) = r
  BY DEF Spliced, end
<1> HIDE DEF t
<1>4. /\ r \in Seq(Bytes) /\ Len(r) = l
      /\ \A i \in 1..l : r[i] = IF i <= Len(t) THEN t[i] ELSE 0
  BY <1>1, <1>2, ResizedBytes
<1> HIDE DEF r, l, m
<1>6. ASSUME NEW i \in 1..l
      PROVE  r[i] = IF i <= start THEN s[i]
                    ELSE IF i <= start + m THEN v[i - start]
                    ELSE IF i - m + count <= l THEN s[i - m + count] ELSE 0
  <2>1. CASE i <= start + m
    <3>1. i \in 1..Len(t)
      BY <1>1, <1>2, <2>1
    <3> QED
      BY <1>2, <1>4, <2>1, <3>1
  <2>2. CASE ~(i <= start + m) /\ start + count < l
    <3>1. end = start + count /\ ~(i <= start)
      BY <1>1, <1>5, <2>2
    <3>2. i - start - m + end = i - m + count
      BY <1>1, <3>1
    <3>3. i <= Len(t) <=> i - m + count <= l
      BY <1>1, <1>2, <3>1
    <3>4. i <= Len(t) => i \in 1..Len(t)
      BY <1>1, <1>2, <3>1
    <3> QED
      BY <1>2, <1>4, <2>2, <3>1, <3>2, <3>3, <3>4
  <2>3. CASE ~(i <= start + m) /\ ~(start + count < l)
    <3>1. end = l /\ ~(i <= start)
      BY <1>1, <1>5, <2>3
    <3>2. ~(i <= Len(t)) /\ ~(i - m + count <= l)
      BY <1>1, <1>2, <2>3, <3>1
    <3> QED
      BY <1>4, <2>3, <3>1, <3>2
  <2> QED
    BY <2>1, <2>2, <2>3
<1> QED
  BY <1>3, <1>4, <1>6 DEF l, m

-----------------------------------------------------------------------------
(* Every call either leaves the boxes alone, or changes one of them in one *)
(* of the ways Changed allows.                                             *)

\* The new content of a box, or its absence, by the kind of call.
Changed(a, k, t, op) ==
  LET s == boxes[a][k]
  IN  \/ t = Missing /\ op = "delete"
      \/ t \in Contents /\ op \in {"set", "assign"}
      \/ t \in Contents /\ op = "create" /\ Content(a, k) = <<>>
      \/ /\ t \in Contents /\ op = "put"
         /\ Content(a, k) # <<>> => Len(t) = Len(Content(a, k))
      \/ t \in Contents /\ op \in {"replace", "splice"} /\ s # Missing /\ Len(t) = Len(s)
      \/ /\ t \in Contents /\ op = "resize" /\ s # Missing
         /\ \A i \in 1..Len(t) : t[i] = IF i <= Len(s) THEN s[i] ELSE 0

OneBox(a, k) ==
  \E t : /\ Changed(a, k, t, reply'.op)
         /\ boxes' = [boxes EXCEPT ![a][k] = t]

BoxStep ==
  /\ reply' \in Replies
  /\ boxes' = boxes \/ \E a \in Apps, k \in Names : OneBox(a, k)

IsReply(by, box, op, is) == [by |-> by, box |-> box, op |-> op, is |-> is] \in Replies

LEMMA SaysStep ==
  ASSUME NEW by, NEW box, NEW op, NEW is, IsReply(by, box, op, is), Says(by, box, op, is)
  PROVE  BoxStep
  BY DEF IsReply, Says, Reply, BoxStep

LEMMA WriteStep ==
  ASSUME NEW by, NEW box, NEW op, NEW is, IsReply(by, box, op, is), Reply(by, box, op, is),
         NEW a \in Apps, NEW k \in Names, NEW s \in Seq(Bytes), Write(a, k, s),
         s \in Contents => Changed(a, k, s, op)
  PROVE  BoxStep
<1>1. s \in Contents
  BY ContentsAreSeqs DEF Write
<1>2. reply' \in Replies /\ reply'.op = op
  BY DEF Reply, IsReply
<1>3. OneBox(a, k)
  BY <1>1, <1>2 DEF OneBox, Write
<1> QED
  BY <1>2, <1>3 DEF BoxStep

LEMMA RemoveStep ==
  ASSUME NEW by, NEW box, NEW is, IsReply(by, box, "delete", is),
         Reply(by, box, "delete", is), NEW a \in Apps, NEW k \in Names, Remove(a, k)
  PROVE  BoxStep
<1>1. reply' \in Replies /\ reply'.op = "delete"
  BY DEF Reply, IsReply
<1>2. OneBox(a, k)
  BY <1>1 DEF OneBox, Remove, Changed
<1> QED
  BY <1>1, <1>2 DEF BoxStep

LEMMA PutStep ==
  ASSUME NEW by, NEW box, NEW op, IsReply(by, box, op, "done"), IsReply(by, box, op, "size"),
         NEW a \in Apps, NEW k \in Names, NEW s \in Seq(Bytes), Put(by, box, op, a, k, s),
         s \in Contents => Changed(a, k, s, op)
  PROVE  BoxStep
<1>1. CASE Write(a, k, s) /\ Reply(by, box, op, "done")
  BY <1>1, WriteStep
<1>2. CASE Says(by, box, op, "size")
  BY <1>2, SaysStep
<1> QED
  BY <1>1, <1>2 DEF Put

LEMMA ContentType ==
  ASSUME TypeOK, NEW a \in Apps, NEW k \in Names
  PROVE  /\ Content(a, k) \in Seq(Bytes) /\ Len(Content(a, k)) \in Nat
         /\ Exists(a, k) => boxes[a][k] = Content(a, k)
         /\ ~Exists(a, k) => Content(a, k) = <<>>
<1>1. boxes[a][k] \in Contents \cup {Missing}
  BY DEF TypeOK
<1>2. <<>> \in Seq(Bytes)
  BY EmptySeq
<1>3. Content(a, k) \in Seq(Bytes)
  BY <1>1, <1>2, ContentsAreSeqs DEF Content, Exists
<1> QED
  BY <1>3, LenProperties DEF Content, Exists

Callers == {"Box", "BoxRef"}

Outcomes == {"done", "true", "false", "missing", "size", "bounds", "inactive"}

Ops == {"set", "delete", "create", "extract", "resize", "replace", "splice",
        "put", "assign", "value", "ref"}

LEMMA AnyReply ==
  \A by \in {"ledger", "op", "Box", "BoxRef"}, box \in Apps \X Names, op \in Ops, is \in Outcomes :
    IsReply(by, box, op, is)
  BY DEF IsReply, Replies, Ops, Outcomes

LEMMA CreateStep ==
  ASSUME TypeOK, NEW by \in Callers, NEW box \in Apps \X Names, NEW a \in Apps, NEW k \in Names,
         NEW n \in Nat, RefCreate(by, box, a, k, n)
  PROVE  BoxStep
<1>1. \A is \in Outcomes : IsReply(by, box, "create", is)
  BY AnyReply DEF Callers, Ops
<1>2. CASE \E is \in {"size", "false"} : Says(by, box, "create", is)
  BY <1>1, <1>2, SaysStep DEF Outcomes
<1>3. CASE ~Exists(a, k) /\ Write(a, k, Zeros(n)) /\ Reply(by, box, "create", "true")
  <2>1. Zeros(n) \in Seq(Bytes)
    BY ZerosBytes
  <2>2. Zeros(n) \in Contents => Changed(a, k, Zeros(n), "create")
    BY <1>3, ContentType DEF Changed
  <2> QED
    BY <1>1, <1>3, <2>1, <2>2, WriteStep DEF Outcomes
<1> QED
  BY <1>2, <1>3 DEF RefCreate

LEMMA DeleteStep ==
  ASSUME NEW by \in Callers, NEW box \in Apps \X Names, NEW a \in Apps, NEW k \in Names,
         RefDelete(by, box, a, k)
  PROVE  BoxStep
<1>1. \A is \in Outcomes : IsReply(by, box, "delete", is)
  BY AnyReply DEF Callers, Ops
<1>2. PICK is \in {"true", "false"} : Reply(by, box, "delete", is)
  BY DEF RefDelete
<1> QED
  BY <1>1, <1>2, RemoveStep DEF RefDelete, Outcomes

LEMMA ExtractStep ==
  ASSUME NEW by \in Callers, NEW box \in Apps \X Names, NEW a \in Apps, NEW k \in Names,
         NEW start, NEW n, RefExtract(by, box, a, k, start, n)
  PROVE  BoxStep
<1>1. \A is \in Outcomes : IsReply(by, box, "extract", is)
  BY AnyReply DEF Callers, Ops
<1>2. PICK is \in {"missing", "bounds", "done"} : Says(by, box, "extract", is)
  BY DEF RefExtract
<1> QED
  BY <1>1, <1>2, SaysStep DEF Outcomes

LEMMA ResizeChanges ==
  ASSUME TypeOK, NEW a \in Apps, NEW k \in Names, NEW n \in Nat, Exists(a, k)
  PROVE  LET t == Resized(Content(a, k), n)
         IN  t \in Seq(Bytes) /\ (t \in Contents => Changed(a, k, t, "resize"))
<1>1. /\ Content(a, k) \in Seq(Bytes) /\ boxes[a][k] = Content(a, k)
      /\ boxes[a][k] # Missing
  BY ContentType DEF Exists
<1>2. LET t == Resized(Content(a, k), n)
      IN  /\ t \in Seq(Bytes) /\ Len(t) = n
          /\ \A i \in 1..n : t[i] = IF i <= Len(Content(a, k)) THEN Content(a, k)[i] ELSE 0
  BY <1>1, ResizedBytes
<1> QED
  BY <1>1, <1>2 DEF Changed

LEMMA ReplaceChanges ==
  ASSUME TypeOK, NEW a \in Apps, NEW k \in Names, NEW start \in Nat, NEW v \in Seq(Bytes),
         Exists(a, k), start + Len(v) <= Len(Content(a, k))
  PROVE  LET t == Replaced(Content(a, k), start, v)
         IN  t \in Seq(Bytes) /\ (t \in Contents => Changed(a, k, t, "replace"))
<1>1. /\ Content(a, k) \in Seq(Bytes) /\ boxes[a][k] = Content(a, k)
      /\ boxes[a][k] # Missing
  BY ContentType DEF Exists
<1>2. LET t == Replaced(Content(a, k), start, v)
      IN  t \in Seq(Bytes) /\ Len(t) = Len(Content(a, k))
  BY <1>1, ReplacedBytes
<1> QED
  BY <1>1, <1>2 DEF Changed

LEMMA SpliceChanges ==
  ASSUME TypeOK, NEW a \in Apps, NEW k \in Names, NEW start \in Nat, NEW n \in Nat,
         NEW v \in Seq(Bytes), Exists(a, k), start <= Len(Content(a, k))
  PROVE  LET t == Spliced(Content(a, k), start, n, v)
         IN  t \in Seq(Bytes) /\ (t \in Contents => Changed(a, k, t, "splice"))
<1>1. /\ Content(a, k) \in Seq(Bytes) /\ boxes[a][k] = Content(a, k)
      /\ boxes[a][k] # Missing /\ start \in 0..Len(Content(a, k))
  BY ContentType DEF Exists
<1>2. LET t == Spliced(Content(a, k), start, n, v)
      IN  t \in Seq(Bytes) /\ Len(t) = Len(Content(a, k))
  BY <1>1, SplicedBytes
<1> QED
  BY <1>1, <1>2 DEF Changed

LEMMA ResizeStep ==
  ASSUME TypeOK, NEW by \in Callers, NEW box \in Apps \X Names, NEW a \in Apps, NEW k \in Names,
         NEW n \in Nat, RefResize(by, box, a, k, n)
  PROVE  BoxStep
<1>1. \A is \in Outcomes : IsReply(by, box, "resize", is)
  BY AnyReply DEF Callers, Ops
<1>2. CASE \E is \in {"size", "missing"} : Says(by, box, "resize", is)
  BY <1>1, <1>2, SaysStep DEF Outcomes
<1>3. CASE Exists(a, k) /\ Put(by, box, "resize", a, k, Resized(Content(a, k), n))
  BY <1>1, <1>3, ResizeChanges, PutStep DEF Outcomes
<1> QED
  BY <1>2, <1>3 DEF RefResize

LEMMA ReplaceStep ==
  ASSUME TypeOK, NEW by \in Callers, NEW box \in Apps \X Names, NEW a \in Apps, NEW k \in Names,
         NEW start \in Nat, NEW v \in Seq(Bytes), RefReplace(by, box, a, k, start, v)
  PROVE  BoxStep
<1>1. \A is \in Outcomes : IsReply(by, box, "replace", is)
  BY AnyReply DEF Callers, Ops
<1>2. CASE \E is \in {"bounds", "missing"} : Says(by, box, "replace", is)
  BY <1>1, <1>2, SaysStep DEF Outcomes
<1>3. CASE /\ Exists(a, k) /\ start + Len(v) <= Len(Content(a, k))
           /\ Put(by, box, "replace", a, k, Replaced(Content(a, k), start, v))
  BY <1>1, <1>3, ReplaceChanges, PutStep DEF Outcomes
<1> QED
  BY <1>2, <1>3 DEF RefReplace

LEMMA SpliceStep ==
  ASSUME TypeOK, NEW by \in Callers, NEW box \in Apps \X Names, NEW a \in Apps, NEW k \in Names,
         NEW start \in Nat, NEW n \in Nat, NEW v \in Seq(Bytes),
         RefSplice(by, box, a, k, start, n, v)
  PROVE  BoxStep
<1>1. \A is \in Outcomes : IsReply(by, box, "splice", is)
  BY AnyReply DEF Callers, Ops
<1>2. CASE \E is \in {"bounds", "missing"} : Says(by, box, "splice", is)
  BY <1>1, <1>2, SaysStep DEF Outcomes
<1>3. CASE /\ Exists(a, k) /\ start <= Len(Content(a, k))
           /\ Put(by, box, "splice", a, k, Spliced(Content(a, k), start, n, v))
  BY <1>1, <1>3, SpliceChanges, PutStep DEF Outcomes
<1> QED
  BY <1>2, <1>3 DEF RefSplice

LEMMA RefPutStep ==
  ASSUME TypeOK, NEW by \in Callers, NEW box \in Apps \X Names, NEW a \in Apps, NEW k \in Names,
         NEW v \in Seq(Bytes), RefPut(by, box, a, k, v)
  PROVE  BoxStep
<1>1. \A is \in Outcomes : IsReply(by, box, "put", is)
  BY AnyReply DEF Callers, Ops
<1>2. CASE Says(by, box, "put", "size")
  BY <1>1, <1>2, SaysStep DEF Outcomes
<1>3. CASE /\ Exists(a, k) => Len(Content(a, k)) = Len(v)
           /\ Put(by, box, "put", a, k, v)
  <2>1. v \in Contents => Changed(a, k, v, "put")
    BY <1>3, ContentType DEF Changed
  <2> QED
    BY <1>1, <1>3, <2>1, PutStep DEF Outcomes
<1> QED
  BY <1>2, <1>3 DEF RefPut

-----------------------------------------------------------------------------
(* The callers of these operations.                                        *)

LEMMA Bounds ==
  /\ \A n \in Sizes : n \in Nat
  /\ \A v \in Values : v \in Seq(Bytes) /\ Len(v) \in Nat
  BY ValuesAreSeqs, LenProperties, ConstantsAssumption DEF Sizes

LEMMA BoxRefStep ==
  ASSUME TypeOK, NEW h \in Apps \X Names, BoxRefCall(h)
  PROVE  BoxStep
<1>1. h[1] \in Apps /\ h[2] \in Names /\ "BoxRef" \in Callers
  BY DEF Callers
<1>2. CASE \E n \in Sizes : RefCreate("BoxRef", h, h[1], h[2], n)
  BY <1>1, <1>2, Bounds, CreateStep
<1>3. CASE \E n \in Sizes : RefResize("BoxRef", h, h[1], h[2], n)
  BY <1>1, <1>3, Bounds, ResizeStep
<1>4. CASE RefDelete("BoxRef", h, h[1], h[2])
  BY <1>1, <1>4, DeleteStep
<1>5. CASE \E start \in Sizes, n \in Sizes : RefExtract("BoxRef", h, h[1], h[2], start, n)
  BY <1>1, <1>5, ExtractStep
<1>6. CASE \E v \in Values : RefPut("BoxRef", h, h[1], h[2], v)
  BY <1>1, <1>6, Bounds, RefPutStep
<1>7. CASE \E v \in Values, start \in Sizes : RefReplace("BoxRef", h, h[1], h[2], start, v)
  BY <1>1, <1>7, Bounds, ReplaceStep
<1>8. CASE \E v \in Values, start, n \in Sizes : RefSplice("BoxRef", h, h[1], h[2], start, n, v)
  BY <1>1, <1>8, Bounds, SpliceStep
<1> QED
  BY <1>2, <1>3, <1>4, <1>5, <1>6, <1>7, <1>8 DEF BoxRefCall

LEMMA ThroughRefStep ==
  ASSUME TypeOK, NEW h \in Apps \X Names, ThroughRef(h)
  PROVE  BoxStep
<1>1. h[2] \in Names /\ "Box" \in Callers /\ (active # NoApp => active \in Apps)
  BY DEF Callers, TypeOK
<1>2. CASE Says("Box", h, "ref", "inactive")
  <2>1. IsReply("Box", h, "ref", "inactive")
    BY AnyReply DEF Ops, Outcomes
  <2> QED
    BY <1>2, <2>1, SaysStep
<1>3. CASE active # NoApp /\ \E start, n \in Sizes : RefExtract("Box", h, active, h[2], start, n)
  BY <1>1, <1>3, ExtractStep
<1>4. CASE active # NoApp /\ \E n \in Sizes : RefResize("Box", h, active, h[2], n)
  BY <1>1, <1>4, Bounds, ResizeStep
<1>5. CASE /\ active # NoApp
           /\ \E v \in Values, start \in Sizes : RefReplace("Box", h, active, h[2], start, v)
  BY <1>1, <1>5, Bounds, ReplaceStep
<1>6. CASE /\ active # NoApp
           /\ \E v \in Values, start, n \in Sizes : RefSplice("Box", h, active, h[2], start, n, v)
  BY <1>1, <1>6, Bounds, SpliceStep
<1> QED
  BY <1>2, <1>3, <1>4, <1>5, <1>6 DEF ThroughRef

LEMMA BoxCallStep ==
  ASSUME TypeOK, NEW h \in Apps \X Names, BoxCall(h)
  PROVE  BoxStep
<1>1. h[1] \in Apps /\ h[2] \in Names /\ "Box" \in Callers
  BY DEF Callers
<1>2. \A op \in Ops, is \in Outcomes : IsReply("Box", h, op, is)
  BY AnyReply
<1>3. CASE \E n \in Sizes : RefCreate("Box", h, h[1], h[2], n)
  BY <1>1, <1>3, Bounds, CreateStep
<1>4. ASSUME NEW v \in Values, Assign(h, v) PROVE BoxStep
  <2>1. v \in Contents => Changed(h[1], h[2], v, "assign")
    BY DEF Changed
  <2> QED
    BY <1>1, <1>2, <1>4, <2>1, Bounds, PutStep DEF Assign, Ops, Outcomes
<1>5. CASE Unassign(h)
  BY <1>1, <1>2, <1>5, RemoveStep DEF Unassign, Ops, Outcomes
<1>6. CASE ReadValue(h)
  <2>1. PICK is \in {"done", "missing"} : Says("Box", h, "value", is)
    BY <1>6 DEF ReadValue
  <2> QED
    BY <1>2, <2>1, SaysStep DEF Ops, Outcomes
<1> QED
  BY <1>3, <1>4, <1>5, <1>6, ThroughRefStep DEF BoxCall

LEMMA OpEditStep ==
  ASSUME NEW k \in Names, NEW op \in Ops, NEW inBounds, NEW s, active \in Apps,
         OpEdit(k, op, inBounds, s),
         inBounds /\ Content(active, k) # <<>> =>
           s \in Seq(Bytes) /\ (s \in Contents => Changed(active, k, s, op))
  PROVE  BoxStep
<1>1. \A is \in Outcomes : IsReply("op", <<active, k>>, op, is)
  BY AnyReply
<1>2. CASE \E is \in {"missing", "bounds"} : Says("op", <<active, k>>, op, is)
  BY <1>1, <1>2, SaysStep DEF Outcomes
<1>3. CASE /\ inBounds /\ Content(active, k) # <<>>
           /\ Put("op", <<active, k>>, op, active, k, s)
  BY <1>1, <1>3, PutStep DEF Outcomes
<1> QED
  BY <1>2, <1>3 DEF OpEdit

LEMMA OpBoxStep ==
  ASSUME TypeOK, NEW k \in Names, OpCall(k)
  PROVE  BoxStep
<1>1. active \in Apps /\ (Content(active, k) # <<>> => Exists(active, k))
  BY DEF OpCall, TypeOK, Content
<1>2. \A op \in Ops, is \in Outcomes : IsReply("op", <<active, k>>, op, is)
  BY <1>1, AnyReply
<1>3. ASSUME NEW n \in Sizes, OpCreate(k, n) PROVE BoxStep
  <2>1. CASE \E is \in {"size", "false"} : Says("op", <<active, k>>, "create", is)
    BY <1>2, <2>1, SaysStep DEF Ops, Outcomes
  <2>2. CASE /\ Content(active, k) = <<>> /\ Write(active, k, Zeros(n))
             /\ Reply("op", <<active, k>>, "create", "true")
    <3>1. Zeros(n) \in Seq(Bytes)
      BY Bounds, ZerosBytes
    <3>2. Zeros(n) \in Contents => Changed(active, k, Zeros(n), "create")
      BY <2>2 DEF Changed
    <3> QED
      BY <1>1, <1>2, <2>2, <3>1, <3>2, WriteStep DEF Ops, Outcomes
  <2> QED
    BY <1>3, <2>1, <2>2 DEF OpCreate
<1>4. ASSUME NEW n \in Sizes, OpResize(k, n) PROVE BoxStep
  BY <1>1, <1>4, Bounds, ResizeChanges, OpEditStep DEF OpResize, Ops
<1>5. CASE OpDelete(k)
  BY <1>1, <1>2, <1>5, SaysStep, RemoveStep DEF OpDelete, Ops, Outcomes
<1>6. CASE OpExtract(k)
  <2>1. PICK is \in {"done", "missing"} : Says("op", <<active, k>>, "extract", is)
    BY <1>6 DEF OpExtract
  <2> QED
    BY <1>2, <2>1, SaysStep DEF Ops, Outcomes
<1>7. ASSUME NEW v \in Values, OpPut(k, v) PROVE BoxStep
  <2>1. CASE Says("op", <<active, k>>, "put", "size")
    BY <1>2, <2>1, SaysStep DEF Ops, Outcomes
  <2>2. CASE /\ Content(active, k) # <<>> => Len(Content(active, k)) = Len(v)
             /\ Put("op", <<active, k>>, "put", active, k, v)
    <3>1. v \in Contents => Changed(active, k, v, "put")
      BY <2>2 DEF Changed
    <3> QED
      BY <1>1, <1>2, <2>2, <3>1, Bounds, PutStep DEF Ops, Outcomes
  <2> QED
    BY <1>7, <2>1, <2>2 DEF OpPut
<1>8. ASSUME NEW v \in Values, NEW start \in Sizes, OpReplace(k, start, v) PROVE BoxStep
  <2> DEFINE s == Replaced(Content(active, k), start, v)
             in == start + Len(v) <= Len(Content(active, k))
  <2>1. in /\ Content(active, k) # <<>> =>
          s \in Seq(Bytes) /\ (s \in Contents => Changed(active, k, s, "replace"))
    BY <1>1, Bounds, ReplaceChanges
  <2>2. OpEdit(k, "replace", in, s) /\ "replace" \in Ops
    BY <1>8 DEF OpReplace, Ops
  <2> HIDE DEF s, in
  <2> QED
    BY <1>1, <2>1, <2>2, OpEditStep
<1>9. ASSUME NEW v \in Values, NEW start \in Sizes, NEW n \in Sizes, OpSplice(k, start, n, v)
      PROVE BoxStep
  <2> DEFINE s == Spliced(Content(active, k), start, n, v)
             in == start <= Len(Content(active, k))
  <2>1. in /\ Content(active, k) # <<>> =>
          s \in Seq(Bytes) /\ (s \in Contents => Changed(active, k, s, "splice"))
    BY <1>1, Bounds, SpliceChanges
  <2>2. OpEdit(k, "splice", in, s) /\ "splice" \in Ops
    BY <1>9 DEF OpSplice, Ops
  <2> HIDE DEF s, in
  <2> QED
    BY <1>1, <2>1, <2>2, OpEditStep
<1> QED
  BY <1>3, <1>4, <1>5, <1>6, <1>7, <1>8, <1>9 DEF OpCall

LEMMA LedgerStep ==
  ASSUME TypeOK, NEW a \in Apps, NEW k \in Names,
         DeleteBox(a, k) \/ \E v \in Values : SetBox(a, k, v)
  PROVE  BoxStep
<1>1. \A op \in Ops, is \in Outcomes : IsReply("ledger", <<a, k>>, op, is)
  BY AnyReply
<1>2. CASE DeleteBox(a, k)
  <2>1. PICK is \in {"true", "false"} : Reply("ledger", <<a, k>>, "delete", is)
    BY <1>2 DEF DeleteBox
  <2> QED
    BY <1>1, <1>2, <2>1, RemoveStep DEF DeleteBox, Ops, Outcomes
<1>3. ASSUME NEW v \in Values, SetBox(a, k, v) PROVE BoxStep
  <2>1. v \in Contents => Changed(a, k, v, "set")
    BY DEF Changed
  <2> QED
    BY <1>1, <1>3, <2>1, Bounds, PutStep DEF SetBox, Ops, Outcomes
<1> QED
  BY <1>2, <1>3

\* Every step is a call that changes at most one box, or none at all.
LEMMA NextStep ==
  ASSUME TypeOK, [Next]_vars
  PROVE  /\ BoxStep \/ UNCHANGED <<boxes, reply>>
         /\ active' \in Apps \cup {NoApp} /\ handles' \subseteq Apps \X Names
<1>1. active \in Apps \cup {NoApp} /\ handles \subseteq Apps \X Names
  BY DEF TypeOK
<1>2. ASSUME NEW a \in Apps \cup {NoApp}, Activate(a)
      PROVE  UNCHANGED <<boxes, reply, handles>> /\ active' \in Apps \cup {NoApp}
  BY <1>2 DEF Activate
<1>3. ASSUME NEW k \in Names, NewHandle(k)
      PROVE  UNCHANGED <<boxes, reply, active>> /\ handles' \subseteq Apps \X Names
  BY <1>1, <1>3 DEF NewHandle
<1>4. ASSUME NEW k \in Names, OpCall(k) PROVE BoxStep /\ UNCHANGED <<active, handles>>
  BY <1>4, OpBoxStep DEF OpCall
<1>5. ASSUME NEW h \in handles, BoxCall(h) \/ BoxRefCall(h)
      PROVE  BoxStep /\ UNCHANGED <<active, handles>>
  BY <1>1, <1>5, BoxCallStep, BoxRefStep DEF BoxCall, BoxRefCall
<1>6. ASSUME NEW a \in Apps, NEW k \in Names,
             DeleteBox(a, k) \/ \E v \in Values : SetBox(a, k, v)
      PROVE  BoxStep /\ UNCHANGED <<active, handles>>
  BY <1>6, LedgerStep DEF DeleteBox, SetBox
<1>7. CASE UNCHANGED vars
  BY <1>1, <1>7 DEF vars
<1> QED
  BY <1>1, <1>2, <1>3, <1>4, <1>5, <1>6, <1>7 DEF Next

-----------------------------------------------------------------------------
(* Theorems.                                                               *)

LEMMA BoxType ==
  ASSUME TypeOK, NEW a \in Apps, NEW k \in Names, NEW t \in Contents \cup {Missing}
  PROVE  [boxes EXCEPT ![a][k] = t] \in [Apps -> [Names -> Contents \cup {Missing}]]
  BY DEF TypeOK

LEMMA TypeStep == TypeOK /\ [Next]_vars => TypeOK'
<1> SUFFICES ASSUME TypeOK, [Next]_vars PROVE TypeOK'
  OBVIOUS
<1>1. CASE UNCHANGED <<boxes, reply>>
  BY <1>1, NextStep DEF TypeOK
<1>2. CASE BoxStep
  <2>1. boxes' \in [Apps -> [Names -> Contents \cup {Missing}]]
    <3>1. CASE boxes' = boxes
      BY <3>1 DEF TypeOK
    <3>2. ASSUME NEW a \in Apps, NEW k \in Names, OneBox(a, k)
          PROVE  boxes' \in [Apps -> [Names -> Contents \cup {Missing}]]
      <4>1. PICK t : Changed(a, k, t, reply'.op) /\ boxes' = [boxes EXCEPT ![a][k] = t]
        BY <3>2 DEF OneBox
      <4>2. t \in Contents \cup {Missing}
        BY <4>1 DEF Changed
      <4> QED
        BY <4>1, <4>2, BoxType
    <3> QED
      BY <1>2, <3>1, <3>2 DEF BoxStep
  <2>2. reply' \in Replies
    BY <1>2 DEF BoxStep
  <2> QED
    BY <2>1, <2>2, NextStep DEF TypeOK
<1> QED
  BY <1>1, <1>2, NextStep

LEMMA InitType == Init => TypeOK
  BY DEF Init, TypeOK

\* No call of any interface makes a box larger than MAX_BOX_SIZE
\* (ledger_context.py:330), or anything else than bytes.
THEOREM TypeCorrect == Spec => []TypeOK
  BY InitType, TypeStep, PTL DEF Spec

\* Replacing, splicing and resizing do what box.py:123-158 says to every byte.
LEMMA Bytewise == TypeOK => EditsAreBytewise
<1> SUFFICES ASSUME TypeOK, NEW a \in Apps, NEW k \in Names
    PROVE  LET s == Content(a, k)
           IN  /\ \A n \in 0..MaxBoxSize :
                    Resized(s, n) = [i \in 1..n |-> IF i <= Len(s) THEN s[i] ELSE 0]
               /\ \A v \in Values, start \in 0..MaxBoxSize :
                    start + Len(v) <= Len(s) =>
                      Replaced(s, start, v) =
                        [i \in 1..Len(s) |-> IF i \in (start + 1)..(start + Len(v))
                                             THEN v[i - start] ELSE s[i]]
               /\ \A v \in Values, start \in 0..MaxBoxSize, count \in Sizes :
                    start <= Len(s) =>
                      Spliced(s, start, count, v) =
                        [i \in 1..Len(s) |->
                           IF i <= start THEN s[i]
                           ELSE IF i <= start + Len(v) THEN v[i - start]
                           ELSE IF i - Len(v) + count <= Len(s) THEN s[i - Len(v) + count]
                           ELSE 0]
  BY Zenon DEF EditsAreBytewise
<1> DEFINE s == Content(a, k)
<1>1. s \in Seq(Bytes) /\ Len(s) \in Nat /\ \A n \in 0..MaxBoxSize : n \in Nat
  BY ContentType, ConstantsAssumption
<1> HIDE DEF s
<1>2. ASSUME NEW n \in 0..MaxBoxSize
      PROVE  Resized(s, n) = [i \in 1..n |-> IF i <= Len(s) THEN s[i] ELSE 0]
  <2>1. /\ Resized(s, n) \in Seq(Bytes) /\ Len(Resized(s, n)) = n
        /\ \A i \in 1..n : Resized(s, n)[i] = IF i <= Len(s) THEN s[i] ELSE 0
    BY <1>1, ResizedBytes
  <2>2. Resized(s, n) = [i \in 1..n |-> Resized(s, n)[i]]
    BY <2>1, LenProperties
  <2> QED
    BY <2>1, <2>2
<1>3. ASSUME NEW v \in Values, NEW start \in 0..MaxBoxSize, start + Len(v) <= Len(s)
      PROVE  Replaced(s, start, v) =
               [i \in 1..Len(s) |-> IF i \in (start + 1)..(start + Len(v))
                                    THEN v[i - start] ELSE s[i]]
  <2> DEFINE r == Replaced(s, start, v)
  <2>1. /\ r \in Seq(Bytes) /\ Len(r) = Len(s)
        /\ \A i \in 1..Len(s) : r[i] = IF i \in (start + 1)..(start + Len(v))
                                       THEN v[i - start] ELSE s[i]
    BY <1>1, <1>3, Bounds, ReplacedBytes
  <2> HIDE DEF r
  <2>2. r = [i \in 1..Len(s) |-> r[i]]
    BY <2>1, LenProperties
  <2> QED
    BY <2>1, <2>2 DEF r
<1>4. ASSUME NEW v \in Values, NEW start \in 0..MaxBoxSize, NEW count \in Sizes,
             start <= Len(s)
      PROVE  Spliced(s, start, count, v) =
               [i \in 1..Len(s) |->
                  IF i <= start THEN s[i]
                  ELSE IF i <= start + Len(v) THEN v[i - start]
                  ELSE IF i - Len(v) + count <= Len(s) THEN s[i - Len(v) + count]
                  ELSE 0]
  <2> DEFINE r == Spliced(s, start, count, v)
  <2>1. /\ r \in Seq(Bytes) /\ Len(r) = Len(s)
        /\ \A i \in 1..Len(s) :
             r[i] = IF i <= start THEN s[i]
                    ELSE IF i <= start + Len(v) THEN v[i - start]
                    ELSE IF i - Len(v) + count <= Len(s) THEN s[i - Len(v) + count]
                    ELSE 0
    <3>1. v \in Seq(Bytes) /\ start \in 0..Len(s) /\ count \in Nat
      BY <1>1, <1>4, Bounds
    <3> QED
      BY <1>1, <3>1, SplicedBytes
  <2> HIDE DEF r
  <2>2. r = [i \in 1..Len(s) |-> r[i]]
    BY <2>1, LenProperties
  <2> QED
    BY <2>1, <2>2 DEF r
<1> QED
  BY <1>2, <1>3, <1>4 DEF s

\* Whatever a box holds, editing it does what box.py:123-158 says to every byte.
THEOREM EditsCorrect == Spec => []EditsAreBytewise
  BY TypeCorrect, Bytewise, PTL

\* A step changes a box with content only as its kind of call may.
LEMMA KeptStep ==
  ASSUME TypeOK, [Next]_vars, NEW a \in Apps, NEW k \in Names,
         boxes[a][k] # Missing, boxes[a][k] # <<>>, boxes'[a][k] # boxes[a][k]
  PROVE  LET s == boxes[a][k]
             t == boxes'[a][k]
             op == reply'.op
         IN  \/ t = Missing /\ op = "delete"
             \/ t # Missing /\ op \in {"set", "assign"}
             \/ t # Missing /\ op \in {"put", "replace", "splice"} /\ Len(t) = Len(s)
             \/ /\ t # Missing /\ op = "resize"
                /\ \A i \in 1..Len(t) : t[i] = IF i <= Len(s) THEN s[i] ELSE 0
<1>1. BoxStep /\ boxes' # boxes
  BY NextStep
<1>2. PICK b \in Apps, l \in Names : OneBox(b, l)
  BY <1>1 DEF BoxStep
<1>3. PICK t : Changed(b, l, t, reply'.op) /\ boxes' = [boxes EXCEPT ![b][l] = t]
  BY <1>2 DEF OneBox
<1>4. b = a /\ l = k /\ boxes'[a][k] = t
  <2>1. boxes \in [Apps -> [Names -> Contents \cup {Missing}]]
    BY DEF TypeOK
  <2>2. CASE b = a /\ l = k
    BY <1>3, <2>1, <2>2
  <2>3. CASE ~(b = a /\ l = k)
    <3>1. boxes'[a][k] = boxes[a][k]
      BY <1>3, <2>1, <2>3
    <3> QED
      BY <3>1
  <2> QED
    BY <2>2, <2>3
<1>5. Content(a, k) = boxes[a][k]
  BY DEF Content, Exists
<1>6. t \in Contents => t # Missing
  BY ContentsAreSeqs, ConstantsAssumption
<1>7. Changed(a, k, t, reply'.op)
  BY <1>3, <1>4
<1> QED
  BY <1>4, <1>5, <1>6, <1>7 DEF Changed

\* A box with content keeps it, and its size, through any mix of Box, BoxRef,
\* BoxMap, op.Box and the ledger, but for the calls that are to change them.
THEOREM ContentsKept == Spec => ContentsAreKept
<1>1. TypeOK /\ [Next]_vars =>
        [\A a \in Apps, k \in Names :
           LET s == boxes[a][k]
               t == boxes'[a][k]
               op == reply'.op
           IN  s # Missing /\ s # <<>> /\ t # s =>
                 \/ t = Missing /\ op = "delete"
                 \/ t # Missing /\ op \in {"set", "assign"}
                 \/ t # Missing /\ op \in {"put", "replace", "splice"} /\ Len(t) = Len(s)
                 \/ /\ t # Missing /\ op = "resize"
                    /\ \A i \in 1..Len(t) : t[i] = IF i <= Len(s) THEN s[i] ELSE 0]_vars
  BY KeptStep
<1> QED
  BY <1>1, TypeCorrect, PTL DEF Spec, ContentsAreKept

=============================================================================
