----------------------------- MODULE AbiLemmas -----------------------------
(***************************************************************************)
(* What the operators of Abi compute, for all types and values: lengths    *)
(* and places of items, what is read from bytes and what is put together,  *)
(* and that items are read where they were put.                            *)
(***************************************************************************)
EXTENDS Abi, WordsProofs

-----------------------------------------------------------------------------
(* Induction and recursion over what has a rank, as a type has its depth.  *)

\* Whatever is in P when all those of lower rank are.
Hereditary(S, rank, P) ==
  /\ rank \in [S -> Nat] /\ P \in SUBSET S
  /\ \A s \in S : (\A u \in S : rank[u] < rank[s] => u \in P) => s \in P

\* Then all are in P.
LEMMA RankInduction ==
  ASSUME NEW S, NEW rank, NEW P, Hereditary(S, rank, P)
  PROVE  P = S
<1> USE DEF Hereditary
<1> DEFINE Q == {n \in Nat : \A s \in S : rank[s] < n => s \in P}
<1>1. 0 \in Q
  OBVIOUS
<1>2. ASSUME NEW n \in Q PROVE n + 1 \in Q
  <2> SUFFICES ASSUME NEW s \in S, rank[s] < n + 1 PROVE s \in P
    OBVIOUS
  <2>1. \A u \in S : rank[u] < rank[s] => rank[u] < n
    OBVIOUS
  <2> QED
    BY <2>1
<1>3. Q = Nat
  <2> HIDE DEF Q
  <2> QED
    BY <1>1, <1>2, Induction DEF Q
<1>4. ASSUME NEW s \in S PROVE s \in P
  <2>1. rank[s] + 1 \in Nat /\ rank[s] < rank[s] + 1
    OBVIOUS
  <2>2. rank[s] + 1 \in Q
    BY <1>3, <2>1
  <2> QED
    BY <2>1, <2>2
<1> QED
  BY <1>4

\* The functions from S whose value at s is in T[s].
Into(S, T) == {g \in [S -> UNION {T[s] : s \in S}] : \A s \in S : g[s] \in T[s]}

\* A function by its values.
LEMMA IntoFacts ==
  ASSUME NEW S, NEW T
  PROVE  /\ \A g \in Into(S, T) : g = [s \in S |-> g[s]] /\ \A s \in S : g[s] \in T[s]
         /\ \A g : g = [s \in S |-> g[s]] /\ (\A s \in S : g[s] \in T[s]) => g \in Into(S, T)
BY DEF Into

\* G says what a function is at each argument, from what it is at those of lower rank.
Recursive(S, rank, T, G) ==
  /\ rank \in [S -> Nat]
  /\ \A s \in S : T[s] # {}
  /\ \A s \in S : \A g \in Into(S, T) : G[s][g] \in T[s]
  /\ \A s \in S : \A g, h \in Into(S, T) :
       (\A u \in S : rank[u] < rank[s] => g[u] = h[u]) => G[s][g] = G[s][h]

\* A function that is defined at each argument by what it is at those of lower rank exists.
LEMMA RankedRecursion ==
  ASSUME NEW S, NEW rank, NEW T, NEW G, Recursive(S, rank, T, G)
  PROVE  \E f \in Into(S, T) : \A s \in S : f[s] = G[s][f]
<1> USE DEF Recursive
<1> DEFINE To(n) == {g \in Into(S, T) : \A s \in S : rank[s] < n => g[s] = G[s][g]}
<1>1. \A n \in Nat : To(n) # {}
  <2> DEFINE P == {n \in Nat : To(n) # {}}
  <2>1. 0 \in P
    <3> DEFINE g == [s \in S |-> CHOOSE x \in T[s] : TRUE]
    <3>1. g = [s \in S |-> g[s]] /\ \A s \in S : g[s] \in T[s]
      OBVIOUS
    <3> HIDE DEF g
    <3>2. g \in Into(S, T)
      BY <3>1, IntoFacts
    <3>3. g \in To(0)
      BY <3>2
    <3> QED
      BY <3>3
  <2>2. ASSUME NEW n \in P PROVE n + 1 \in P
    <3>1. PICK g \in Into(S, T) : \A s \in S : rank[s] < n => g[s] = G[s][g]
      OBVIOUS
    <3> DEFINE h == [s \in S |-> IF rank[s] = n THEN G[s][g] ELSE g[s]]
    <3>2. h = [s \in S |-> h[s]] /\ \A s \in S : h[s] \in T[s]
      BY IntoFacts
    <3>3. \A s \in S : h[s] = IF rank[s] = n THEN G[s][g] ELSE g[s]
      OBVIOUS
    <3> HIDE DEF h
    <3>4. h \in Into(S, T)
      BY <3>2, IntoFacts
    <3>5. ASSUME NEW s \in S, rank[s] < n + 1 PROVE h[s] = G[s][h]
      <4>1. \A u \in S : rank[u] < rank[s] => g[u] = h[u]
        BY <3>3, <3>5
      <4>2. G[s][g] = G[s][h]
        BY <3>4, <4>1
      <4>3. rank[s] = n \/ rank[s] < n
        BY <3>5
      <4> QED
        BY <3>1, <3>3, <4>2, <4>3
    <3>6. h \in To(n + 1) /\ n + 1 \in Nat
      BY <3>4, <3>5
    <3> QED
      BY <3>6
  <2>3. P = Nat
    <3> HIDE DEF P
    <3> QED
      BY <2>1, <2>2, Induction DEF P
  <2> QED
    BY <2>3
<1>2. ASSUME NEW m \in Nat, NEW n \in Nat, n <= m, NEW g \in To(m), NEW h \in To(n)
      PROVE  \A s \in S : rank[s] < n => g[s] = h[s]
  <2> DEFINE P == {s \in S : rank[s] < n => g[s] = h[s]}
  <2>1. ASSUME NEW s \in S, \A u \in S : rank[u] < rank[s] => u \in P PROVE s \in P
    <3> SUFFICES ASSUME rank[s] < n PROVE g[s] = h[s]
      OBVIOUS
    <3>1. \A u \in S : rank[u] < rank[s] => g[u] = h[u]
      BY <2>1
    <3>2. g[s] = G[s][g] /\ h[s] = G[s][h] /\ g \in Into(S, T) /\ h \in Into(S, T)
      BY <1>2
    <3> QED
      BY <3>1, <3>2
  <2>2. P = S
    <3> HIDE DEF P
    <3>1. P \in SUBSET S
      BY DEF P
    <3>2. Hereditary(S, rank, P)
      BY <2>1, <3>1 DEF Hereditary
    <3> QED
      BY <3>2, RankInduction
  <2> QED
    BY <2>2
<1> DEFINE last == [n \in Nat |-> CHOOSE g : g \in To(n)]
<1>3. \A n \in Nat : last[n] \in To(n)
  <2> SUFFICES ASSUME NEW n \in Nat PROVE last[n] \in To(n)
    OBVIOUS
  <2>1. PICK g : g \in To(n)
    BY <1>1
  <2> HIDE DEF To
  <2> QED
    BY <2>1
<1> HIDE DEF last
<1> DEFINE f == [s \in S |-> last[rank[s] + 1][s]]
<1>4. f = [s \in S |-> f[s]] /\ \A s \in S : f[s] = last[rank[s] + 1][s]
  OBVIOUS
<1> HIDE DEF f
<1>5. ASSUME NEW s \in S PROVE f[s] \in T[s]
  <2>1. rank[s] + 1 \in Nat
    OBVIOUS
  <2>2. last[rank[s] + 1] \in Into(S, T)
    BY <1>3, <2>1
  <2> QED
    BY <1>4, <2>2, IntoFacts
<1>6. f \in Into(S, T)
  BY <1>4, <1>5, IntoFacts
<1>7. ASSUME NEW s \in S PROVE f[s] = G[s][f]
  <2>1. rank[s] + 1 \in Nat /\ rank[s] < rank[s] + 1
    OBVIOUS
  <2>2. PICK g \in To(rank[s] + 1) : g = last[rank[s] + 1]
    BY <1>3, <2>1
  <2>3. f[s] = G[s][g] /\ g \in Into(S, T)
    BY <1>4, <2>1, <2>2
  <2>4. ASSUME NEW u \in S, rank[u] < rank[s] PROVE f[u] = g[u]
    <3>1. /\ rank[u] + 1 \in Nat /\ rank[u] < rank[u] + 1 /\ rank[u] + 1 <= rank[s] + 1
      BY <2>4
    <3>2. last[rank[u] + 1] \in To(rank[u] + 1)
      BY <1>3, <3>1
    <3> HIDE DEF To
    <3>3. g[u] = last[rank[u] + 1][u]
      BY <1>2, <2>1, <2>2, <3>1, <3>2
    <3> QED
      BY <1>4, <3>3
  <2>5. G[s][f] = G[s][g]
    BY <1>6, <2>3, <2>4
  <2> QED
    BY <2>3, <2>5
<1> QED
  BY <1>6, <1>7

-----------------------------------------------------------------------------
(* Types.                                                                  *)

\* What is assumed of types.
LEMMA TypeFacts ==
  ASSUME NEW t \in Types
  PROVE  /\ t.kind \in Leaves \cup Arrays \cup Tuples /\ t.size \in Nat /\ t.of \in Seq(Types)
         /\ t.kind \in Leaves => t.of = << >>
         /\ t.kind \in Arrays => Len(t.of) = 1 /\ 1 \in DOMAIN t.of /\ t.of[1] \in Types
         /\ t.kind = "uint" => t.size <= BigBytes
         /\ t.kind = "byte" => t.size = 1
         /\ \A i \in DOMAIN t.of : t.of[i] \in Types /\ Depth[t.of[i]] < Depth[t]
         /\ Depth[t] \in Nat
         /\ MadeOfItems(t)
<1>1. /\ t.kind \in Leaves \cup Arrays \cup Tuples /\ t.size \in Nat /\ t.of \in Seq(Types)
      /\ Depth[t] \in Nat /\ \A i \in DOMAIN t.of : Depth[t.of[i]] < Depth[t]
  BY AbiAssumption DEF TypesOK
<1>2. /\ t.kind \in Leaves => t.of = << >>
      /\ t.kind \in Arrays => Len(t.of) = 1
      /\ t.kind = "uint" => t.size <= BigBytes
      /\ t.kind = "byte" => t.size = 1
      /\ MadeOfItems(t)
  BY AbiAssumption
<1>3. \A i \in DOMAIN t.of : t.of[i] \in Types
  BY <1>1
<1>4. Len(t.of) = 1 => 1 \in DOMAIN t.of
  BY <1>1
<1> QED
  BY <1>1, <1>2, <1>3, <1>4

\* Whatever holds of a type as it holds of those of its items holds of all.
LEMMA TypeInduction ==
  ASSUME NEW P \in SUBSET Types,
         \A t \in Types : (\A i \in DOMAIN t.of : t.of[i] \in P) => t \in P
  PROVE  P = Types
<1> DEFINE rank == [t \in Types |-> Depth[t]]
<1>1. rank \in [Types -> Nat] /\ \A t \in Types : rank[t] = Depth[t]
  BY TypeFacts
<1> HIDE DEF rank
<1>2. ASSUME NEW t \in Types, \A u \in Types : rank[u] < rank[t] => u \in P PROVE t \in P
  <2>1. \A i \in DOMAIN t.of : t.of[i] \in Types /\ Depth[t.of[i]] < Depth[t]
    BY TypeFacts
  <2>2. \A i \in DOMAIN t.of : t.of[i] \in P
    BY <1>1, <1>2, <2>1
  <2> QED
    BY <2>2
<1>3. \A t \in Types : (\A u \in Types : rank[u] < rank[t] => u \in P) => t \in P
  BY <1>2
<1>4. Hereditary(Types, rank, P)
  BY <1>1, <1>3 DEF Hereditary
<1> QED
  BY <1>4, RankInduction

\* G says what a function is for each type, from what it is for those of the items.
ByItems(T, G) ==
  /\ \A t \in Types : T[t] # {}
  /\ \A t \in Types : \A g \in Into(Types, T) : G[t][g] \in T[t]
  /\ \A t \in Types : \A g, h \in Into(Types, T) :
       (\A i \in DOMAIN t.of : g[t.of[i]] = h[t.of[i]]) => G[t][g] = G[t][h]

\* A function of types that is defined by what it is for those of the items exists.
LEMMA TypeRecursion ==
  ASSUME NEW T, NEW G, ByItems(T, G)
  PROVE  \E f \in Into(Types, T) : \A t \in Types : f[t] = G[t][f]
<1> DEFINE rank == [t \in Types |-> Depth[t]]
<1>1. rank \in [Types -> Nat] /\ \A t \in Types : rank[t] = Depth[t]
  BY TypeFacts
<1> HIDE DEF rank
<1>2. ASSUME NEW t \in Types, NEW g \in Into(Types, T), NEW h \in Into(Types, T),
             \A u \in Types : rank[u] < rank[t] => g[u] = h[u]
      PROVE  G[t][g] = G[t][h]
  <2>1. \A i \in DOMAIN t.of : t.of[i] \in Types /\ Depth[t.of[i]] < Depth[t]
    BY TypeFacts
  <2>2. \A i \in DOMAIN t.of : g[t.of[i]] = h[t.of[i]]
    BY <1>1, <1>2, <2>1
  <2> QED
    BY <2>2 DEF ByItems
<1>3. \A t \in Types : \A g, h \in Into(Types, T) :
        (\A u \in Types : rank[u] < rank[t] => g[u] = h[u]) => G[t][g] = G[t][h]
  BY <1>2
<1>4. Recursive(Types, rank, T, G)
  BY <1>1, <1>3 DEF Recursive, ByItems
<1> QED
  BY <1>4, RankedRecursion

\* A type is dynamic when it is a string, an array of any length, or an item of it is.
LEMMA DynamicDef ==
  \A t \in Types :
    /\ IsDynamic[t] \in BOOLEAN
    /\ IsDynamic[t] <=> \/ t.kind \in {"string", "dynamic"}
                        \/ \E i \in DOMAIN t.of : IsDynamic[t.of[i]]
<1> DEFINE Body(g, t) == t.kind \in {"string", "dynamic"} \/ \E i \in DOMAIN t.of : g[t.of[i]]
           Is(f) == f = [t \in Types |-> Body(f, t)]
           T == [t \in Types |-> BOOLEAN]
           G == [t \in Types |-> [g \in Into(Types, T) |-> Body(g, t)]]
<1>1. \A t \in Types : \A g \in Into(Types, T) : G[t][g] = Body(g, t)
  OBVIOUS
<1>2. \A t \in Types : T[t] = BOOLEAN
  OBVIOUS
<1>3. \A t \in Types : \A g \in Into(Types, T) : G[t][g] \in T[t]
  BY <1>1
<1>4. ASSUME NEW t \in Types, NEW g \in Into(Types, T), NEW h \in Into(Types, T),
             \A i \in DOMAIN t.of : g[t.of[i]] = h[t.of[i]]
      PROVE  G[t][g] = G[t][h]
  BY <1>1, <1>4
<1>5. PICK f \in Into(Types, T) : \A t \in Types : f[t] = G[t][f]
  <2>1. \A t \in Types : T[t] # {}
    BY <1>2
  <2>2. \A t \in Types : \A g, h \in Into(Types, T) :
          (\A i \in DOMAIN t.of : g[t.of[i]] = h[t.of[i]]) => G[t][g] = G[t][h]
    BY <1>4
  <2> HIDE DEF G, T
  <2>3. ByItems(T, G)
    BY <1>3, <2>1, <2>2 DEF ByItems
  <2> QED
    BY <2>3, TypeRecursion
<1>6. Is(f)
  <2>1. f = [t \in Types |-> f[t]]
    BY IntoFacts
  <2> QED
    BY <1>1, <1>5, <2>1
<1>7. Is(CHOOSE u : Is(u))
  <2> HIDE DEF Is
  <2> QED
    BY <1>6
<1>8. Is(IsDynamic)
  BY <1>7 DEF IsDynamic
<1> QED
  BY <1>8

-----------------------------------------------------------------------------
(* Byte strings and those that stand for an exception.                     *)

\* Error is no byte: what raises is what is not made of bytes.
LEMMA RaisesFacts ==
  /\ Error \notin Byte /\ Error \in Int /\ Byte \subseteq Nat
  /\ \A b \in Bytes : ~Raises(b) <=> b \in Seq(Byte)
  /\ \A b \in Seq(Byte) : b \in Bytes /\ ~Raises(b)
  /\ Poison \in Bytes /\ Raises(Poison)
<1>1. Error \notin Byte /\ Error \in Int /\ Byte \subseteq Nat
  BY ByteFacts DEF Error
<1>2. \A b \in Seq(Byte) : b \in Bytes /\ ~Raises(b)
  <2> TAKE b \in Seq(Byte)
  <2>1. b \in Bytes
    BY DEF Bytes
  <2>2. \A i \in DOMAIN b : b[i] \in Byte
    OBVIOUS
  <2> QED
    BY <1>1, <2>1, <2>2 DEF Raises, ToSet
<1>3. ASSUME NEW b \in Bytes, ~Raises(b) PROVE b \in Seq(Byte)
  <2>1. \A i \in DOMAIN b : b[i] \in Byte
    BY <1>3 DEF Raises, ToSet, Bytes
  <2>2. b = [i \in 1..Len(b) |-> b[i]] /\ Len(b) \in Nat
    BY DEF Bytes
  <2> QED
    BY <2>1, <2>2
<1>4. Poison \in Bytes /\ Raises(Poison)
  BY DEF Poison, Bytes, Raises, ToSet
<1> QED
  BY <1>1, <1>2, <1>3, <1>4

\* A byte string raises when a part of it does.
LEMMA RaisesOfTwo ==
  ASSUME NEW a \in Bytes, NEW b \in Bytes
  PROVE  a \o b \in Bytes /\ (Raises(a \o b) <=> Raises(a) \/ Raises(b))
<1>1. a \o b \in Bytes /\ Len(a \o b) = Len(a) + Len(b)
  BY DEF Bytes
<1>2. /\ \A i \in 1..Len(a) : (a \o b)[i] = a[i]
      /\ \A i \in 1..Len(b) : (a \o b)[Len(a) + i] = b[i]
      /\ \A i \in 1..(Len(a) + Len(b)) : i > Len(a) => (a \o b)[i] = b[i - Len(a)]
  BY DEF Bytes
<1>3. /\ DOMAIN a = 1..Len(a) /\ DOMAIN b = 1..Len(b) /\ DOMAIN (a \o b) = 1..(Len(a) + Len(b))
      /\ Len(a) \in Nat /\ Len(b) \in Nat
  BY <1>1 DEF Bytes
<1>4. ASSUME Raises(a) PROVE Raises(a \o b)
  <2>1. PICK i \in 1..Len(a) : a[i] = Error
    BY <1>3, <1>4 DEF Raises, ToSet
  <2>2. i \in DOMAIN (a \o b) /\ (a \o b)[i] = Error
    BY <1>2, <1>3, <2>1
  <2> QED
    BY <2>2 DEF Raises, ToSet
<1>5. ASSUME Raises(b) PROVE Raises(a \o b)
  <2>1. PICK i \in 1..Len(b) : b[i] = Error
    BY <1>3, <1>5 DEF Raises, ToSet
  <2>2. Len(a) + i \in DOMAIN (a \o b) /\ (a \o b)[Len(a) + i] = Error
    BY <1>2, <1>3, <2>1
  <2> QED
    BY <2>2 DEF Raises, ToSet
<1>6. ASSUME Raises(a \o b) PROVE Raises(a) \/ Raises(b)
  <2>1. PICK i \in 1..(Len(a) + Len(b)) : (a \o b)[i] = Error
    BY <1>3, <1>6 DEF Raises, ToSet
  <2>2. CASE i <= Len(a)
    BY <1>2, <1>3, <2>1, <2>2 DEF Raises, ToSet
  <2>3. CASE i > Len(a)
    <3>1. i - Len(a) \in DOMAIN b /\ b[i - Len(a)] = Error
      BY <1>2, <1>3, <2>1, <2>3
    <3> QED
      BY <3>1 DEF Raises, ToSet
  <2> QED
    BY <1>3, <2>1, <2>2, <2>3
<1> QED
  BY <1>1, <1>4, <1>5, <1>6

\* What was raised is not seen in the bytes otherwise.
LEMMA OrRaiseFacts ==
  ASSUME NEW b \in Bytes
  PROVE  /\ OrRaise(b) \in Bytes /\ (Raises(OrRaise(b)) <=> Raises(b))
         /\ OrRaise(b) = IF Raises(b) THEN Poison ELSE b
BY RaisesFacts DEF OrRaise

\* A length takes LengthSize bytes, which say it, if it fits.
LEMMA EncodeLengthFacts ==
  ASSUME NEW n \in Nat
  PROVE  /\ EncodeLength(n) \in Bytes
         /\ Raises(EncodeLength(n)) => EncodeLength(n) = Poison
         /\ ~Raises(EncodeLength(n)) =>
              /\ EncodeLength(n) \in Seq(Byte) /\ Len(EncodeLength(n)) = LengthSize
              /\ IntOf(EncodeLength(n)) = n
<1>1. LengthSize \in Nat
  BY DEF LengthSize
<1>2. Pow(Base, LengthSize) = Pow(2, ByteBits * LengthSize)
  BY <1>1, BaseFacts
<1>3. Pow(Base, LengthSize) \in Nat
  BY <1>1, <1>2, PowOfTwo, SizeFacts
<1>4. CASE n < Pow(Base, LengthSize)
  <2>1. EncodeLength(n) = Digits(n, LengthSize)
    BY <1>4 DEF EncodeLength
  <2> QED
    BY <1>1, <1>2, <1>4, <2>1, DigitsFacts, RaisesFacts
<1>5. CASE ~(n < Pow(Base, LengthSize))
  BY <1>5, RaisesFacts DEF EncodeLength
<1> QED
  BY <1>4, <1>5

\* A part of a byte string, by where it is.
LEMMA SliceOf ==
  ASSUME NEW s \in Seq(Byte), NEW t \in Seq(Byte), NEW at \in 0..Len(s), at + Len(t) <= Len(s),
         \A k \in 1..Len(t) : s[at + k] = t[k]
  PROVE  Slice(s, at, at + Len(t)) = t
<1>1. Len(t) \in Nat /\ Len(s) \in Nat /\ at \in Int /\ at + Len(t) \in Int
  OBVIOUS
<1>2. at + Len(t) \in at..Len(s) /\ (at + Len(t)) - at = Len(t)
  BY <1>1
<1>3. /\ Slice(s, at, at + Len(t)) \in Seq(Byte)
      /\ Len(Slice(s, at, at + Len(t))) = Len(t)
      /\ \A k \in 1..Len(t) : Slice(s, at, at + Len(t))[k] = s[at + k]
  <2>1. PICK stop \in Int : stop = at + Len(t)
    BY <1>1
  <2>2. stop - at = Len(t) /\ at \in Int /\ stop \in at..Len(s)
    BY <1>1, <1>2, <2>1
  <2>3. /\ Slice(s, at, stop) \in Seq(Byte)
        /\ Len(Slice(s, at, stop)) = stop - at
        /\ \A k \in 1..(stop - at) : Slice(s, at, stop)[k] = s[at + k]
    BY <2>2, SliceFacts
  <2> QED
    BY <2>1, <2>2, <2>3
<1> QED
  BY <1>3, SameBytes

-----------------------------------------------------------------------------
(* The types of items, and the bools among them.                           *)

\* The least of some numbers.
LEMMA MinIsLeast ==
  ASSUME NEW n \in Nat, NEW S \in SUBSET (0..n), S # {}
  PROVE  Min(S) \in S /\ \A x \in S : Min(S) <= x
<1> DEFINE R == {n - x : x \in S}
<1>1. R \in SUBSET (0..n) /\ R # {}
  <2>1. \A x \in S : n - x \in 0..n
    OBVIOUS
  <2>2. PICK x \in S : TRUE
    OBVIOUS
  <2>3. n - x \in R
    OBVIOUS
  <2> QED
    BY <2>1, <2>3
<1>2. Max(R) \in R /\ \A y \in R : y <= Max(R)
  <2> HIDE DEF R
  <2> QED
    BY <1>1, MaxIsLargest
<1>3. PICK x \in S : Max(R) = n - x
  BY <1>2
<1>4. \A y \in S : n - y <= n - x
  <2> TAKE y \in S
  <2>1. n - y \in R
    OBVIOUS
  <2> HIDE DEF R
  <2> QED
    BY <1>2, <1>3, <2>1
<1>5. \A y \in S : x <= y
  BY <1>4
<1> QED
  BY <1>5 DEF Min

\* The items of an array are all of one type, those of a tuple of its types.
LEMMA ChildFacts ==
  ASSUME NEW t \in Types, NEW n \in Nat
  PROVE  /\ ChildTypes(t, n) \in Seq(Types)
         /\ Len(ChildTypes(t, n)) = IF t.kind \in Arrays THEN n ELSE Len(t.of)
         /\ \A i \in DOMAIN ChildTypes(t, n) : \E j \in DOMAIN t.of : ChildTypes(t, n)[i] = t.of[j]
         /\ t.kind \in Arrays => \A i \in 1..n : ChildTypes(t, n)[i] = t.of[1]
         /\ t.kind \notin Arrays => ChildTypes(t, n) = t.of
<1>1. CASE t.kind \in Arrays
  <2>1. 1 \in DOMAIN t.of /\ t.of[1] \in Types
    BY <1>1, TypeFacts
  <2>2. ChildTypes(t, n) = [i \in 1..n |-> t.of[1]]
    BY <1>1 DEF ChildTypes
  <2> QED
    BY <1>1, <2>1, <2>2
<1>2. CASE t.kind \notin Arrays
  <2>1. ChildTypes(t, n) = t.of /\ t.of \in Seq(Types)
    BY <1>2, TypeFacts DEF ChildTypes
  <2> QED
    BY <1>2, <2>1
<1> QED
  BY <1>1, <1>2

\* The next multiple of a number, and what is before it.
LEMMA MultipleFacts ==
  ASSUME NEW d \in Nat \ {0}, NEW a \in Nat, a % d = 0
  PROVE  (a + d) % d = 0 /\ \A k \in 0..(d - 1) : (a + k) % d = k
<1>1. PICK q \in Nat : q = a \div d
  BY Division
<1>2. a = d * q + 0
  <2>1. a = d * q + (a % d)
    BY <1>1, Division
  <2> QED
    BY <2>1
<1>3. PICK m \in Nat : m = d * q
  BY <1>2
<1>4. a = m
  BY <1>2, <1>3
<1>5. (a + d) % d = 0
  <2>1. q + 1 \in Nat /\ d * (q + 1) = m + d
    BY <1>3
  <2>2. PICK p \in Nat : p = q + 1
    BY <2>1
  <2>3. (d * p + 0) % d = 0
    BY DivisionOf
  <2>4. d * p + 0 = a + d
    BY <1>4, <2>1, <2>2
  <2> QED
    BY <2>3, <2>4
<1>6. ASSUME NEW k \in 0..(d - 1) PROVE (a + k) % d = k
  <2>1. (d * q + k) % d = k
    BY DivisionOf
  <2>2. d * q + k = a + k
    BY <1>3, <1>4
  <2> QED
    BY <2>1, <2>2
<1> QED
  BY <1>5, <1>6

\* Where the run of bools of an item starts, and how many of them follow and precede it.
LEMMA RunFacts ==
  ASSUME NEW ts \in Seq(Types), NEW i \in 1..Len(ts), ts[i].kind = "bool"
  PROVE  /\ RunStart(ts, i) \in 1..i
         /\ \A k \in RunStart(ts, i)..i : ts[k].kind = "bool"
         /\ RunStart(ts, i) = 1 \/ ts[RunStart(ts, i) - 1].kind # "bool"
         /\ BoolsFrom(ts, i, 1, FALSE) \in 0..(Len(ts) - i)
         /\ \A k \in i..(i + BoolsFrom(ts, i, 1, FALSE)) : ts[k].kind = "bool"
         /\ \/ i + BoolsFrom(ts, i, 1, FALSE) = Len(ts)
            \/ ts[i + BoolsFrom(ts, i, 1, FALSE) + 1].kind # "bool"
         /\ BoolsFrom(ts, i, -1, FALSE) = i - RunStart(ts, i)
<1> DEFINE S == {s \in 1..i : \A k \in s..i : ts[k].kind = "bool"}
           A == {n \in 0..Len(ts) : \A k \in 0..n :
                   i + 1 * k \in 1..Len(ts) /\ ts[i + 1 * k].kind = "bool"}
           B == {n \in 0..Len(ts) : \A k \in 0..n :
                   i + (-1) * k \in 1..Len(ts) /\ ts[i + (-1) * k].kind = "bool"}
<1>1. i \in S /\ S \in SUBSET (0..i) /\ i \in Nat /\ Len(ts) \in Nat
  OBVIOUS
<1>2. Min(S) \in S /\ \A s \in S : Min(S) <= s
  <2>1. S # {}
    BY <1>1
  <2> HIDE DEF S
  <2> QED
    BY <1>1, <2>1, MinIsLeast
<1>3. RunStart(ts, i) = Min(S)
  BY DEF RunStart
<1> HIDE DEF S
<1>4. PICK s \in 1..i : s = RunStart(ts, i) /\ s \in S /\ \A r \in S : s <= r
  BY <1>2, <1>3 DEF S
<1>5. \A k \in s..i : ts[k].kind = "bool"
  BY <1>4 DEF S
<1>6. s = 1 \/ ts[s - 1].kind # "bool"
  <2> SUFFICES ASSUME s # 1, ts[s - 1].kind = "bool" PROVE FALSE
    OBVIOUS
  <2>1. s - 1 \in 1..i /\ \A k \in (s - 1)..i : k = s - 1 \/ k \in s..i
    OBVIOUS
  <2>2. s - 1 \in S
    BY <1>5, <2>1 DEF S
  <2> QED
    BY <1>4, <2>2
<1>7. 0 \in A /\ A \in SUBSET (0..Len(ts))
  OBVIOUS
<1>8. Max(A) \in A /\ \A x \in A : x <= Max(A)
  <2>1. A # {}
    BY <1>7
  <2> HIDE DEF A
  <2> QED
    BY <1>1, <1>7, <2>1, MaxIsLargest
<1>9. BoolsFrom(ts, i, 1, FALSE) = Max(A)
  BY DEF BoolsFrom
<1> HIDE DEF A
<1>10. PICK n \in 0..Len(ts) : n = BoolsFrom(ts, i, 1, FALSE) /\ n \in A /\ \A x \in A : x <= n
  BY <1>8, <1>9 DEF A
<1>11. \A k \in 0..n : i + k \in 1..Len(ts) /\ ts[i + k].kind = "bool"
  <2> TAKE k \in 0..n
  <2>1. i + 1 * k = i + k
    OBVIOUS
  <2> QED
    BY <1>10, <2>1 DEF A
<1>12. n \in 0..(Len(ts) - i) /\ \A k \in i..(i + n) : ts[k].kind = "bool"
  <2>1. i + n \in 1..Len(ts)
    BY <1>11
  <2>2. ASSUME NEW k \in i..(i + n) PROVE ts[k].kind = "bool"
    <3>1. k - i \in 0..n /\ i + (k - i) = k
      OBVIOUS
    <3> QED
      BY <1>11, <3>1
  <2> QED
    BY <2>1, <2>2
<1>13. i + n = Len(ts) \/ ts[i + n + 1].kind # "bool"
  <2> SUFFICES ASSUME i + n # Len(ts), ts[i + n + 1].kind = "bool" PROVE FALSE
    OBVIOUS
  <2>1. n + 1 \in 0..Len(ts) /\ i + n + 1 \in 1..Len(ts)
    BY <1>12
  <2>2. ASSUME NEW k \in 0..(n + 1)
        PROVE  i + 1 * k \in 1..Len(ts) /\ ts[i + 1 * k].kind = "bool"
    <3>1. i + 1 * k = i + k /\ (k \in 0..n \/ i + k = i + n + 1)
      OBVIOUS
    <3> QED
      BY <1>11, <2>1, <3>1
  <2>3. n + 1 \in A
    BY <2>1, <2>2 DEF A
  <2>4. PICK x \in A : x = n + 1
    BY <2>3
  <2>5. x <= n
    BY <1>10
  <2> QED
    BY <2>4, <2>5
<1>14. BoolsFrom(ts, i, -1, FALSE) = Max(B)
  BY DEF BoolsFrom
<1>15. i - s \in B
  <2>1. i - s \in 0..Len(ts)
    OBVIOUS
  <2>2. ASSUME NEW k \in 0..(i - s)
        PROVE  i + (-1) * k \in 1..Len(ts) /\ ts[i + (-1) * k].kind = "bool"
    <3>1. i + (-1) * k = i - k /\ i - k \in s..i /\ i - k \in 1..Len(ts)
      OBVIOUS
    <3> QED
      BY <1>5, <3>1
  <2> QED
    BY <2>1, <2>2
<1>16. \A x \in B : x <= i - s
  <2> SUFFICES ASSUME NEW x \in B, x > i - s PROVE FALSE
    OBVIOUS
  <2>1. x \in Nat /\ i - s + 1 \in 0..x /\ i + (-1) * (i - s + 1) = s - 1
    <3>1. x \in Nat
      OBVIOUS
    <3>2. i - s + 1 \in 0..x
      BY <3>1
    <3>3. i + (-1) * (i - s + 1) = s - 1
      OBVIOUS
    <3> QED
      BY <3>1, <3>2, <3>3
  <2>2. s - 1 \in 1..Len(ts) /\ ts[s - 1].kind = "bool"
    BY <2>1
  <2> QED
    BY <1>6, <2>2
<1>17. Max(B) = i - s
  <2>1. B \in SUBSET (0..Len(ts)) /\ B # {}
    BY <1>15
  <2>2. \A x \in B : x \in Int
    OBVIOUS
  <2> HIDE DEF B
  <2>3. Max(B) \in B /\ \A x \in B : x <= Max(B)
    BY <1>1, <2>1, MaxIsLargest
  <2> QED
    BY <1>15, <1>16, <2>2, <2>3
<1> QED
  BY <1>4, <1>5, <1>6, <1>10, <1>12, <1>13, <1>14, <1>17

\* A run is known by where it starts.
LEMMA RunIsOne ==
  ASSUME NEW ts \in Seq(Types), NEW i \in 1..Len(ts), NEW s \in 1..i,
         \A k \in s..i : ts[k].kind = "bool", s = 1 \/ ts[s - 1].kind # "bool"
  PROVE  RunStart(ts, i) = s
<1>1. ts[i].kind = "bool"
  OBVIOUS
<1>2. PICK r \in 1..i : r = RunStart(ts, i)
  BY <1>1, RunFacts
<1>3. (\A k \in r..i : ts[k].kind = "bool") /\ (r = 1 \/ ts[r - 1].kind # "bool")
  BY <1>1, <1>2, RunFacts
<1>4. ~(r < s)
  <2> SUFFICES ASSUME r < s PROVE FALSE
    OBVIOUS
  <2>1. s # 1 /\ s - 1 \in r..i
    OBVIOUS
  <2> QED
    BY <1>3, <2>1
<1>5. ~(s < r)
  <2> SUFFICES ASSUME s < r PROVE FALSE
    OBVIOUS
  <2>1. r # 1 /\ r - 1 \in s..i
    OBVIOUS
  <2> QED
    BY <1>3, <2>1
<1> QED
  BY <1>2, <1>4, <1>5

\* Neighbours are in the same run.
LEMMA RunOfNeighbour ==
  ASSUME NEW ts \in Seq(Types), NEW i \in 1..Len(ts), NEW j \in i..Len(ts),
         \A k \in i..j : ts[k].kind = "bool"
  PROVE  RunStart(ts, j) = RunStart(ts, i)
<1>1. ts[i].kind = "bool" /\ j \in 1..Len(ts)
  OBVIOUS
<1>2. PICK s \in 1..i : s = RunStart(ts, i)
  BY <1>1, RunFacts
<1>3. (\A k \in s..i : ts[k].kind = "bool") /\ (s = 1 \/ ts[s - 1].kind # "bool")
  BY <1>1, <1>2, RunFacts
<1>4. s \in 1..j /\ \A k \in s..j : ts[k].kind = "bool"
  <2>1. \A k \in s..j : k \in s..i \/ k \in i..j
    OBVIOUS
  <2> QED
    BY <1>3, <2>1
<1> QED
  BY <1>1, <1>2, <1>3, <1>4, RunIsOne

-----------------------------------------------------------------------------
(* Items are read and written from one start to the next: an item that is  *)
(* no bool is one, and so is each ByteBits-th bool of a run.               *)

IsStart(ts, i) ==
  i = Len(ts) + 1 \/ (ts[i].kind = "bool" => (i - RunStart(ts, i)) % ByteBits = 0)

Starts(ts) == {i \in 1..(Len(ts) + 1) : IsStart(ts, i)}

\* How many bools share the byte with the one at the start, and the start after it.
Sharing(ts, i) ==
  IF ts[i].kind = "bool" THEN Min({ByteBits - 1, BoolsFrom(ts, i, 1, FALSE)}) ELSE 0
Following(ts, i) == i + Sharing(ts, i) + 1

\* The items between two starts are bools of one run.
LEMMA StartFacts ==
  ASSUME NEW ts \in Seq(Types), NEW i \in 1..Len(ts), IsStart(ts, i)
  PROVE  /\ Sharing(ts, i) \in 0..(Len(ts) - i)
         /\ ts[i].kind = "bool" => Sharing(ts, i) < ByteBits
         /\ ts[i].kind # "bool" => Sharing(ts, i) = 0
         /\ Following(ts, i) \in Starts(ts) /\ Following(ts, i) > i
         /\ \A k \in i..(i + Sharing(ts, i)) : k > i =>
              /\ ts[i].kind = "bool" /\ ts[k].kind = "bool"
              /\ RunStart(ts, k) = RunStart(ts, i)
              /\ (k - RunStart(ts, k)) % ByteBits = k - i
         /\ Sharing(ts, i) < ByteBits - 1 /\ Following(ts, i) <= Len(ts) /\ ts[i].kind = "bool" =>
              ts[Following(ts, i)].kind # "bool"
         /\ ts[i].kind = "bool" => i - RunStart(ts, i) \in Nat
<1>1. CASE ts[i].kind # "bool"
  <2>1. Sharing(ts, i) = 0 /\ Following(ts, i) = i + 1
    BY <1>1 DEF Sharing, Following
  <2>2. i + 1 \in Starts(ts)
    <3> SUFFICES ASSUME i + 1 # Len(ts) + 1, ts[i + 1].kind = "bool"
                 PROVE  ((i + 1) - RunStart(ts, i + 1)) % ByteBits = 0
      BY DEF Starts, IsStart
    <3>1. i + 1 \in 1..Len(ts)
      OBVIOUS
    <3>2. PICK s \in 1..(i + 1) : s = RunStart(ts, i + 1)
      BY <3>1, RunFacts
    <3>3. \A k \in s..(i + 1) : ts[k].kind = "bool"
      BY <3>1, <3>2, RunFacts
    <3>4. s = i + 1
      BY <1>1, <3>3
    <3>5. (i + 1) - s = 0 /\ 0 % ByteBits = 0
      BY <3>4, SizeFacts
    <3> QED
      BY <3>2, <3>5
  <2> QED
    BY <1>1, <2>1, <2>2
<1>2. CASE ts[i].kind = "bool"
  <2>1. PICK s \in 1..i : s = RunStart(ts, i)
    BY <1>2, RunFacts
  <2>2. PICK n \in 0..(Len(ts) - i) : n = BoolsFrom(ts, i, 1, FALSE)
    BY <1>2, RunFacts
  <2>3. /\ \A k \in i..(i + n) : ts[k].kind = "bool"
        /\ i + n = Len(ts) \/ ts[i + n + 1].kind # "bool"
    BY <1>2, <2>2, RunFacts
  <2>4. i - s \in Nat /\ (i - s) % ByteBits = 0
    BY <1>2, <2>1 DEF IsStart
  <2>5. PICK last \in Nat : last = ByteBits - 1
    BY SizeFacts
  <2>6. Sharing(ts, i) = Min({last, n})
    BY <1>2, <2>2, <2>5 DEF Sharing
  <2>7. Min({last, n}) = IF last <= n THEN last ELSE n
    <3>1. last \in Int /\ n \in Int
      OBVIOUS
    <3> QED
      BY <3>1, MaxMinOfTwo
  <2>14. PICK m \in Nat : m = Sharing(ts, i) /\ m = IF last <= n THEN last ELSE n
    BY <2>6, <2>7
  <2>8. m \in 0..n /\ m < ByteBits /\ m \in 0..(Len(ts) - i) /\ (m < ByteBits - 1 => m = n)
    BY <2>5, <2>14, SizeFacts
  <2>9. ASSUME NEW k \in i..(i + n)
        PROVE  ts[k].kind = "bool" /\ RunStart(ts, k) = s
    <3>1. k \in i..Len(ts) /\ \A j \in i..k : ts[j].kind = "bool"
      BY <2>3
    <3> QED
      BY <2>1, <3>1, RunOfNeighbour
  <2>10. ASSUME NEW k \in i..(i + m)
         PROVE  ts[k].kind = "bool" /\ RunStart(ts, k) = s /\ (k - s) % ByteBits = k - i
    <3>1. k \in i..(i + n) /\ k - i \in 0..(ByteBits - 1) /\ k - s = (i - s) + (k - i)
      BY <2>8, SizeFacts
    <3>2. ((i - s) + (k - i)) % ByteBits = k - i
      BY <2>4, <3>1, MultipleFacts, SizeFacts
    <3> QED
      BY <2>9, <3>1, <3>2
  <2>11. i + m + 1 \in Starts(ts)
    <3> SUFFICES ASSUME i + m + 1 # Len(ts) + 1, ts[i + m + 1].kind = "bool"
                 PROVE  ((i + m + 1) - RunStart(ts, i + m + 1)) % ByteBits = 0
      BY <2>8 DEF Starts, IsStart
    <3>1. m = ByteBits - 1 /\ m < n
      <4>1. i + n # Len(ts) \/ m # n
        BY <2>2, <2>8
      <4>2. m # n
        BY <2>3, <4>1
      <4> QED
        BY <2>8, <4>2, SizeFacts
    <3>2. i + m + 1 \in i..(i + n)
      BY <3>1
    <3>3. RunStart(ts, i + m + 1) = s
      BY <2>9, <3>2
    <3>4. (i + m + 1) - s = (i - s) + ByteBits
      BY <3>1, SizeFacts
    <3>5. ((i - s) + ByteBits) % ByteBits = 0
      BY <2>4, MultipleFacts, SizeFacts
    <3> QED
      BY <3>3, <3>4, <3>5
  <2>12. Following(ts, i) = i + m + 1
    BY <2>14 DEF Following
  <2>13. m < ByteBits - 1 /\ i + m + 1 <= Len(ts) => ts[i + m + 1].kind # "bool"
    BY <2>3, <2>8
  <2>15. \A k \in i..(i + m) : /\ ts[k].kind = "bool" /\ RunStart(ts, k) = RunStart(ts, i)
                               /\ (k - RunStart(ts, k)) % ByteBits = k - i
    BY <2>1, <2>10
  <2>16. Sharing(ts, i) = m
    BY <2>14
  <2> HIDE DEF Sharing, Following
  <2>17. Sharing(ts, i) \in 0..(Len(ts) - i) /\ Sharing(ts, i) < ByteBits
    BY <2>8, <2>16
  <2>18. Following(ts, i) \in Starts(ts) /\ Following(ts, i) > i
    BY <2>11, <2>12
  <2>19. \A k \in i..(i + Sharing(ts, i)) : /\ ts[k].kind = "bool"
                                            /\ RunStart(ts, k) = RunStart(ts, i)
                                            /\ (k - RunStart(ts, k)) % ByteBits = k - i
    BY <2>15, <2>16, Zenon
  <2>20. Sharing(ts, i) < ByteBits - 1 /\ Following(ts, i) <= Len(ts) =>
           ts[Following(ts, i)].kind # "bool"
    BY <2>12, <2>13, <2>16, Zenon
  <2>21. i - RunStart(ts, i) \in Nat
    BY <2>1, <2>4
  <2> QED
    BY <1>2, <2>17, <2>18, <2>19, <2>20, <2>21, Zenon
<1> QED
  BY <1>1, <1>2

\* From the last start back.
LEMMA StartsBack ==
  ASSUME NEW ts \in Seq(Types), NEW P \in SUBSET Starts(ts), Len(ts) + 1 \in P,
         \A i \in Starts(ts) : i <= Len(ts) /\ Following(ts, i) \in P => i \in P
  PROVE  P = Starts(ts)
<1> DEFINE S == Starts(ts)
           rank == [i \in S |-> Len(ts) + 1 - i]
<1>1. \A i \in S : i \in 1..(Len(ts) + 1) /\ IsStart(ts, i)
  BY DEF Starts
<1>2. rank \in [S -> Nat] /\ \A i \in S : rank[i] = Len(ts) + 1 - i
  BY <1>1
<1> HIDE DEF rank
<1>3. ASSUME NEW i \in S, \A j \in S : rank[j] < rank[i] => j \in P PROVE i \in P
  <2>1. CASE i = Len(ts) + 1
    BY <2>1
  <2>2. CASE i # Len(ts) + 1
    <3>1. i \in 1..Len(ts) /\ IsStart(ts, i)
      BY <1>1, <2>2
    <3>2. PICK j \in S : j = Following(ts, i) /\ j > i
      BY <3>1, StartFacts
    <3>3. rank[j] < rank[i]
      BY <1>1, <1>2, <3>1, <3>2
    <3> QED
      BY <1>3, <3>1, <3>2, <3>3
  <2> QED
    BY <2>1, <2>2
<1>4. \A i \in S : (\A j \in S : rank[j] < rank[i] => j \in P) => i \in P
  BY <1>3
<1>5. Hereditary(S, rank, P)
  BY <1>2, <1>4 DEF Hereditary
<1> HIDE DEF S
<1>6. P = S
  BY <1>5, RankInduction
<1> QED
  BY <1>6 DEF S

\* Nothing between a start and the one after it is a start.
LEMMA NoStartBetween ==
  ASSUME NEW ts \in Seq(Types), NEW i \in 1..Len(ts), IsStart(ts, i),
         NEW j \in Starts(ts), j > i
  PROVE  Following(ts, i) <= j
<1> SUFFICES ASSUME j < Following(ts, i) PROVE FALSE
  <2>1. Following(ts, i) \in Int /\ j \in Int
    BY StartFacts DEF Starts
  <2> QED
    BY <2>1
<1>1. PICK m \in 0..(Len(ts) - i) : m = Sharing(ts, i)
  BY StartFacts
<1>2. j \in i..(i + m) /\ j <= Len(ts)
  BY <1>1 DEF Following, Starts
<1>3. ts[j].kind = "bool" /\ (j - RunStart(ts, j)) % ByteBits = j - i
  BY <1>1, <1>2, StartFacts
<1>4. (j - RunStart(ts, j)) % ByteBits = 0
  BY <1>2, <1>3 DEF Starts, IsStart
<1> QED
  BY <1>2, <1>3, <1>4

\* The first item is a start, and so is the end.
LEMMA FirstStart ==
  ASSUME NEW ts \in Seq(Types)
  PROVE  1 \in Starts(ts) /\ Len(ts) + 1 \in Starts(ts)
<1>1. Len(ts) + 1 \in Starts(ts)
  BY DEF Starts, IsStart
<1>2. ASSUME 1 # Len(ts) + 1, ts[1].kind = "bool" PROVE (1 - RunStart(ts, 1)) % ByteBits = 0
  <2>1. 1 \in 1..Len(ts)
    BY <1>2
  <2>2. RunStart(ts, 1) \in 1..1
    BY <1>2, <2>1, RunFacts
  <2>3. 1 - RunStart(ts, 1) = 0 /\ 0 % ByteBits = 0
    BY <2>2, SizeFacts
  <2> QED
    BY <2>3
<1>3. 1 \in Starts(ts)
  BY <1>2 DEF Starts, IsStart
<1> QED
  BY <1>1, <1>3

\* From the first start on.
LEMMA StartsOn ==
  ASSUME NEW ts \in Seq(Types), NEW P \in SUBSET Starts(ts), 1 \in P,
         \A i \in P : i <= Len(ts) => Following(ts, i) \in P
  PROVE  P = Starts(ts)
<1> SUFFICES ASSUME NEW j \in Starts(ts), j \notin P PROVE FALSE
  OBVIOUS
<1>1. \A i \in Starts(ts) : i \in 1..(Len(ts) + 1) /\ IsStart(ts, i)
  BY DEF Starts
<1> DEFINE S == {i \in P : i < j}
<1>2. 1 \in S /\ S \in SUBSET (0..Len(ts)) /\ Len(ts) \in Nat
  BY <1>1
<1>3. Max(S) \in S /\ \A x \in S : x <= Max(S)
  <2>1. S # {}
    BY <1>2
  <2> HIDE DEF S
  <2> QED
    BY <1>2, <2>1, MaxIsLargest
<1>4. PICK i \in S : \A x \in S : x <= i
  <2> HIDE DEF S
  <2> QED
    BY <1>3
<1>5. i \in P /\ i < j /\ i \in 1..Len(ts) /\ IsStart(ts, i)
  BY <1>1, <1>2
<1>6. PICK k \in P : k = Following(ts, i) /\ k > i
  <2>1. Following(ts, i) \in P
    BY <1>5
  <2>2. Following(ts, i) > i
    BY <1>5, StartFacts
  <2> QED
    BY <2>1, <2>2
<1>7. k <= j /\ k # j
  BY <1>5, <1>6, NoStartBetween
<1>8. k \in S
  BY <1>1, <1>6, <1>7
<1>9. k <= i /\ k \in Int /\ i \in Int
  BY <1>1, <1>4, <1>5, <1>8
<1> QED
  BY <1>6, <1>9

\* Taking all the items of an array for bools makes no difference where they are.
LEMMA SharingFacts ==
  ASSUME NEW ts \in Seq(Types), NEW i \in 1..Len(ts), IsStart(ts, i), ts[i].kind = "bool",
         NEW homogeneous \in BOOLEAN, homogeneous => \A k \in 1..Len(ts) : ts[k].kind = "bool"
  PROVE  /\ Min({ByteBits - 1, BoolsFrom(ts, i, 1, homogeneous)}) = Sharing(ts, i)
         /\ BoolsFrom(ts, i, -1, homogeneous) % ByteBits = 0
<1>1. PICK s \in 1..i : s = RunStart(ts, i)
  BY RunFacts
<1>2. PICK n \in 0..(Len(ts) - i) : n = BoolsFrom(ts, i, 1, FALSE)
  BY RunFacts
<1>3. Sharing(ts, i) = Min({ByteBits - 1, n})
  BY <1>2 DEF Sharing
<1>4. BoolsFrom(ts, i, -1, FALSE) = i - s /\ (i - s) % ByteBits = 0
  <2>1. BoolsFrom(ts, i, -1, FALSE) = i - s
    BY <1>1, RunFacts
  <2>2. (i - s) % ByteBits = 0
    BY <1>1 DEF IsStart
  <2> QED
    BY <2>1, <2>2
<1>5. CASE ~homogeneous
  <2>1. homogeneous = FALSE
    BY <1>5
  <2> QED
    BY <1>2, <1>3, <1>4, <2>1
<1>6. CASE homogeneous
  <2>1. \A k \in 1..Len(ts) : ts[k].kind = "bool"
    BY <1>6
  <2>2. i + n = Len(ts) \/ ts[i + n + 1].kind # "bool"
    BY <1>2, RunFacts
  <2>3. n = Len(ts) - i
    <3>1. ASSUME NEW a \in Nat, NEW b \in Nat, NEW c \in 0..(a - b), b \in 1..a, b + c # a
          PROVE  b + c + 1 \in 1..a
      BY <3>1
    <3>2. PICK m \in Nat : m = Len(ts)
      OBVIOUS
    <3>3. i \in Nat /\ i \in 1..m /\ n \in 0..(m - i)
      BY <3>2
    <3>4. i + n # Len(ts) => i + n + 1 \in 1..Len(ts)
      BY <3>1, <3>2, <3>3
    <3>5. i + n = m
      BY <2>1, <2>2, <3>2, <3>4
    <3>6. n = m - i
      BY <3>3, <3>5
    <3> QED
      BY <3>2, <3>6
  <2>4. BoolsFrom(ts, i, 1, homogeneous) = Len(ts) - i /\ BoolsFrom(ts, i, -1, homogeneous) = 0
    BY <1>6 DEF BoolsFrom
  <2>5. 0 % ByteBits = 0
    BY SizeFacts
  <2> QED
    BY <1>3, <2>3, <2>4, <2>5
<1> QED
  BY <1>5, <1>6

-----------------------------------------------------------------------------
(* Where the heads are.                                                    *)

\* The heads of the items up to one are those before it and its own.
LEMMA HeadByFacts ==
  ASSUME NEW ts \in Seq(Types), NEW size,
         \A k \in 1..Len(ts) : Cost(size, ts, k) \in Nat
  PROVE  /\ HeadBy(size, ts, 1) = 0
         /\ \A i \in 1..Len(ts) :
              HeadBy(size, ts, i + 1) = HeadBy(size, ts, i) + Cost(size, ts, i)
         /\ \A i \in 1..(Len(ts) + 1) : HeadBy(size, ts, i) \in Nat
<1> DEFINE cost == [k \in 1..Len(ts) |-> Cost(size, ts, k)]
           step == [n \in Nat |-> [a \in Nat |-> IF n \in 1..Len(ts) THEN a + cost[n] ELSE a]]
<1>1. cost \in [1..Len(ts) -> Nat]
  OBVIOUS
<1>2. step \in [Nat -> [Nat -> Nat]]
  <2> HIDE DEF cost
  <2> QED
    BY <1>1
<1>3. PICK f \in [Nat -> Nat] : Follows(f, 0, step)
  <2> HIDE DEF step
  <2> QED
    BY <1>2, Recursion
<1>4. f[0] = 0 /\ \A n \in Nat : f[n + 1] = step[n + 1][f[n]]
  <2> HIDE DEF step
  <2> QED
    BY <1>3 DEF Follows
<1>5. \A n \in 0..(Len(ts) - 1) : f[n + 1] = f[n] + cost[n + 1]
  <2> TAKE n \in 0..(Len(ts) - 1)
  <2>1. n + 1 \in 1..Len(ts) /\ n \in Nat
    OBVIOUS
  <2>2. step[n + 1][f[n]] = f[n] + cost[n + 1]
    <3> HIDE DEF cost
    <3> QED
      BY <1>1, <2>1
  <2> HIDE DEF cost, step
  <2> QED
    BY <1>4, <2>1, <2>2
<1>6. ASSUME NEW i \in 1..(Len(ts) + 1) PROVE HeadBy(size, ts, i) = f[i - 1]
  <2> DEFINE Is(at) ==
        at = [k \in 1..i |-> IF k = 1 THEN 0 ELSE at[k - 1] + Cost(size, ts, k - 1)]
      at == [k \in 1..i |-> f[k - 1]]
  <2>1. Is(at)
    <3>1. ASSUME NEW k \in 1..i
          PROVE  at[k] = IF k = 1 THEN 0 ELSE at[k - 1] + Cost(size, ts, k - 1)
      <4>1. CASE k = 1
        BY <1>4, <4>1
      <4>2. CASE k # 1
        <5>1. k - 2 \in 0..(Len(ts) - 1) /\ k - 1 \in 1..i /\ k - 1 \in 1..Len(ts)
          BY <4>2
        <5>2. f[(k - 2) + 1] = f[k - 2] + cost[(k - 2) + 1]
          BY <1>5, <5>1
        <5>3. (k - 2) + 1 = k - 1 /\ (k - 1) - 1 = k - 2
          OBVIOUS
        <5> QED
          BY <4>2, <5>1, <5>2, <5>3
      <4> QED
        BY <4>1, <4>2
    <3> QED
      BY <3>1
  <2>2. Is(CHOOSE u : Is(u))
    <3> HIDE DEF Is
    <3> QED
      BY <2>1
  <2>3. PICK g : g = (CHOOSE u : Is(u)) /\ Is(g) /\ HeadBy(size, ts, i) = g[i]
    BY <2>2 DEF HeadBy
  <2> DEFINE P == {n \in Nat : n + 1 \in 1..i => g[n + 1] = f[n]}
  <2>4. 0 \in P
    <3>1. 0 + 1 = 1 /\ 1 \in 1..i
      OBVIOUS
    <3>2. g[1] = 0
      BY <2>3, <3>1
    <3> QED
      BY <1>4, <3>1, <3>2
  <2>5. ASSUME NEW n \in P PROVE n + 1 \in P
    <3> SUFFICES ASSUME (n + 1) + 1 \in 1..i PROVE g[(n + 1) + 1] = f[n + 1]
      OBVIOUS
    <3>1. n + 1 \in 1..i /\ n \in 0..(Len(ts) - 1) /\ n + 1 \in 1..Len(ts)
      OBVIOUS
    <3>2. g[(n + 1) + 1] = g[n + 1] + Cost(size, ts, n + 1)
      <4>1. (n + 1) + 1 # 1 /\ ((n + 1) + 1) - 1 = n + 1
        OBVIOUS
      <4> QED
        BY <2>3, <4>1
    <3>3. g[n + 1] = f[n]
      BY <3>1
    <3>4. f[n + 1] = f[n] + cost[n + 1]
      BY <1>5, <3>1
    <3> QED
      BY <3>1, <3>2, <3>3, <3>4
  <2>6. P = Nat
    <3> HIDE DEF P
    <3> QED
      BY <2>4, <2>5, Induction DEF P
  <2>7. PICK n \in Nat : n = i - 1
    OBVIOUS
  <2>8. n + 1 = i /\ f[i - 1] = f[n]
    BY <2>7
  <2>9. n \in P
    BY <2>6
  <2>10. g[n + 1] = f[n]
    BY <2>8, <2>9
  <2> QED
    BY <2>3, <2>8, <2>10
<1>7. ASSUME NEW i \in 1..Len(ts)
      PROVE  HeadBy(size, ts, i + 1) = HeadBy(size, ts, i) + Cost(size, ts, i)
  <2>1. HeadBy(size, ts, i + 1) = f[i] /\ HeadBy(size, ts, i) = f[i - 1]
    <3>1. PICK j \in 1..(Len(ts) + 1) : j = i + 1
      OBVIOUS
    <3>2. HeadBy(size, ts, j) = f[j - 1] /\ j - 1 = i
      BY <1>6, <3>1
    <3> QED
      BY <1>6, <3>1, <3>2
  <2>2. i - 1 \in 0..(Len(ts) - 1) /\ (i - 1) + 1 = i
    OBVIOUS
  <2>3. f[(i - 1) + 1] = f[i - 1] + cost[(i - 1) + 1]
    BY <1>5, <2>2
  <2> QED
    BY <2>1, <2>2, <2>3
<1>8. HeadBy(size, ts, 1) = 0
  BY <1>4, <1>6
<1>9. \A i \in 1..(Len(ts) + 1) : HeadBy(size, ts, i) \in Nat
  BY <1>6
<1> QED
  BY <1>7, <1>8, <1>9

\* What an item adds to the heads depends on its own size only.
LEMMA CostFacts ==
  ASSUME NEW ts \in Seq(Types), NEW size, NEW i \in 1..Len(ts), size[ts[i]] \in Nat
  PROVE  /\ Cost(size, ts, i) \in Nat
         /\ IsDynamic[ts[i]] => ts[i].kind # "bool" /\ Cost(size, ts, i) = LengthSize
         /\ ts[i].kind = "bool" =>
              /\ ~IsDynamic[ts[i]]
              /\ Cost(size, ts, i) = IF IsStart(ts, i) THEN 1 ELSE 0
         /\ ts[i].kind # "bool" /\ ~IsDynamic[ts[i]] => Cost(size, ts, i) = size[ts[i]]
<1>1. ts[i] \in Types
  OBVIOUS
<1>2. ts[i].kind = "bool" => ~IsDynamic[ts[i]]
  <2> SUFFICES ASSUME ts[i].kind = "bool" PROVE ~IsDynamic[ts[i]]
    OBVIOUS
  <2>1. ts[i].of = << >>
    BY <1>1, TypeFacts DEF Leaves
  <2>2. DOMAIN ts[i].of = {}
    BY <2>1
  <2> QED
    BY <1>1, <2>2, DynamicDef
<1>3. CASE IsDynamic[ts[i]]
  BY <1>2, <1>3 DEF Cost, LengthSize
<1>4. CASE ~IsDynamic[ts[i]] /\ ts[i].kind = "bool"
  <2>1. i # Len(ts) + 1
    OBVIOUS
  <2>2. IsStart(ts, i) <=> (i - RunStart(ts, i)) % ByteBits = 0
    BY <1>4, <2>1 DEF IsStart
  <2>3. Cost(size, ts, i) = IF (i - RunStart(ts, i)) % ByteBits = 0 THEN 1 ELSE 0
    BY <1>4 DEF Cost
  <2> QED
    BY <1>4, <2>2, <2>3
<1>5. CASE ~IsDynamic[ts[i]] /\ ts[i].kind # "bool"
  BY <1>5 DEF Cost
<1> QED
  BY <1>3, <1>4, <1>5

\* The heads are where they are whatever the sizes of other types.
LEMMA HeadBySame ==
  ASSUME NEW ts \in Seq(Types), NEW g, NEW h,
         \A k \in 1..Len(ts) : g[ts[k]] \in Nat /\ g[ts[k]] = h[ts[k]]
  PROVE  \A i \in 1..(Len(ts) + 1) : HeadBy(g, ts, i) = HeadBy(h, ts, i)
<1>1. \A k \in 1..Len(ts) : Cost(g, ts, k) \in Nat /\ Cost(g, ts, k) = Cost(h, ts, k)
  <2> TAKE k \in 1..Len(ts)
  <2>1. Cost(g, ts, k) \in Nat
    BY CostFacts
  <2>2. Cost(g, ts, k) = Cost(h, ts, k)
    BY DEF Cost
  <2> QED
    BY <2>1, <2>2
<1>2. /\ HeadBy(g, ts, 1) = 0 /\ HeadBy(h, ts, 1) = 0
      /\ \A i \in 1..Len(ts) : /\ HeadBy(g, ts, i + 1) = HeadBy(g, ts, i) + Cost(g, ts, i)
                               /\ HeadBy(h, ts, i + 1) = HeadBy(h, ts, i) + Cost(h, ts, i)
  BY <1>1, HeadByFacts
<1> DEFINE P == {n \in Nat : n < Len(ts) + 1 => HeadBy(g, ts, n + 1) = HeadBy(h, ts, n + 1)}
<1>3. 0 \in P
  BY <1>2
<1>4. ASSUME NEW n \in P PROVE n + 1 \in P
  <2> SUFFICES ASSUME n + 1 < Len(ts) + 1
               PROVE  HeadBy(g, ts, (n + 1) + 1) = HeadBy(h, ts, (n + 1) + 1)
    OBVIOUS
  <2>1. PICK i \in 1..Len(ts) : i = n + 1
    OBVIOUS
  <2>2. HeadBy(g, ts, i) = HeadBy(h, ts, i)
    BY <2>1
  <2>3. HeadBy(g, ts, i + 1) = HeadBy(h, ts, i + 1)
    BY <1>1, <1>2, <2>2
  <2> QED
    BY <2>1, <2>3
<1>5. P = Nat
  <2> HIDE DEF P
  <2> QED
    BY <1>3, <1>4, Induction DEF P
<1> SUFFICES ASSUME NEW i \in 1..(Len(ts) + 1) PROVE HeadBy(g, ts, i) = HeadBy(h, ts, i)
  OBVIOUS
<1>6. PICK n \in P : n + 1 = i
  <2>1. i - 1 \in Nat /\ (i - 1) + 1 = i
    OBVIOUS
  <2> QED
    BY <1>5, <2>1
<1> QED
  BY <1>6

\* The size of a static type is that of the heads of its items.
LEMMA SizeDef ==
  \A t \in Types :
    /\ Size[t] \in Nat
    /\ t.kind \in Leaves => Size[t] = t.size
    /\ t.kind \notin Leaves =>
         Size[t] = HeadAt(ChildTypes(t, t.size), Len(ChildTypes(t, t.size)) + 1)
<1> DEFINE Body(g, t) == IF t.kind \in Leaves THEN t.size
                         ELSE HeadBy(g, ChildTypes(t, t.size), Len(ChildTypes(t, t.size)) + 1)
           Is(f) == f = [t \in Types |-> Body(f, t)]
           T == [t \in Types |-> Nat]
           G == [t \in Types |-> [g \in Into(Types, T) |-> Body(g, t)]]
<1>1. \A t \in Types : \A g \in Into(Types, T) : G[t][g] = Body(g, t)
  OBVIOUS
<1>2. \A t \in Types : T[t] = Nat
  OBVIOUS
<1> HIDE DEF G, T
<1>3. ASSUME NEW t \in Types, NEW g \in Into(Types, T) PROVE G[t][g] \in T[t]
  <2>1. ChildTypes(t, t.size) \in Seq(Types) /\ t.size \in Nat
    BY ChildFacts, TypeFacts
  <2>2. PICK ts \in Seq(Types) : ts = ChildTypes(t, t.size)
    BY <2>1
  <2>3. \A k \in 1..Len(ts) : g[ts[k]] \in Nat
    BY <1>2, IntoFacts
  <2>4. \A k \in 1..Len(ts) : Cost(g, ts, k) \in Nat
    BY <2>3, CostFacts
  <2>5. HeadBy(g, ts, Len(ts) + 1) \in Nat
    <3>1. PICK end \in 1..(Len(ts) + 1) : end = Len(ts) + 1
      OBVIOUS
    <3>2. HeadBy(g, ts, end) \in Nat
      BY <2>4, HeadByFacts
    <3> QED
      BY <3>1, <3>2
  <2> QED
    BY <1>1, <1>2, <2>1, <2>2, <2>5
<1>4. ASSUME NEW t \in Types, NEW g \in Into(Types, T), NEW h \in Into(Types, T),
             \A i \in DOMAIN t.of : g[t.of[i]] = h[t.of[i]]
      PROVE  G[t][g] = G[t][h]
  <2>1. t.size \in Nat
    BY TypeFacts
  <2>2. PICK ts \in Seq(Types) : ts = ChildTypes(t, t.size)
    BY <2>1, ChildFacts
  <2>3. \A k \in 1..Len(ts) : \E j \in DOMAIN t.of : ts[k] = t.of[j]
    <3>1. DOMAIN ts = 1..Len(ts)
      OBVIOUS
    <3> QED
      BY <2>1, <2>2, <3>1, ChildFacts
  <2>4. \A k \in 1..Len(ts) : g[ts[k]] \in Nat /\ g[ts[k]] = h[ts[k]]
    BY <1>2, <1>4, <2>3, IntoFacts
  <2>5. HeadBy(g, ts, Len(ts) + 1) = HeadBy(h, ts, Len(ts) + 1)
    <3>1. PICK end \in 1..(Len(ts) + 1) : end = Len(ts) + 1
      OBVIOUS
    <3>2. HeadBy(g, ts, end) = HeadBy(h, ts, end)
      BY <2>4, HeadBySame
    <3> QED
      BY <3>1, <3>2
  <2> QED
    BY <1>1, <2>2, <2>5
<1>5. PICK f \in Into(Types, T) : \A t \in Types : f[t] = G[t][f]
  <2>1. \A t \in Types : T[t] # {}
    BY <1>2
  <2>2. \A t \in Types : \A g, h \in Into(Types, T) :
          (\A i \in DOMAIN t.of : g[t.of[i]] = h[t.of[i]]) => G[t][g] = G[t][h]
    BY <1>4
  <2>3. ByItems(T, G)
    BY <1>3, <2>1, <2>2 DEF ByItems
  <2> QED
    BY <2>3, TypeRecursion
<1>6. Is(f)
  <2>1. f = [t \in Types |-> f[t]]
    BY IntoFacts
  <2>2. \A t \in Types : f[t] = Body(f, t)
    BY <1>1, <1>5
  <2> HIDE DEF Body
  <2> QED
    BY <2>1, <2>2
<1>7. PICK u : u = (CHOOSE g : Is(g)) /\ Is(u)
  <2> HIDE DEF Is
  <2> QED
    BY <1>6
<1>8. Size = u
  BY <1>7 DEF Size
<1>9. \A t \in Types : u[t] = Body(u, t)
  BY <1>7
<1> DEFINE P == {t \in Types : u[t] \in Nat}
<1>10. ASSUME NEW t \in Types, \A i \in DOMAIN t.of : t.of[i] \in P PROVE t \in P
  <2>1. t.size \in Nat
    BY TypeFacts
  <2>2. PICK ts \in Seq(Types) : ts = ChildTypes(t, t.size)
    BY <2>1, ChildFacts
  <2>3. \A k \in 1..Len(ts) : u[ts[k]] \in Nat
    <3>1. DOMAIN ts = 1..Len(ts)
      OBVIOUS
    <3> QED
      BY <1>10, <2>1, <2>2, <3>1, ChildFacts
  <2>4. \A k \in 1..Len(ts) : Cost(u, ts, k) \in Nat
    BY <2>3, CostFacts
  <2>5. HeadBy(u, ts, Len(ts) + 1) \in Nat
    <3>1. PICK end \in 1..(Len(ts) + 1) : end = Len(ts) + 1
      OBVIOUS
    <3>2. HeadBy(u, ts, end) \in Nat
      BY <2>4, HeadByFacts
    <3> QED
      BY <3>1, <3>2
  <2> QED
    BY <1>9, <2>1, <2>2, <2>5
<1>11. P = Types
  <2> HIDE DEF P
  <2>1. P \in SUBSET Types
    BY DEF P
  <2> QED
    BY <1>10, <2>1, TypeInduction
<1> QED
  BY <1>8, <1>9, <1>11 DEF HeadAt

-----------------------------------------------------------------------------
(* The length of a static type.                                            *)

Lengths == Nat \cup {NoLength}

\* The item after the run of bools of one, and the bytes of that run, or of the item.
AfterRun(ts, i) == IF ts[i].kind = "bool" THEN i + BoolsFrom(ts, i, 1, FALSE) + 1 ELSE i + 1
RunLength(length, ts, i) ==
  IF ts[i].kind = "bool" THEN (BoolsFrom(ts, i, 1, FALSE) + 1 + ByteBits - 1) \div ByteBits
  ELSE length[ts[i]]
SumLengths(m, n) == IF NoLength \in {m, n} THEN NoLength ELSE m + n

\* f has the sums of the lengths of the items from each start of a run on.
SumsUp(length, ts, f) ==
  /\ f \in [1..(Len(ts) + 1) -> Lengths]
  /\ LengthOf(length, ts) = f[1] /\ f[Len(ts) + 1] = 0
  /\ \A i \in 1..Len(ts) : f[i] = SumLengths(RunLength(length, ts, i), f[AfterRun(ts, i)])

\* The sum of the lengths from an item on is that of its run and of what is after the run.
LEMMA LengthOfFacts ==
  ASSUME NEW ts \in Seq(Types), NEW length, \A k \in 1..Len(ts) : length[ts[k]] \in Lengths
  PROVE  /\ \A i \in 1..Len(ts) : /\ AfterRun(ts, i) \in (i + 1)..(Len(ts) + 1)
                                  /\ RunLength(length, ts, i) \in Lengths
         /\ \E f : SumsUp(length, ts, f)
<1> DEFINE Bools(i) == IF ts[i].kind = "bool" THEN BoolsFrom(ts, i, 1, FALSE) + 1 ELSE 0
<1>1. ASSUME NEW i \in 1..Len(ts)
      PROVE  /\ AfterRun(ts, i) \in (i + 1)..(Len(ts) + 1)
             /\ RunLength(length, ts, i) \in Lengths
             /\ i + Max({1, Bools(i)}) = AfterRun(ts, i)
             /\ (IF Bools(i) > 0 THEN (Bools(i) + ByteBits - 1) \div ByteBits ELSE length[ts[i]])
                  = RunLength(length, ts, i)
  <2>1. CASE ts[i].kind # "bool"
    <3>1. Bools(i) = 0 /\ AfterRun(ts, i) = i + 1 /\ RunLength(length, ts, i) = length[ts[i]]
      BY <2>1 DEF AfterRun, RunLength
    <3>2. Max({1, 0}) = 1
      <4>1. 1 \in Int /\ 0 \in Int /\ 1 >= 0
        OBVIOUS
      <4> QED
        BY <4>1, MaxMinOfTwo
    <3> HIDE DEF Bools
    <3> QED
      BY <3>1, <3>2
  <2>2. CASE ts[i].kind = "bool"
    <3>1. PICK n \in 0..(Len(ts) - i) : n = BoolsFrom(ts, i, 1, FALSE)
      BY <2>2, RunFacts
    <3>2. PICK m \in Nat \ {0} : m = n + 1 /\ m <= Len(ts) + 1 - i
      OBVIOUS
    <3>3. Max({1, m}) = m
      <4>1. 1 \in Int /\ m \in Int /\ (1 >= m => m = 1)
        OBVIOUS
      <4> QED
        BY <4>1, MaxMinOfTwo
    <3>4. m + ByteBits - 1 \in Nat
      BY SizeFacts
    <3>5. (m + ByteBits - 1) \div ByteBits \in Nat
      BY <3>4, Division, SizeFacts
    <3>6. AfterRun(ts, i) = i + n + 1 /\ Bools(i) = n + 1
      BY <2>2, <3>1 DEF AfterRun
    <3>7. RunLength(length, ts, i) = (n + 1 + ByteBits - 1) \div ByteBits
      BY <2>2, <3>1 DEF RunLength
    <3>8. i + n + 1 = i + m /\ i + m \in (i + 1)..(Len(ts) + 1) /\ m > 0
      <4>1. Len(ts) \in Nat /\ i \in Nat /\ n \in Nat /\ m >= 1
        OBVIOUS
      <4> QED
        BY <3>2, <4>1
    <3>9. Bools(i) = m /\ AfterRun(ts, i) = i + m
      BY <3>2, <3>6, <3>8
    <3>10. RunLength(length, ts, i) = (m + ByteBits - 1) \div ByteBits
      BY <3>2, <3>7
    <3> HIDE DEF Bools
    <3> QED
      BY <3>3, <3>5, <3>8, <3>9, <3>10 DEF Lengths
  <2> QED
    BY <2>1, <2>2
<1> DEFINE S == 1..(Len(ts) + 1)
           Body(f, i) == IF i > Len(ts) THEN 0
                         ELSE SumLengths(RunLength(length, ts, i), f[AfterRun(ts, i)])
           rank == [i \in S |-> Len(ts) + 1 - i]
           T == [i \in S |-> Lengths]
           G == [i \in S |-> [g \in Into(S, T) |-> Body(g, i)]]
<1>2. /\ rank \in [S -> Nat] /\ \A i \in S : rank[i] = Len(ts) + 1 - i
      /\ \A i \in S : T[i] = Lengths
      /\ \A i \in S : \A g \in Into(S, T) : G[i][g] = Body(g, i)
  OBVIOUS
<1>3. \A m, n \in Lengths : SumLengths(m, n) \in Lengths
  BY DEF SumLengths, Lengths, NoLength
<1> HIDE DEF rank, T, G
<1>4. ASSUME NEW i \in S, NEW g \in Into(S, T) PROVE G[i][g] \in T[i]
  <2>1. CASE i > Len(ts)
    BY <1>2, <2>1 DEF Lengths
  <2>2. CASE ~(i > Len(ts))
    <3>1. i \in 1..Len(ts)
      BY <2>2
    <3>2. AfterRun(ts, i) \in S
      <4>1. AfterRun(ts, i) \in (i + 1)..(Len(ts) + 1)
        BY <1>1, <3>1
      <4> QED
        BY <4>1
    <3>3. g[AfterRun(ts, i)] \in Lengths
      <4> HIDE DEF S
      <4>1. \A j \in S : g[j] \in T[j]
        BY IntoFacts
      <4> QED
        BY <1>2, <3>2, <4>1
    <3>4. RunLength(length, ts, i) \in Lengths
      BY <1>1, <3>1
    <3>5. SumLengths(RunLength(length, ts, i), g[AfterRun(ts, i)]) \in Lengths
      BY <1>3, <3>3, <3>4
    <3>6. Body(g, i) \in Lengths
      BY <2>2, <3>5
    <3> HIDE DEF Body
    <3> QED
      BY <1>2, <3>6
  <2> QED
    BY <2>1, <2>2
<1>5. ASSUME NEW i \in S, NEW g \in Into(S, T), NEW h \in Into(S, T),
             \A j \in S : rank[j] < rank[i] => g[j] = h[j]
      PROVE  G[i][g] = G[i][h]
  <2>1. CASE i > Len(ts)
    BY <1>2, <2>1
  <2>2. CASE ~(i > Len(ts))
    <3>1. i \in 1..Len(ts)
      BY <2>2
    <3>2. PICK j \in S : j = AfterRun(ts, i) /\ j > i
      <4>1. AfterRun(ts, i) \in (i + 1)..(Len(ts) + 1)
        BY <1>1, <3>1
      <4> QED
        BY <4>1
    <3>3. rank[j] < rank[i]
      BY <1>2, <3>2
    <3> QED
      BY <1>2, <1>5, <3>2, <3>3
  <2> QED
    BY <2>1, <2>2
<1>6. PICK f \in Into(S, T) : \A i \in S : f[i] = G[i][f]
  <2>1. /\ \A i \in S : T[i] # {}
        /\ \A i \in S : \A g \in Into(S, T) : G[i][g] \in T[i]
        /\ \A i \in S : \A g, h \in Into(S, T) :
             (\A j \in S : rank[j] < rank[i] => g[j] = h[j]) => G[i][g] = G[i][h]
    BY <1>2, <1>4, <1>5 DEF Lengths
  <2> HIDE DEF S
  <2>2. Recursive(S, rank, T, G)
    BY <1>2, <2>1 DEF Recursive
  <2> QED
    BY <2>2, RankedRecursion
<1> DEFINE Raw(from, i) ==
             IF i > Len(ts) THEN 0
             ELSE LET bools == IF ts[i].kind = "bool" THEN BoolsFrom(ts, i, 1, FALSE) + 1 ELSE 0
                      first == IF bools > 0 THEN (bools + ByteBits - 1) \div ByteBits
                               ELSE length[ts[i]]
                      rest == from[i + Max({1, bools})]
                  IN  IF NoLength \in {first, rest} THEN NoLength ELSE first + rest
           Is(from) == from = [i \in 1..(Len(ts) + 1) |-> Raw(from, i)]
<1>7. ASSUME NEW from, NEW i \in S PROVE Raw(from, i) = Body(from, i)
  <2>1. CASE i > Len(ts)
    BY <2>1
  <2>2. CASE ~(i > Len(ts))
    <3>1. i \in 1..Len(ts)
      BY <2>2
    <3> HIDE DEF Bools
    <3>2. Body(from, i) = SumLengths(RunLength(length, ts, i), from[AfterRun(ts, i)])
      BY <2>2
    <3> HIDE DEF Body
    <3>3. /\ i + Max({1, Bools(i)}) = AfterRun(ts, i)
          /\ (IF Bools(i) > 0 THEN (Bools(i) + ByteBits - 1) \div ByteBits ELSE length[ts[i]])
               = RunLength(length, ts, i)
      BY <1>1, <3>1
    <3>4. (LET first == IF Bools(i) > 0 THEN (Bools(i) + ByteBits - 1) \div ByteBits
                        ELSE length[ts[i]]
               rest == from[i + Max({1, Bools(i)})]
           IN  IF NoLength \in {first, rest} THEN NoLength ELSE first + rest)
          = SumLengths(RunLength(length, ts, i), from[AfterRun(ts, i)])
      BY <3>3 DEF SumLengths
    <3> QED
      BY <2>2, <3>2, <3>4 DEF Bools
  <2> QED
    BY <2>1, <2>2
<1>8. \A from : Is(from) <=> from = [i \in S |-> Body(from, i)]
  <2> TAKE from
  <2> HIDE DEF Raw, Body
  <2> QED
    BY <1>7
<1>9. Is(f)
  <2>1. f = [i \in S |-> f[i]] /\ \A i \in S : f[i] = Body(f, i)
    BY <1>2, <1>6, IntoFacts
  <2> HIDE DEF Is, Body, S
  <2> QED
    BY <1>8, <2>1
<1>10. PICK u : u = (CHOOSE g : Is(g)) /\ Is(u)
  <2> HIDE DEF Is
  <2> QED
    BY <1>9
<1>11. LengthOf(length, ts) = u[1]
  BY <1>10 DEF LengthOf
<1>12. u = [i \in S |-> Body(u, i)]
  <2> HIDE DEF Is, Body, S
  <2> QED
    BY <1>8, <1>10
<1>13. \A i \in S : u[i] = Body(u, i)
  BY <1>12
<1> DEFINE P == {i \in S : u[i] \in Lengths}
<1>14. ASSUME NEW i \in S, \A j \in S : rank[j] < rank[i] => j \in P PROVE i \in P
  <2>1. CASE i > Len(ts)
    BY <1>13, <2>1 DEF Lengths
  <2>2. CASE ~(i > Len(ts))
    <3>1. i \in 1..Len(ts)
      BY <2>2
    <3>2. PICK j \in S : j = AfterRun(ts, i) /\ j > i
      <4>1. AfterRun(ts, i) \in (i + 1)..(Len(ts) + 1)
        BY <1>1, <3>1
      <4> QED
        BY <4>1
    <3>3. rank[j] < rank[i]
      BY <1>2, <3>2
    <3>4. u[j] \in Lengths
      BY <1>14, <3>3
    <3>5. u[i] = Body(u, i)
      BY <1>13
    <3>6. Body(u, i) = SumLengths(RunLength(length, ts, i), u[AfterRun(ts, i)])
      BY <2>2
    <3>7. RunLength(length, ts, i) \in Lengths
      BY <1>1, <3>1
    <3> HIDE DEF Body
    <3>8. u[i] \in Lengths
      BY <1>3, <3>2, <3>4, <3>5, <3>6, <3>7
    <3> QED
      BY <3>8
  <2> QED
    BY <2>1, <2>2
<1>15. P = S
  <2>1. P \in SUBSET S
    OBVIOUS
  <2>2. \A i \in S : (\A j \in S : rank[j] < rank[i] => j \in P) => i \in P
    BY <1>14
  <2> HIDE DEF P, S
  <2>3. Hereditary(S, rank, P)
    BY <1>2, <2>1, <2>2 DEF Hereditary
  <2> QED
    BY <2>3, RankInduction
<1>16. u \in [1..(Len(ts) + 1) -> Lengths]
  BY <1>12, <1>15
<1>17. /\ u[Len(ts) + 1] = 0
       /\ \A i \in 1..Len(ts) :
            u[i] = SumLengths(RunLength(length, ts, i), u[AfterRun(ts, i)])
  BY <1>13
<1>18. SumsUp(length, ts, u)
  BY <1>11, <1>16, <1>17 DEF SumsUp
<1> HIDE DEF Bools
<1> QED
  BY <1>1, <1>18

\* A sum of lengths depends on those of its items only.
LEMMA LengthOfSame ==
  ASSUME NEW ts \in Seq(Types), NEW g, NEW h,
         \A k \in 1..Len(ts) : g[ts[k]] \in Lengths /\ g[ts[k]] = h[ts[k]]
  PROVE  LengthOf(g, ts) = LengthOf(h, ts)
<1> DEFINE S == 1..(Len(ts) + 1)
           rank == [i \in S |-> Len(ts) + 1 - i]
<1>1. rank \in [S -> Nat] /\ \A i \in S : rank[i] = Len(ts) + 1 - i
  OBVIOUS
<1>2. \A i \in 1..Len(ts) : AfterRun(ts, i) \in (i + 1)..(Len(ts) + 1)
  BY LengthOfFacts
<1>3. PICK u \in [S -> Lengths] :
        /\ LengthOf(g, ts) = u[1] /\ u[Len(ts) + 1] = 0
        /\ \A i \in 1..Len(ts) :
             u[i] = SumLengths(RunLength(g, ts, i), u[AfterRun(ts, i)])
  <2>1. PICK f : SumsUp(g, ts, f)
    BY LengthOfFacts
  <2> QED
    BY <2>1 DEF SumsUp
<1>4. PICK v \in [S -> Lengths] :
        /\ LengthOf(h, ts) = v[1] /\ v[Len(ts) + 1] = 0
        /\ \A i \in 1..Len(ts) :
             v[i] = SumLengths(RunLength(h, ts, i), v[AfterRun(ts, i)])
  <2>1. \A k \in 1..Len(ts) : h[ts[k]] \in Lengths
    OBVIOUS
  <2>2. PICK f : SumsUp(h, ts, f)
    BY <2>1, LengthOfFacts
  <2> QED
    BY <2>2 DEF SumsUp
<1> DEFINE P == {i \in S : u[i] = v[i]}
<1>5. ASSUME NEW i \in S, \A j \in S : rank[j] < rank[i] => j \in P PROVE i \in P
  <2>1. CASE i = Len(ts) + 1
    BY <1>3, <1>4, <2>1
  <2>2. CASE i # Len(ts) + 1
    <3>1. i \in 1..Len(ts)
      BY <2>2
    <3>2. AfterRun(ts, i) \in (i + 1)..(Len(ts) + 1)
      BY <1>2, <3>1
    <3>3. PICK j \in S : j = AfterRun(ts, i) /\ j > i
      BY <3>2
    <3>4. u[j] = v[j]
      BY <1>1, <1>5, <3>3
    <3>5. RunLength(g, ts, i) = RunLength(h, ts, i)
      BY <3>1 DEF RunLength
    <3>6. u[i] = v[i]
      BY <1>3, <1>4, <3>1, <3>3, <3>4, <3>5
    <3> QED
      BY <3>6
  <2> QED
    BY <2>1, <2>2
<1>6. P = S
  <2>1. P \in SUBSET S
    OBVIOUS
  <2>2. \A i \in S : (\A j \in S : rank[j] < rank[i] => j \in P) => i \in P
    BY <1>5
  <2> HIDE DEF P, S, rank
  <2>3. rank \in [S -> Nat]
    BY <1>1
  <2>4. Hereditary(S, rank, P)
    BY <2>1, <2>2, <2>3 DEF Hereditary
  <2> QED
    BY <2>4, RankInduction
<1>7. 1 \in P
  BY <1>6
<1> QED
  BY <1>3, <1>4, <1>7

\* The length of a type, by its kind.
LEMMA StaticLengthDef ==
  \A t \in Types :
    /\ StaticLength[t] \in Lengths
    /\ t.kind \in {"uint", "byte"} => StaticLength[t] = t.size
    /\ t.kind \in {"static", "tuple", "struct"} =>
         StaticLength[t] = LengthOf(StaticLength, ChildTypes(t, t.size))
    /\ t.kind \in {"bool", "string", "dynamic"} => StaticLength[t] = NoLength
<1> DEFINE Body(g, t) == IF t.kind \in {"static", "tuple", "struct"}
                         THEN LengthOf(g, ChildTypes(t, t.size))
                         ELSE IF t.kind \in {"uint", "byte"} THEN t.size ELSE NoLength
           Is(f) == f = [t \in Types |-> Body(f, t)]
           T == [t \in Types |-> Lengths]
           G == [t \in Types |-> [g \in Into(Types, T) |-> Body(g, t)]]
<1>1. \A t \in Types : \A g \in Into(Types, T) : G[t][g] = Body(g, t)
  OBVIOUS
<1>2. \A t \in Types : T[t] = Lengths
  OBVIOUS
<1>3. \A t \in Types : \A g : /\ t.kind \in {"uint", "byte"} => Body(g, t) = t.size
                              /\ t.kind \in {"static", "tuple", "struct"} =>
                                   Body(g, t) = LengthOf(g, ChildTypes(t, t.size))
                              /\ t.kind \in {"bool", "string", "dynamic"} => Body(g, t) = NoLength
                              /\ t.kind \in {"uint", "byte", "static", "tuple", "struct", "bool",
                                             "string", "dynamic"}
  <2> TAKE t \in Types
  <2>1. t.kind \in Leaves \cup Arrays \cup Tuples
    BY TypeFacts
  <2> QED
    BY <2>1 DEF Leaves, Arrays, Tuples
<1> HIDE DEF G, T
<1>4. ASSUME NEW t \in Types, NEW g, \A i \in DOMAIN t.of : g[t.of[i]] \in Lengths
      PROVE  Body(g, t) \in Lengths
  <2>1. CASE t.kind \in {"static", "tuple", "struct"}
    <3>1. t.size \in Nat
      BY TypeFacts
    <3>2. PICK ts \in Seq(Types) : ts = ChildTypes(t, t.size)
      BY <3>1, ChildFacts
    <3>3. \A k \in 1..Len(ts) : g[ts[k]] \in Lengths
      <4>1. DOMAIN ts = 1..Len(ts)
        OBVIOUS
      <4> QED
        BY <1>4, <3>1, <3>2, <4>1, ChildFacts
    <3>4. PICK f \in [1..(Len(ts) + 1) -> Lengths] : LengthOf(g, ts) = f[1]
      <4>1. PICK f : SumsUp(g, ts, f)
        BY <3>3, LengthOfFacts
      <4> QED
        BY <4>1 DEF SumsUp
    <3>5. LengthOf(g, ts) \in Lengths
      BY <3>4
    <3> HIDE DEF Body
    <3> QED
      BY <1>3, <2>1, <3>2, <3>5
  <2>2. CASE t.kind \notin {"static", "tuple", "struct"}
    <3>1. t.size \in Nat
      BY TypeFacts
    <3> HIDE DEF Body
    <3> QED
      BY <1>3, <2>2, <3>1 DEF Lengths
  <2> QED
    BY <2>1, <2>2
<1>5. ASSUME NEW t \in Types, NEW g \in Into(Types, T), NEW h \in Into(Types, T),
             \A i \in DOMAIN t.of : g[t.of[i]] = h[t.of[i]]
      PROVE  G[t][g] = G[t][h]
  <2>1. t.size \in Nat
    BY TypeFacts
  <2>2. PICK ts \in Seq(Types) : ts = ChildTypes(t, t.size)
    BY <2>1, ChildFacts
  <2>3. \A k \in 1..Len(ts) : \E j \in DOMAIN t.of : ts[k] = t.of[j]
    <3>1. DOMAIN ts = 1..Len(ts)
      OBVIOUS
    <3> QED
      BY <2>1, <2>2, <3>1, ChildFacts
  <2>4. \A k \in 1..Len(ts) : g[ts[k]] \in Lengths /\ g[ts[k]] = h[ts[k]]
    BY <1>2, <1>5, <2>3, IntoFacts
  <2>5. LengthOf(g, ts) = LengthOf(h, ts)
    BY <2>4, LengthOfSame
  <2>6. Body(g, t) = Body(h, t)
    BY <2>2, <2>5
  <2> HIDE DEF Body
  <2> QED
    BY <1>1, <2>6
<1>6. PICK f \in Into(Types, T) : \A t \in Types : f[t] = G[t][f]
  <2>1. \A t \in Types : T[t] # {}
    BY <1>2 DEF Lengths
  <2>2. \A t \in Types : \A g, h \in Into(Types, T) :
          (\A i \in DOMAIN t.of : g[t.of[i]] = h[t.of[i]]) => G[t][g] = G[t][h]
    BY <1>5
  <2>3. ASSUME NEW t \in Types, NEW g \in Into(Types, T) PROVE G[t][g] \in T[t]
    <3>1. \A i \in DOMAIN t.of : t.of[i] \in Types
      BY TypeFacts
    <3>2. \A s \in Types : g[s] \in Lengths
      BY <1>2, IntoFacts
    <3>3. Body(g, t) \in Lengths
      BY <1>4, <3>1, <3>2
    <3> HIDE DEF Body
    <3> QED
      BY <1>1, <1>2, <3>3
  <2>4. ByItems(T, G)
    BY <2>1, <2>2, <2>3 DEF ByItems
  <2> QED
    BY <2>4, TypeRecursion
<1>7. Is(f)
  <2>1. f = [t \in Types |-> f[t]]
    BY IntoFacts
  <2>2. \A t \in Types : f[t] = Body(f, t)
    BY <1>1, <1>6
  <2> HIDE DEF Body
  <2> QED
    BY <2>1, <2>2
<1>8. PICK u : u = (CHOOSE g : Is(g)) /\ Is(u)
  <2> HIDE DEF Is
  <2> QED
    BY <1>7
<1>9. StaticLength = u
  <2>1. StaticLength = (CHOOSE g : Is(g))
    BY DEF StaticLength
  <2> HIDE DEF Is
  <2> QED
    BY <1>8, <2>1
<1>10. \A t \in Types : u[t] = Body(u, t)
  BY <1>8
<1> DEFINE P == {t \in Types : u[t] \in Lengths}
<1>11. ASSUME NEW t \in Types, \A i \in DOMAIN t.of : t.of[i] \in P PROVE t \in P
  <2> HIDE DEF Body
  <2> QED
    BY <1>4, <1>10, <1>11
<1>12. P = Types
  <2> HIDE DEF P
  <2>1. P \in SUBSET Types
    BY DEF P
  <2> QED
    BY <1>11, <2>1, TypeInduction
<1> HIDE DEF Body
<1> QED
  BY <1>3, <1>9, <1>10, <1>12

\* How many groups of d it takes for one more.
LEMMA GroupsFacts ==
  ASSUME NEW d \in Nat \ {0}, NEW k \in Nat
  PROVE  (k + 1 + d - 1) \div d = ((k + d - 1) \div d) + (IF k % d = 0 THEN 1 ELSE 0)
<1>1. PICK q \in Nat, r \in 0..(d - 1) : q = k \div d /\ r = k % d
  BY Division
<1>2. k = d * q + r
  BY <1>1, Division
<1>3. PICK m \in Nat : m = d * q
  BY <1>2
<1>4. PICK p \in Nat : p = q + 1
  OBVIOUS
<1>5. d * p = m + d
  <2>1. d * (q + 1) = d * q + d
    OBVIOUS
  <2> QED
    BY <1>3, <1>4, <2>1
<1>6. (d * p + r) \div d = p /\ d * p + r = k + 1 + d - 1
  <2>1. (d * p + r) \div d = p
    BY DivisionOf
  <2> QED
    BY <1>2, <1>3, <1>5, <2>1
<1>7. CASE r = 0
  <2>1. d - 1 \in 0..(d - 1)
    OBVIOUS
  <2>2. PICK e \in 0..(d - 1) : e = d - 1
    BY <2>1
  <2>3. (d * q + e) \div d = q
    BY DivisionOf
  <2>4. d * q + e = k + d - 1
    BY <1>2, <1>3, <1>7, <2>2
  <2> QED
    BY <1>1, <1>4, <1>6, <1>7, <2>3, <2>4
<1>8. CASE r # 0
  <2>1. PICK e \in 0..(d - 1) : e = r - 1
    BY <1>8
  <2>2. (d * p + e) \div d = p
    BY DivisionOf
  <2>3. d * p + e = k + d - 1
    BY <1>2, <1>3, <1>5, <2>1
  <2> QED
    BY <1>1, <1>6, <1>8, <2>2, <2>3
<1> QED
  BY <1>7, <1>8

\* Where the heads are, by the sizes of the types.
LEMMA HeadAtFacts ==
  ASSUME NEW ts \in Seq(Types)
  PROVE  /\ HeadAt(ts, 1) = 0
         /\ \A i \in 1..Len(ts) : /\ Cost(Size, ts, i) \in Nat
                                  /\ HeadAt(ts, i + 1) = HeadAt(ts, i) + Cost(Size, ts, i)
         /\ \A i \in 1..(Len(ts) + 1) : HeadAt(ts, i) \in Nat
<1>1. \A k \in 1..Len(ts) : Size[ts[k]] \in Nat
  BY SizeDef
<1>2. \A k \in 1..Len(ts) : Cost(Size, ts, k) \in Nat
  BY <1>1, CostFacts
<1> QED
  BY <1>2, HeadByFacts DEF HeadAt

\* From one start to the next the heads grow by what the item at the start adds.
LEMMA HeadAtNext ==
  ASSUME NEW ts \in Seq(Types), NEW i \in 1..Len(ts), IsStart(ts, i)
  PROVE  /\ HeadAt(ts, Following(ts, i)) = HeadAt(ts, i) + Cost(Size, ts, i)
         /\ \A k \in i..(i + Sharing(ts, i)) : k > i =>
              HeadAt(ts, k) = HeadAt(ts, i) + Cost(Size, ts, i)
<1>1. PICK m \in 0..(Len(ts) - i) : m = Sharing(ts, i)
  BY StartFacts
<1>2. \A k \in i..(i + m) : k > i => k \in 1..Len(ts) /\ Cost(Size, ts, k) = 0
  <2> SUFFICES ASSUME NEW k \in i..(i + m), k > i PROVE k \in 1..Len(ts) /\ Cost(Size, ts, k) = 0
    OBVIOUS
  <2>1. k \in 1..Len(ts)
    OBVIOUS
  <2>2. ts[k].kind = "bool" /\ (k - RunStart(ts, k)) % ByteBits = k - i
    BY <1>1, StartFacts
  <2>3. ~IsStart(ts, k)
    <3>1. k # Len(ts) + 1 /\ k - i # 0
      BY <2>1
    <3> QED
      BY <2>2, <3>1 DEF IsStart
  <2>4. Size[ts[k]] \in Nat
    BY <2>1, SizeDef
  <2>5. Cost(Size, ts, k) = IF IsStart(ts, k) THEN 1 ELSE 0
    BY <2>1, <2>2, <2>4, CostFacts
  <2> QED
    BY <2>1, <2>3, <2>5
<1> DEFINE P == {n \in Nat : n <= m => HeadAt(ts, i + n + 1) = HeadAt(ts, i) + Cost(Size, ts, i)}
<1>3. 0 \in P
  <2>1. HeadAt(ts, i + 1) = HeadAt(ts, i) + Cost(Size, ts, i)
    BY HeadAtFacts
  <2>2. i + 0 + 1 = i + 1
    OBVIOUS
  <2> QED
    BY <2>1, <2>2
<1>4. ASSUME NEW n \in P PROVE n + 1 \in P
  <2> SUFFICES ASSUME n + 1 <= m
               PROVE  HeadAt(ts, i + (n + 1) + 1) = HeadAt(ts, i) + Cost(Size, ts, i)
    OBVIOUS
  <2>1. PICK k \in i..(i + m) : k = i + n + 1 /\ k > i /\ k + 1 = i + (n + 1) + 1
    OBVIOUS
  <2>2. HeadAt(ts, k) = HeadAt(ts, i) + Cost(Size, ts, i)
    BY <2>1
  <2>3. k \in 1..Len(ts) /\ Cost(Size, ts, k) = 0
    BY <1>2, <2>1
  <2>4. HeadAt(ts, k + 1) = HeadAt(ts, k) + 0 /\ HeadAt(ts, k) \in Nat
    <3>1. HeadAt(ts, k + 1) = HeadAt(ts, k) + Cost(Size, ts, k)
      BY <2>3, HeadAtFacts, Zenon
    <3>2. k \in 1..(Len(ts) + 1)
      BY <2>3
    <3>3. HeadAt(ts, k) \in Nat
      BY <3>2, HeadAtFacts, Zenon
    <3> QED
      BY <2>3, <3>1, <3>3
  <2> QED
    BY <2>1, <2>2, <2>4
<1>5. P = Nat
  <2> HIDE DEF P
  <2> QED
    BY <1>3, <1>4, Induction DEF P
<1>6. HeadAt(ts, Following(ts, i)) = HeadAt(ts, i) + Cost(Size, ts, i)
  <2>1. m \in Nat /\ m <= m
    OBVIOUS
  <2>2. m \in P
    <3> HIDE DEF P
    <3> QED
      BY <1>5, <2>1
  <2>3. HeadAt(ts, i + m + 1) = HeadAt(ts, i) + Cost(Size, ts, i)
    BY <2>1, <2>2
  <2> QED
    BY <1>1, <2>3 DEF Following
<1>7. ASSUME NEW k \in i..(i + m), k > i PROVE HeadAt(ts, k) = HeadAt(ts, i) + Cost(Size, ts, i)
  <2>1. PICK n \in Nat : n = k - i - 1
    BY <1>7
  <2>2. n \in P
    <3> HIDE DEF P
    <3> QED
      BY <1>5
  <2>4. n <= m /\ i + n + 1 = k
    BY <2>1
  <2>3. HeadAt(ts, i + n + 1) = HeadAt(ts, i) + Cost(Size, ts, i)
    BY <2>2, <2>4
  <2> QED
    BY <2>3, <2>4
<1> QED
  BY <1>1, <1>6, <1>7

\* Heads are in the order of their items.
LEMMA HeadAtGrows ==
  ASSUME NEW ts \in Seq(Types), NEW i \in 1..(Len(ts) + 1), NEW j \in i..(Len(ts) + 1)
  PROVE  HeadAt(ts, i) <= HeadAt(ts, j)
<1> DEFINE P == {n \in Nat : i + n <= Len(ts) + 1 => HeadAt(ts, i) <= HeadAt(ts, i + n)}
<1>1. 0 \in P
  <2>1. HeadAt(ts, i) \in Nat /\ i + 0 = i
    BY HeadAtFacts
  <2> QED
    BY <2>1
<1>2. ASSUME NEW n \in P PROVE n + 1 \in P
  <2> SUFFICES ASSUME i + (n + 1) <= Len(ts) + 1 PROVE HeadAt(ts, i) <= HeadAt(ts, i + (n + 1))
    OBVIOUS
  <2>1. PICK k \in 1..Len(ts) : k = i + n /\ k + 1 = i + (n + 1)
    OBVIOUS
  <2>2. k \in 1..(Len(ts) + 1)
    OBVIOUS
  <2>3. HeadAt(ts, i) <= HeadAt(ts, k)
    BY <2>1
  <2>4. /\ HeadAt(ts, k + 1) = HeadAt(ts, k) + Cost(Size, ts, k) /\ Cost(Size, ts, k) \in Nat
        /\ HeadAt(ts, k) \in Nat /\ HeadAt(ts, i) \in Nat
    BY <2>2, HeadAtFacts
  <2> QED
    BY <2>1, <2>3, <2>4
<1>3. P = Nat
  <2> HIDE DEF P
  <2> QED
    BY <1>1, <1>2, Induction DEF P
<1>4. PICK n \in Nat : n = j - i
  OBVIOUS
<1>5. n \in P
  <2> HIDE DEF P
  <2> QED
    BY <1>3
<1>6. i + n = j
  BY <1>4
<1> QED
  BY <1>5, <1>6

\* A run of bools takes the bytes that its bits fill.
LEMMA RunOfBools ==
  ASSUME NEW ts \in Seq(Types), NEW i \in 1..Len(ts), ts[i].kind = "bool", RunStart(ts, i) = i,
         NEW n \in 0..(Len(ts) - i), \A k \in i..(i + n) : ts[k].kind = "bool"
  PROVE  HeadAt(ts, i + n + 1) = HeadAt(ts, i) + ((n + 1 + ByteBits - 1) \div ByteBits)
<1>1. ByteBits \in Nat \ {0} /\ HeadAt(ts, i) \in Nat
  <2>1. i \in 1..(Len(ts) + 1)
    OBVIOUS
  <2> QED
    BY <2>1, SizeFacts, HeadAtFacts
<1>2. \A k \in i..(i + n) : ts[k].kind = "bool"
  OBVIOUS
<1>3. \A k \in i..(i + n) : RunStart(ts, k) = i
  <2> TAKE k \in i..(i + n)
  <2>1. k \in i..Len(ts) /\ \A j \in i..k : ts[j].kind = "bool"
    BY <1>2
  <2> QED
    BY <2>1, RunOfNeighbour
<1> DEFINE P == {m \in Nat : m <= n + 1 =>
                   HeadAt(ts, i + m) = HeadAt(ts, i) + ((m + ByteBits - 1) \div ByteBits)}
<1>4. 0 \in P
  <2>1. PICK last \in 0..(ByteBits - 1) : last = 0 + ByteBits - 1
    BY <1>1
  <2>2. (ByteBits * 0 + last) \div ByteBits = 0
    BY <1>1, DivisionOf
  <2>3. ByteBits * 0 + last = 0 + ByteBits - 1 /\ i + 0 = i
    BY <1>1, <2>1
  <2> QED
    BY <1>1, <2>2, <2>3
<1>5. ASSUME NEW m \in P PROVE m + 1 \in P
  <2> SUFFICES ASSUME m + 1 <= n + 1
               PROVE  HeadAt(ts, i + (m + 1)) =
                        HeadAt(ts, i) + ((m + 1 + ByteBits - 1) \div ByteBits)
    OBVIOUS
  <2>1. PICK k \in i..(i + n) : k = i + m /\ k \in 1..Len(ts) /\ k + 1 = i + (m + 1) /\ k - i = m
    OBVIOUS
  <2>2. HeadAt(ts, k) = HeadAt(ts, i) + ((m + ByteBits - 1) \div ByteBits)
    BY <2>1
  <2>3. ts[k].kind = "bool" /\ RunStart(ts, k) = i /\ Size[ts[k]] \in Nat
    BY <1>2, <1>3, <2>1, SizeDef
  <2>4. IsStart(ts, k) <=> m % ByteBits = 0
    <3>1. k # Len(ts) + 1
      BY <2>1
    <3> QED
      BY <2>1, <2>3, <3>1 DEF IsStart
  <2>5. Cost(Size, ts, k) = IF m % ByteBits = 0 THEN 1 ELSE 0
    BY <2>1, <2>3, <2>4, CostFacts
  <2>6. HeadAt(ts, k + 1) = HeadAt(ts, k) + Cost(Size, ts, k)
    BY <2>1, HeadAtFacts
  <2>7. (m + 1 + ByteBits - 1) \div ByteBits
          = ((m + ByteBits - 1) \div ByteBits) + (IF m % ByteBits = 0 THEN 1 ELSE 0)
    BY <1>1, GroupsFacts
  <2>8. PICK q \in Nat : q = (m + ByteBits - 1) \div ByteBits
    <3>1. m + ByteBits - 1 \in Nat
      BY <1>1
    <3> QED
      BY <1>1, <3>1, Division
  <2> QED
    BY <1>1, <2>1, <2>2, <2>5, <2>6, <2>7, <2>8
<1>6. P = Nat
  <2> HIDE DEF P
  <2> QED
    BY <1>4, <1>5, Induction DEF P
<1>7. PICK m \in Nat : m = n + 1
  OBVIOUS
<1>8. m \in P
  <2> HIDE DEF P
  <2> QED
    BY <1>6
<1>9. i + m = i + n + 1 /\ m <= n + 1
  BY <1>7
<1> QED
  BY <1>7, <1>8, <1>9

\* The lengths of static items add up to where their heads end.
LEMMA SumOfStatic ==
  ASSUME NEW ts \in Seq(Types), NEW length, \A k \in 1..Len(ts) : length[ts[k]] \in Lengths,
         \A k \in 1..Len(ts) :
           ts[k].kind # "bool" => ~IsDynamic[ts[k]] /\ length[ts[k]] = Size[ts[k]]
  PROVE  LengthOf(length, ts) = HeadAt(ts, Len(ts) + 1)
<1> DEFINE S == {i \in 1..(Len(ts) + 1) :
                   i <= Len(ts) /\ ts[i].kind = "bool" => RunStart(ts, i) = i}
           rank == [i \in S |-> Len(ts) + 1 - i]
<1>1. rank \in [S -> Nat] /\ \A i \in S : rank[i] = Len(ts) + 1 - i
  OBVIOUS
<1>2. \A i \in 1..Len(ts) : AfterRun(ts, i) \in (i + 1)..(Len(ts) + 1)
  BY LengthOfFacts
<1>3. PICK f \in [1..(Len(ts) + 1) -> Lengths] :
        /\ LengthOf(length, ts) = f[1] /\ f[Len(ts) + 1] = 0
        /\ \A i \in 1..Len(ts) :
             f[i] = SumLengths(RunLength(length, ts, i), f[AfterRun(ts, i)])
  <2>1. PICK f : SumsUp(length, ts, f)
    BY LengthOfFacts
  <2> QED
    BY <2>1 DEF SumsUp
<1>4. \A i \in 1..(Len(ts) + 1) : HeadAt(ts, i) \in Nat
  BY HeadAtFacts
<1>5. ASSUME NEW i \in 1..Len(ts), i \in S
      PROVE  /\ AfterRun(ts, i) \in S /\ AfterRun(ts, i) > i
             /\ RunLength(length, ts, i) \in Nat
             /\ HeadAt(ts, AfterRun(ts, i)) = HeadAt(ts, i) + RunLength(length, ts, i)
  <2>1. CASE ts[i].kind = "bool"
    <3>1. PICK n \in 0..(Len(ts) - i) : n = BoolsFrom(ts, i, 1, FALSE)
      BY <2>1, RunFacts
    <3>2. AfterRun(ts, i) = i + n + 1
      BY <2>1, <3>1 DEF AfterRun
    <3>3. RunLength(length, ts, i) = (n + 1 + ByteBits - 1) \div ByteBits
      BY <2>1, <3>1 DEF RunLength
    <3>4. i + n = Len(ts) \/ ts[i + n + 1].kind # "bool"
      BY <2>1, <3>1, RunFacts
    <3>8. \A k \in i..(i + n) : ts[k].kind = "bool"
      BY <2>1, <3>1, RunFacts
    <3>5. HeadAt(ts, i + n + 1) = HeadAt(ts, i) + ((n + 1 + ByteBits - 1) \div ByteBits)
      <4>1. RunStart(ts, i) = i
        BY <1>5, <2>1
      <4> QED
        BY <2>1, <3>1, <3>8, <4>1, RunOfBools
    <3>6. (n + 1 + ByteBits - 1) \div ByteBits \in Nat
      <4>1. n + 1 + ByteBits - 1 \in Nat
        BY SizeFacts
      <4> QED
        BY <4>1, Division, SizeFacts
    <3>7. i + n + 1 \in S /\ i + n + 1 > i
      BY <3>4
    <3> QED
      BY <3>2, <3>3, <3>5, <3>6, <3>7
  <2>2. CASE ts[i].kind # "bool"
    <3>1. AfterRun(ts, i) = i + 1 /\ RunLength(length, ts, i) = Size[ts[i]]
      BY <2>2 DEF AfterRun, RunLength
    <3>2. Size[ts[i]] \in Nat
      BY SizeDef
    <3>3. Cost(Size, ts, i) = Size[ts[i]]
      BY <2>2, <3>2, CostFacts
    <3>4. HeadAt(ts, i + 1) = HeadAt(ts, i) + Size[ts[i]]
      BY <3>3, HeadAtFacts
    <3>5. ASSUME i + 1 <= Len(ts), ts[i + 1].kind = "bool" PROVE RunStart(ts, i + 1) = i + 1
      <4>1. PICK j \in 1..Len(ts) : j = i + 1 /\ j - 1 = i
        BY <3>5
      <4>2. j \in 1..j /\ (\A k \in j..j : ts[k].kind = "bool") /\ ts[j - 1].kind # "bool"
        BY <2>2, <3>5, <4>1
      <4> QED
        BY <4>1, <4>2, RunIsOne
    <3>6. i + 1 \in S
      BY <3>5
    <3> QED
      BY <3>1, <3>2, <3>4, <3>6
  <2> QED
    BY <2>1, <2>2
<1> DEFINE P == {i \in S : f[i] = HeadAt(ts, Len(ts) + 1) - HeadAt(ts, i)}
<1>6. ASSUME NEW i \in S, \A j \in S : rank[j] < rank[i] => j \in P PROVE i \in P
  <2>1. CASE i = Len(ts) + 1
    <3>1. HeadAt(ts, i) \in Nat
      BY <1>4
    <3> QED
      BY <1>3, <2>1, <3>1
  <2>2. CASE i # Len(ts) + 1
    <3>1. i \in 1..Len(ts)
      BY <2>2
    <3>2. PICK j \in S : j = AfterRun(ts, i) /\ j > i
      BY <1>5, <3>1
    <3>3. f[j] = HeadAt(ts, Len(ts) + 1) - HeadAt(ts, j)
      <4>1. rank[j] < rank[i]
        BY <1>1, <3>2
      <4>2. j \in P
        BY <1>6, <3>2, <4>1
      <4> QED
        BY <4>2
    <3>4. /\ RunLength(length, ts, i) \in Nat
          /\ HeadAt(ts, j) = HeadAt(ts, i) + RunLength(length, ts, i)
      BY <1>5, <3>1, <3>2
    <3>5. f[j] \in Nat
      <4>1. HeadAt(ts, j) <= HeadAt(ts, Len(ts) + 1)
        BY <3>2, HeadAtGrows
      <4>2. HeadAt(ts, j) \in Nat /\ HeadAt(ts, Len(ts) + 1) \in Nat
        BY <1>4, <3>2
      <4> QED
        BY <3>3, <4>1, <4>2
    <3>6. f[i] = RunLength(length, ts, i) + f[j]
      <4>1. f[i] = SumLengths(RunLength(length, ts, i), f[j])
        BY <1>3, <3>1, <3>2
      <4>2. NoLength \notin {RunLength(length, ts, i), f[j]}
        BY <3>4, <3>5 DEF NoLength
      <4> QED
        BY <4>1, <4>2 DEF SumLengths
    <3>7. HeadAt(ts, i) \in Nat /\ HeadAt(ts, j) \in Nat /\ HeadAt(ts, Len(ts) + 1) \in Nat
      BY <1>4, <3>1, <3>2
    <3>8. f[i] = HeadAt(ts, Len(ts) + 1) - HeadAt(ts, i)
      BY <3>3, <3>4, <3>6, <3>7
    <3> QED
      BY <3>8
  <2> QED
    BY <2>1, <2>2
<1>7. P = S
  <2>1. P \in SUBSET S
    OBVIOUS
  <2>2. \A i \in S : (\A j \in S : rank[j] < rank[i] => j \in P) => i \in P
    BY <1>6
  <2> HIDE DEF P, S, rank
  <2>3. Hereditary(S, rank, P)
    BY <1>1, <2>1, <2>2 DEF Hereditary
  <2> QED
    BY <2>3, RankInduction
<1>8. 1 \in S
  <2>1. ASSUME 1 <= Len(ts), ts[1].kind = "bool" PROVE RunStart(ts, 1) = 1
    <3>1. 1 \in 1..Len(ts)
      BY <2>1
    <3>2. RunStart(ts, 1) \in 1..1
      BY <2>1, <3>1, RunFacts
    <3> QED
      BY <3>2
  <2> QED
    BY <2>1
<1>9. 1 \in P
  <2> HIDE DEF P, S
  <2> QED
    BY <1>7, <1>8
<1>10. HeadAt(ts, 1) = 0 /\ HeadAt(ts, Len(ts) + 1) \in Nat
  BY <1>4, HeadAtFacts
<1> QED
  BY <1>3, <1>9, <1>10

\* An array of no items is in a type when it is one or an item of it has one.
LEMMA HollowDef ==
  \A t \in Types :
    /\ Hollow[t] \in BOOLEAN
    /\ Hollow[t] <=> \/ t.kind = "static" /\ t.size = 0
                     \/ \E i \in DOMAIN t.of : Hollow[t.of[i]]
<1> DEFINE Body(g, t) == \/ t.kind = "static" /\ t.size = 0
                         \/ \E i \in DOMAIN t.of : g[t.of[i]]
           Is(f) == f = [t \in Types |-> Body(f, t)]
           T == [t \in Types |-> BOOLEAN]
           G == [t \in Types |-> [g \in Into(Types, T) |-> Body(g, t)]]
<1>1. \A t \in Types : \A g \in Into(Types, T) : G[t][g] = Body(g, t)
  OBVIOUS
<1>2. \A t \in Types : T[t] = BOOLEAN
  OBVIOUS
<1>3. \A t \in Types : \A g \in Into(Types, T) : G[t][g] \in T[t]
  BY <1>1
<1>4. ASSUME NEW t \in Types, NEW g \in Into(Types, T), NEW h \in Into(Types, T),
             \A i \in DOMAIN t.of : g[t.of[i]] = h[t.of[i]]
      PROVE  G[t][g] = G[t][h]
  BY <1>1, <1>4
<1>5. PICK f \in Into(Types, T) : \A t \in Types : f[t] = G[t][f]
  <2>1. \A t \in Types : T[t] # {}
    BY <1>2
  <2>2. \A t \in Types : \A g, h \in Into(Types, T) :
          (\A i \in DOMAIN t.of : g[t.of[i]] = h[t.of[i]]) => G[t][g] = G[t][h]
    BY <1>4
  <2> HIDE DEF G, T
  <2>3. ByItems(T, G)
    BY <1>3, <2>1, <2>2 DEF ByItems
  <2> QED
    BY <2>3, TypeRecursion
<1>6. Is(f)
  <2>1. f = [t \in Types |-> f[t]]
    BY IntoFacts
  <2> QED
    BY <1>1, <1>5, <2>1
<1>7. Is(CHOOSE u : Is(u))
  <2> HIDE DEF Is
  <2> QED
    BY <1>6
<1>8. Is(Hollow)
  BY <1>7 DEF Hollow
<1> QED
  BY <1>8

\* A type can be read when it does not end in nothing, and neither do its items.
LEMMA ReadableDef ==
  \A t \in Types :
    /\ Readable[t] \in BOOLEAN
    /\ Readable[t] <=> /\ ~EndsEmpty(ChildTypes(t, IF t.kind = "dynamic" THEN 2 ELSE t.size))
                       /\ \A i \in DOMAIN t.of : Readable[t.of[i]]
<1> DEFINE Body(g, t) == /\ ~EndsEmpty(ChildTypes(t, IF t.kind = "dynamic" THEN 2 ELSE t.size))
                          /\ \A i \in DOMAIN t.of : g[t.of[i]]
           Is(f) == f = [t \in Types |-> Body(f, t)]
           T == [t \in Types |-> BOOLEAN]
           G == [t \in Types |-> [g \in Into(Types, T) |-> Body(g, t)]]
<1>1. \A t \in Types : \A g \in Into(Types, T) : G[t][g] = Body(g, t)
  OBVIOUS
<1>2. \A t \in Types : T[t] = BOOLEAN
  OBVIOUS
<1>3. \A t \in Types : \A g \in Into(Types, T) : G[t][g] \in T[t]
  BY <1>1
<1>4. ASSUME NEW t \in Types, NEW g \in Into(Types, T), NEW h \in Into(Types, T),
             \A i \in DOMAIN t.of : g[t.of[i]] = h[t.of[i]]
      PROVE  G[t][g] = G[t][h]
  BY <1>1, <1>4
<1>5. PICK f \in Into(Types, T) : \A t \in Types : f[t] = G[t][f]
  <2>1. \A t \in Types : T[t] # {}
    BY <1>2
  <2>2. \A t \in Types : \A g, h \in Into(Types, T) :
          (\A i \in DOMAIN t.of : g[t.of[i]] = h[t.of[i]]) => G[t][g] = G[t][h]
    BY <1>4
  <2> HIDE DEF G, T
  <2>3. ByItems(T, G)
    BY <1>3, <2>1, <2>2 DEF ByItems
  <2> QED
    BY <2>3, TypeRecursion
<1>6. Is(f)
  <2>1. f = [t \in Types |-> f[t]]
    BY IntoFacts
  <2> QED
    BY <1>1, <1>5, <2>1
<1>7. Is(CHOOSE u : Is(u))
  <2> HIDE DEF Is
  <2> QED
    BY <1>6
<1>8. Is(Readable)
  BY <1>7 DEF Readable
<1> QED
  BY <1>8

\* A static type has the length that its heads take.
LEMMA StaticLengthIsSize ==
  \A t \in Types : ~IsDynamic[t] /\ t.kind # "bool" => StaticLength[t] = Size[t]
<1> DEFINE P == {t \in Types : ~IsDynamic[t] /\ t.kind # "bool" => StaticLength[t] = Size[t]}
<1>1. ASSUME NEW t \in Types, \A i \in DOMAIN t.of : t.of[i] \in P PROVE t \in P
  <2> SUFFICES ASSUME ~IsDynamic[t], t.kind # "bool" PROVE StaticLength[t] = Size[t]
    OBVIOUS
  <2>1. t.kind \in {"uint", "byte", "static", "tuple", "struct"} /\ t.size \in Nat
    BY DynamicDef, TypeFacts DEF Leaves, Arrays, Tuples
  <2>2. CASE t.kind \in {"uint", "byte"}
    BY <2>2, StaticLengthDef, SizeDef DEF Leaves
  <2>3. CASE t.kind \in {"static", "tuple", "struct"}
    <3>1. PICK ts \in Seq(Types) : ts = ChildTypes(t, t.size)
      BY <2>1, ChildFacts
    <3>2. \A k \in 1..Len(ts) : StaticLength[ts[k]] \in Lengths
      BY StaticLengthDef
    <3>3. ASSUME NEW k \in 1..Len(ts), ts[k].kind # "bool"
          PROVE  ~IsDynamic[ts[k]] /\ StaticLength[ts[k]] = Size[ts[k]]
      <4>1. PICK j \in DOMAIN t.of : ts[k] = t.of[j]
        BY <2>1, <3>1, ChildFacts
      <4>2. ~IsDynamic[t.of[j]]
        BY DynamicDef
      <4>3. t.of[j] \in P
        BY <1>1
      <4> QED
        BY <3>3, <4>1, <4>2, <4>3
    <3>4. LengthOf(StaticLength, ts) = HeadAt(ts, Len(ts) + 1)
      BY <3>2, <3>3, SumOfStatic
    <3>5. StaticLength[t] = LengthOf(StaticLength, ts)
      BY <2>3, <3>1, StaticLengthDef
    <3>6. Size[t] = HeadAt(ts, Len(ts) + 1)
      BY <2>3, <3>1, SizeDef DEF Leaves
    <3> QED
      BY <3>4, <3>5, <3>6
  <2> QED
    BY <2>1, <2>2, <2>3
<1>2. P = Types
  <2> HIDE DEF P
  <2>1. P \in SUBSET Types
    BY DEF P
  <2> QED
    BY <1>1, <2>1, TypeInduction
<1> QED
  BY <1>2

\* One item without a length is enough for the sum to have none.
LEMMA SumOfNoLength ==
  ASSUME NEW ts \in Seq(Types), NEW length, \A k \in 1..Len(ts) : length[ts[k]] \in Lengths,
         NEW n \in 1..Len(ts), ts[n].kind # "bool", length[ts[n]] = NoLength
  PROVE  LengthOf(length, ts) = NoLength
<1> DEFINE S == 1..n
           rank == [i \in S |-> n - i]
<1>1. rank \in [S -> Nat] /\ \A i \in S : rank[i] = n - i
  OBVIOUS
<1>2. \A i \in 1..Len(ts) : AfterRun(ts, i) \in (i + 1)..(Len(ts) + 1)
  BY LengthOfFacts
<1>3. PICK f \in [1..(Len(ts) + 1) -> Lengths] :
        /\ LengthOf(length, ts) = f[1] /\ f[Len(ts) + 1] = 0
        /\ \A i \in 1..Len(ts) :
             f[i] = SumLengths(RunLength(length, ts, i), f[AfterRun(ts, i)])
  <2> HIDE DEF S, rank
  <2>1. PICK f : SumsUp(length, ts, f)
    BY LengthOfFacts
  <2> QED
    BY <2>1 DEF SumsUp
<1> DEFINE P == {i \in S : f[i] = NoLength}
<1>4. ASSUME NEW i \in S, \A j \in S : rank[j] < rank[i] => j \in P PROVE i \in P
  <2>0. i \in 1..Len(ts)
    OBVIOUS
  <2>1. CASE i = n
    <3>1. RunLength(length, ts, i) = NoLength
      BY <2>1 DEF RunLength
    <3>2. f[i] = NoLength
      BY <1>3, <2>0, <3>1 DEF SumLengths
    <3> QED
      BY <3>2
  <2>2. CASE i # n
    <3>1. PICK j \in Nat : j = AfterRun(ts, i) /\ j > i
      BY <1>2, <2>0
    <3>2. j <= n
      <4>1. CASE ts[i].kind # "bool"
        BY <2>2, <3>1, <4>1 DEF AfterRun
      <4>2. CASE ts[i].kind = "bool"
        <5>1. PICK m \in 0..(Len(ts) - i) : m = BoolsFrom(ts, i, 1, FALSE)
          BY <2>0, <4>2, RunFacts
        <5>2. \A k \in i..(i + m) : ts[k].kind = "bool"
          BY <2>0, <4>2, <5>1, RunFacts
        <5>3. n \notin i..(i + m)
          BY <5>2
        <5>4. j = i + m + 1
          BY <3>1, <4>2, <5>1 DEF AfterRun
        <5> QED
          BY <5>3, <5>4
      <4> QED
        BY <4>1, <4>2
    <3>3. j \in S /\ rank[j] < rank[i]
      BY <1>1, <3>1, <3>2
    <3>4. f[j] = NoLength
      BY <1>4, <3>3
    <3>5. f[i] = NoLength
      BY <1>3, <2>0, <3>1, <3>4 DEF SumLengths
    <3> QED
      BY <3>5
  <2> QED
    BY <2>1, <2>2
<1>5. P = S
  <2>1. P \in SUBSET S
    OBVIOUS
  <2>2. \A i \in S : (\A j \in S : rank[j] < rank[i] => j \in P) => i \in P
    BY <1>4
  <2> HIDE DEF P, S, rank
  <2>3. Hereditary(S, rank, P)
    BY <1>1, <2>1, <2>2 DEF Hereditary
  <2> QED
    BY <2>3, RankInduction
<1>6. 1 \in S
  OBVIOUS
<1>7. 1 \in P
  <2> HIDE DEF P, S
  <2> QED
    BY <1>5, <1>6
<1> QED
  BY <1>3, <1>7

\* A dynamic type has no length, unless it is hollow.
LEMMA DynamicHasNoLength ==
  \A t \in Types : IsDynamic[t] => StaticLength[t] = NoLength \/ Hollow[t]
<1> DEFINE P == {t \in Types : IsDynamic[t] => StaticLength[t] = NoLength \/ Hollow[t]}
<1>1. ASSUME NEW t \in Types, \A i \in DOMAIN t.of : t.of[i] \in P PROVE t \in P
  <2> SUFFICES ASSUME IsDynamic[t], ~Hollow[t] PROVE StaticLength[t] = NoLength
    OBVIOUS
  <2>1. CASE t.kind \in {"string", "dynamic"}
    BY <2>1, StaticLengthDef
  <2>2. CASE t.kind \notin {"string", "dynamic"}
    <3>1. PICK j \in DOMAIN t.of : IsDynamic[t.of[j]]
      BY <2>2, DynamicDef
    <3>2. ~Hollow[t.of[j]] /\ t.of[j] \in P /\ t.of[j] \in Types
      BY <1>1, HollowDef, TypeFacts
    <3>3. StaticLength[t.of[j]] = NoLength /\ t.of[j].kind # "bool"
      <4>1. t.of[j].kind = "bool" => DOMAIN t.of[j].of = {}
        BY <3>2, TypeFacts DEF Leaves
      <4> QED
        BY <3>1, <3>2, <4>1, DynamicDef
    <3>4. t.kind \in {"static", "tuple", "struct"} /\ t.size \in Nat
      <4>1. t.kind \in Leaves => DOMAIN t.of = {}
        BY TypeFacts
      <4> QED
        BY <2>2, <3>1, <4>1, TypeFacts DEF Leaves, Arrays, Tuples
    <3>5. PICK ts \in Seq(Types) : ts = ChildTypes(t, t.size)
      BY <3>4, ChildFacts
    <3>6. PICK k \in 1..Len(ts) : ts[k] = t.of[j]
      <4>1. CASE t.kind = "static"
        <5>1. t.size # 0 /\ t.size >= 1
          BY <3>4, <4>1, HollowDef
        <5>2. Len(t.of) = 1 /\ j = 1
          BY <3>1, <4>1, TypeFacts DEF Arrays
        <5>3. 1 \in 1..t.size /\ Len(ts) = t.size /\ ts[1] = t.of[1]
          BY <3>4, <3>5, <4>1, <5>1, ChildFacts DEF Arrays
        <5> QED
          BY <5>2, <5>3
      <4>2. CASE t.kind # "static"
        <5>1. ts = t.of /\ t.of \in Seq(Types)
          BY <2>2, <3>4, <3>5, <4>2, ChildFacts, TypeFacts DEF Arrays
        <5> QED
          BY <3>1, <5>1
      <4> QED
        BY <4>1, <4>2
    <3>7. \A m \in 1..Len(ts) : StaticLength[ts[m]] \in Lengths
      BY StaticLengthDef
    <3>8. LengthOf(StaticLength, ts) = NoLength
      BY <3>3, <3>6, <3>7, SumOfNoLength
    <3> QED
      BY <3>4, <3>5, <3>8, StaticLengthDef
  <2> QED
    BY <2>1, <2>2
<1>2. P = Types
  <2> HIDE DEF P
  <2>1. P \in SUBSET Types
    BY DEF P
  <2> QED
    BY <1>1, <2>1, TypeInduction
<1> QED
  BY <1>2

-----------------------------------------------------------------------------
(* What is read for the items of bytes.                                    *)

\* The bools in the byte at a place, and all that is read from item i at a place on, when
\* f has what is read from the items after it.
BoolPieces(b, at, after) ==
  LET bits == BitsOf(IntOf(Slice(b, at, at + 1)))
  IN  [k \in 1..(after + 1) |-> Whole(<<IF ByteBits - k \in bits THEN TrueByte ELSE 0>>)]

InByte(ts, i, homogeneous) == Min({ByteBits - 1, BoolsFrom(ts, i, 1, homogeneous)})

ReadStep(ts, b, homogeneous, f, i, at) ==
  IF i > Len(ts) THEN <<End(at)>>
  ELSE IF i > 1 /\ at >= Len(b) THEN <<Whole(Poison)>>
  ELSE IF IsDynamic[ts[i]]
  THEN <<Start(IntOf(Slice(b, at, at + LengthSize)))>> \o f[i + 1][at + LengthSize]
  ELSE IF ts[i].kind = "bool"
  THEN IF BoolsFrom(ts, i, -1, homogeneous) % ByteBits # 0 THEN <<Whole(Poison)>>
       ELSE BoolPieces(b, at, InByte(ts, i, homogeneous))
            \o f[i + InByte(ts, i, homogeneous) + 1][at + 1]
  ELSE <<Whole(Slice(b, at, at + StaticLength[ts[i]]))>>
       \o f[i + 1][at + StaticLength[ts[i]]]

Pieces == [dynamic : BOOLEAN, from : Nat, bytes : Seq(Byte) \cup {Poison}]

\* f has what is read from each item at each place on.
Reads(ts, b, homogeneous, f) ==
  /\ f \in [1..(Len(ts) + 1) -> [Nat -> Seq(Pieces)]]
  /\ ReadFrom(ts, b, homogeneous) = f[1][0]
  /\ \A i \in 1..(Len(ts) + 1) : \A at \in Nat :
       f[i][at] = ReadStep(ts, b, homogeneous, f, i, at)

\* A piece is one of bytes, a place or an end.
LEMMA PieceFacts ==
  /\ \A s \in Seq(Byte) : Whole(s) \in Pieces
  /\ Whole(Poison) \in Pieces
  /\ \A n \in Nat : Start(n) \in Pieces /\ End(n) \in Pieces
BY DEF Whole, Start, End, Pieces

\* The highest bit of a byte is one.
LEMMA TrueByteFacts == TrueByte \in Byte /\ TrueByte # 0 /\ 0 \in Byte
<1>1. PICK m \in Nat : m = ByteBits - 1 /\ m + 1 = ByteBits
  BY SizeFacts
<1>2. Pow(2, m) \in Nat \ {0} /\ Pow(2, m + 1) = 2 * Pow(2, m)
  BY <1>1, PowOfTwo, PowDef
<1>3. Base = 2 * Pow(2, m)
  BY <1>1, <1>2, BaseFacts
<1>4. TrueByte = Pow(2, m)
  BY <1>1 DEF TrueByte
<1> QED
  BY <1>2, <1>3, <1>4, ByteFacts DEF Byte

\* The bools that share a byte with one of them after it are items.
LEMMA InByteFacts ==
  ASSUME NEW ts \in Seq(Types), NEW i \in 1..Len(ts), ts[i].kind = "bool",
         NEW homogeneous \in BOOLEAN
  PROVE  InByte(ts, i, homogeneous) \in 0..(Len(ts) - i)
<1>1. BoolsFrom(ts, i, 1, homogeneous) \in 0..(Len(ts) - i)
  <2>1. CASE homogeneous
    BY <2>1 DEF BoolsFrom
  <2>2. CASE ~homogeneous
    <3>1. homogeneous = FALSE
      BY <2>2
    <3> QED
      BY <3>1, RunFacts
  <2> QED
    BY <2>1, <2>2
<1>2. PICK n \in 0..(Len(ts) - i) : n = BoolsFrom(ts, i, 1, homogeneous)
  BY <1>1
<1>3. PICK m \in Nat : m = ByteBits - 1
  BY SizeFacts
<1>4. Min({m, n}) \in 0..(Len(ts) - i)
  <2>1. m \in Int /\ n \in Int
    OBVIOUS
  <2>2. Min({m, n}) = IF m <= n THEN m ELSE n
    BY <2>1, MaxMinOfTwo
  <2> QED
    BY <2>2
<1> QED
  BY <1>2, <1>3, <1>4 DEF InByte

\* The pieces of bools are bytes.
LEMMA BoolPiecesFacts ==
  ASSUME NEW b \in Seq(Byte), NEW at \in Nat, NEW after \in Nat
  PROVE  /\ BoolPieces(b, at, after) \in Seq(Pieces) /\ Len(BoolPieces(b, at, after)) = after + 1
         /\ \A k \in 1..(after + 1) :
              BoolPieces(b, at, after)[k] =
                Whole(<<IF ByteBits - k \in BitsOf(IntOf(Slice(b, at, at + 1)))
                        THEN TrueByte ELSE 0>>)
<1> DEFINE bits == BitsOf(IntOf(Slice(b, at, at + 1)))
<1>1. \A k \in 1..(after + 1) :
        Whole(<<IF ByteBits - k \in bits THEN TrueByte ELSE 0>>) \in Pieces
  <2> HIDE DEF bits
  <2>1. \A k \in 1..(after + 1) : <<IF ByteBits - k \in bits THEN TrueByte ELSE 0>> \in Seq(Byte)
    BY TrueByteFacts
  <2> QED
    BY <2>1, PieceFacts
<1> QED
  BY <1>1 DEF BoolPieces

\* An item that is static and no bool has a length.
LEMMA StaticHasLength ==
  ASSUME NEW t \in Types, ~IsDynamic[t], t.kind # "bool"
  PROVE  StaticLength[t] \in Nat /\ StaticLength[t] = Size[t]
BY StaticLengthIsSize, SizeDef

\* What is read is defined for each item and place.
LEMMA ReadStepFacts ==
  ASSUME NEW ts \in Seq(Types), NEW b \in Seq(Byte), NEW homogeneous \in BOOLEAN,
         NEW i \in 1..(Len(ts) + 1), NEW at \in Nat, NEW f,
         \A j \in 1..(Len(ts) + 1) : j > i => f[j] \in [Nat -> Seq(Pieces)]
  PROVE  ReadStep(ts, b, homogeneous, f, i, at) \in Seq(Pieces)
<1>1. CASE i > Len(ts)
  BY <1>1, PieceFacts DEF ReadStep
<1>2. CASE ~(i > Len(ts)) /\ i > 1 /\ at >= Len(b)
  BY <1>2, PieceFacts DEF ReadStep
<1>3. CASE ~(i > Len(ts)) /\ ~(i > 1 /\ at >= Len(b))
  <2>1. i \in 1..Len(ts) /\ ts[i] \in Types
    BY <1>3
  <2>2. PICK j \in 1..(Len(ts) + 1) : j = i + 1 /\ j > i
    BY <2>1
  <2>3. CASE IsDynamic[ts[i]]
    <3>1. Slice(b, at, at + LengthSize) \in Seq(Byte)
      BY SliceFacts DEF LengthSize
    <3>2. Start(IntOf(Slice(b, at, at + LengthSize))) \in Pieces
      BY <3>1, IntOfFacts, PieceFacts
    <3>3. f[j][at + LengthSize] \in Seq(Pieces)
      <4>1. f[j] \in [Nat -> Seq(Pieces)] /\ at + LengthSize \in Nat
        BY <2>2 DEF LengthSize
      <4> QED
        BY <4>1
    <3> QED
      BY <1>3, <2>2, <2>3, <3>2, <3>3 DEF ReadStep
  <2>4. CASE ~IsDynamic[ts[i]] /\ ts[i].kind = "bool"
    <3>1. PICK n \in 0..(Len(ts) - i) : n = InByte(ts, i, homogeneous)
      BY <2>1, <2>4, InByteFacts
    <3>2. BoolPieces(b, at, n) \in Seq(Pieces)
      <4>1. n \in Nat
        OBVIOUS
      <4> QED
        BY <4>1, BoolPiecesFacts
    <3>3. PICK k \in 1..(Len(ts) + 1) : k = i + n + 1 /\ k > i
      BY <2>1
    <3>4. f[k][at + 1] \in Seq(Pieces)
      <4>1. f[k] \in [Nat -> Seq(Pieces)] /\ at + 1 \in Nat
        BY <3>3
      <4> QED
        BY <4>1
    <3> QED
      BY <1>3, <2>4, <3>1, <3>2, <3>3, <3>4, PieceFacts DEF ReadStep
  <2>5. CASE ~IsDynamic[ts[i]] /\ ts[i].kind # "bool"
    <3>1. PICK n \in Nat : n = StaticLength[ts[i]]
      BY <2>1, <2>5, StaticHasLength
    <3>2. Whole(Slice(b, at, at + n)) \in Pieces
      BY SliceFacts, PieceFacts
    <3>3. f[j][at + n] \in Seq(Pieces)
      <4>1. f[j] \in [Nat -> Seq(Pieces)]
        BY <2>2
      <4>2. at + n \in Nat
        OBVIOUS
      <4> QED
        BY <4>1, <4>2
    <3> QED
      BY <1>3, <2>2, <2>5, <3>1, <3>2, <3>3 DEF ReadStep
  <2> QED
    BY <2>3, <2>4, <2>5
<1> QED
  BY <1>1, <1>2, <1>3

\* It depends on what is read for the items after it only.
LEMMA ReadStepSame ==
  ASSUME NEW ts \in Seq(Types), NEW b \in Seq(Byte), NEW homogeneous \in BOOLEAN,
         NEW i \in 1..(Len(ts) + 1), NEW at \in Nat, NEW f, NEW g,
         \A j \in 1..(Len(ts) + 1) : j > i => f[j] = g[j]
  PROVE  ReadStep(ts, b, homogeneous, f, i, at) = ReadStep(ts, b, homogeneous, g, i, at)
<1>1. CASE i > Len(ts)
  BY <1>1 DEF ReadStep
<1>2. CASE ~(i > Len(ts))
  <2>1. i \in 1..Len(ts)
    BY <1>2
  <2>2. f[i + 1] = g[i + 1]
    <3>1. i + 1 \in 1..(Len(ts) + 1) /\ i + 1 > i
      BY <2>1
    <3> QED
      BY <3>1
  <2>3. ts[i].kind = "bool" =>
          f[i + InByte(ts, i, homogeneous) + 1] = g[i + InByte(ts, i, homogeneous) + 1]
    <3> SUFFICES ASSUME ts[i].kind = "bool"
                 PROVE  f[i + InByte(ts, i, homogeneous) + 1]
                          = g[i + InByte(ts, i, homogeneous) + 1]
      OBVIOUS
    <3>1. PICK n \in 0..(Len(ts) - i) : n = InByte(ts, i, homogeneous)
      BY <2>1, InByteFacts
    <3>2. i + n + 1 \in 1..(Len(ts) + 1) /\ i + n + 1 > i
      BY <2>1
    <3> QED
      BY <3>1, <3>2
  <2> QED
    BY <1>2, <2>2, <2>3 DEF ReadStep
<1> QED
  BY <1>1, <1>2

\* There is such a reading.
LEMMA ReadFromFacts ==
  ASSUME NEW ts \in Seq(Types), NEW b \in Seq(Byte), NEW homogeneous \in BOOLEAN
  PROVE  \E f : Reads(ts, b, homogeneous, f)
<1> DEFINE S == 1..(Len(ts) + 1)
           Body(f, i) == [at \in Nat |-> ReadStep(ts, b, homogeneous, f, i, at)]
           rank == [i \in S |-> Len(ts) + 1 - i]
           T == [i \in S |-> [Nat -> Seq(Pieces)]]
           G == [i \in S |-> [g \in Into(S, T) |-> Body(g, i)]]
<1>1. /\ rank \in [S -> Nat] /\ \A i \in S : rank[i] = Len(ts) + 1 - i
      /\ \A i \in S : T[i] = [Nat -> Seq(Pieces)]
      /\ \A i \in S : \A g \in Into(S, T) : G[i][g] = Body(g, i)
  OBVIOUS
<1>2. \A i, j \in S : rank[j] < rank[i] <=> j > i
  BY <1>1
<1> HIDE DEF rank, T, G
<1>3. ASSUME NEW i \in S, NEW g \in Into(S, T) PROVE G[i][g] \in T[i]
  <2>1. \A j \in S : g[j] \in [Nat -> Seq(Pieces)]
    <3> HIDE DEF S
    <3>1. \A j \in S : g[j] \in T[j]
      BY IntoFacts
    <3> QED
      BY <1>1, <3>1
  <2>2. \A at \in Nat : ReadStep(ts, b, homogeneous, g, i, at) \in Seq(Pieces)
    <3> TAKE at \in Nat
    <3>1. \A j \in 1..(Len(ts) + 1) : j > i => g[j] \in [Nat -> Seq(Pieces)]
      BY <2>1
    <3> QED
      BY <3>1, ReadStepFacts
  <2>3. Body(g, i) \in [Nat -> Seq(Pieces)]
    BY <2>2
  <2> HIDE DEF Body
  <2> QED
    BY <1>1, <2>3
<1>4. ASSUME NEW i \in S, NEW g \in Into(S, T), NEW h \in Into(S, T),
             \A j \in S : rank[j] < rank[i] => g[j] = h[j]
      PROVE  G[i][g] = G[i][h]
  <2>1. \A j \in 1..(Len(ts) + 1) : j > i => g[j] = h[j]
    BY <1>2, <1>4
  <2>2. \A at \in Nat : ReadStep(ts, b, homogeneous, g, i, at)
                          = ReadStep(ts, b, homogeneous, h, i, at)
    <3> TAKE at \in Nat
    <3> QED
      BY <2>1, ReadStepSame
  <2>3. Body(g, i) = Body(h, i)
    BY <2>2
  <2> HIDE DEF Body
  <2> QED
    BY <1>1, <2>3
<1>5. PICK f \in Into(S, T) : \A i \in S : f[i] = G[i][f]
  <2>1. /\ \A i \in S : T[i] # {}
        /\ \A i \in S : \A g \in Into(S, T) : G[i][g] \in T[i]
        /\ \A i \in S : \A g, h \in Into(S, T) :
             (\A j \in S : rank[j] < rank[i] => g[j] = h[j]) => G[i][g] = G[i][h]
    <3>1. [n \in Nat |-> << >>] \in [Nat -> Seq(Pieces)]
      OBVIOUS
    <3>2. \A i \in S : T[i] # {}
      BY <1>1, <3>1
    <3> HIDE DEF S, Body
    <3> QED
      BY <1>3, <1>4, <3>2
  <2> HIDE DEF S
  <2>2. Recursive(S, rank, T, G)
    BY <1>1, <2>1 DEF Recursive
  <2> QED
    BY <2>2, RankedRecursion
<1> DEFINE Raw(read, i) == [at \in Nat |->
        IF i > Len(ts) THEN <<End(at)>>
        ELSE IF i > 1 /\ at >= Len(b) THEN <<Whole(Poison)>> \* not long enough
        ELSE IF IsDynamic[ts[i]]
        THEN <<Start(IntOf(Slice(b, at, at + LengthSize)))>> \o read[i + 1][at + LengthSize]
        ELSE IF ts[i].kind = "bool"
        THEN LET after == Min({ByteBits - 1, BoolsFrom(ts, i, 1, homogeneous)})
                 bits == BitsOf(IntOf(Slice(b, at, at + 1)))
                 bool(k) == Whole(<<IF ByteBits - k \in bits THEN TrueByte ELSE 0>>)
             IN  IF BoolsFrom(ts, i, -1, homogeneous) % ByteBits # 0 THEN <<Whole(Poison)>>
                 ELSE [k \in 1..(after + 1) |-> bool(k)] \o read[i + after + 1][at + 1]
        ELSE LET stop == at + StaticLength[ts[i]]
             IN  <<Whole(Slice(b, at, stop))>> \o read[i + 1][stop]]
           Is(read) == read = [i \in 1..(Len(ts) + 1) |-> Raw(read, i)]
<1>6. \A read, i : Raw(read, i) = Body(read, i)
  BY DEF ReadStep, InByte, BoolPieces
<1>7. \A read : Is(read) <=> read = [i \in S |-> Body(read, i)]
  <2> TAKE read
  <2> HIDE DEF Raw, Body
  <2> QED
    BY <1>6
<1>8. Is(f)
  <2> HIDE DEF Is, Body, S
  <2>1. f = [i \in S |-> f[i]]
    BY IntoFacts
  <2>2. \A i \in S : f[i] = Body(f, i)
    BY <1>1, <1>5
  <2> QED
    BY <1>7, <2>1, <2>2
<1>9. PICK u : u = (CHOOSE g : Is(g)) /\ Is(u)
  <2> HIDE DEF Is
  <2> QED
    BY <1>8
<1>10. ReadFrom(ts, b, homogeneous) = u[1][0]
  BY <1>9 DEF ReadFrom
<1>11. u = [i \in S |-> Body(u, i)]
  <2> HIDE DEF Is, Body, S
  <2> QED
    BY <1>7, <1>9
<1> DEFINE P == {i \in S : u[i] \in [Nat -> Seq(Pieces)]}
<1>12. \A i \in S : u[i] = Body(u, i)
  <2> HIDE DEF Body, S
  <2> QED
    BY <1>11
<1>13. ASSUME NEW i \in S, \A j \in S : rank[j] < rank[i] => j \in P PROVE i \in P
  <2>1. \A j \in 1..(Len(ts) + 1) : j > i => u[j] \in [Nat -> Seq(Pieces)]
    BY <1>2, <1>13
  <2>2. \A at \in Nat : ReadStep(ts, b, homogeneous, u, i, at) \in Seq(Pieces)
    <3> TAKE at \in Nat
    <3> QED
      BY <2>1, ReadStepFacts
  <2>3. Body(u, i) \in [Nat -> Seq(Pieces)]
    BY <2>2
  <2>4. u[i] \in [Nat -> Seq(Pieces)]
    <3> HIDE DEF Body
    <3> QED
      BY <1>12, <2>3
  <2> QED
    BY <2>4
<1>14. P = S
  <2>1. P \in SUBSET S
    OBVIOUS
  <2>2. \A i \in S : (\A j \in S : rank[j] < rank[i] => j \in P) => i \in P
    BY <1>13
  <2> HIDE DEF P, S
  <2>3. Hereditary(S, rank, P)
    BY <1>1, <2>1, <2>2 DEF Hereditary
  <2> QED
    BY <2>3, RankInduction
<1>15. u \in [S -> [Nat -> Seq(Pieces)]]
  <2>1. \A i \in S : u[i] \in [Nat -> Seq(Pieces)]
    BY <1>14
  <2> HIDE DEF S, Body
  <2> QED
    BY <1>11, <2>1
<1>16. \A i \in S : \A at \in Nat : u[i][at] = ReadStep(ts, b, homogeneous, u, i, at)
  BY <1>12
<1>17. Reads(ts, b, homogeneous, u)
  BY <1>10, <1>15, <1>16 DEF Reads
<1> QED
  BY <1>17

\* What is read is not enough, or it is m pieces of bytes.
Fails(q) == q # << >> /\ Last(q).bytes = Poison
Complete(q, m) == Len(q) = m /\ \A k \in 1..m : q[k].bytes \in Seq(Byte)

\* Reading more before does not change that.
LEMMA ReadMore ==
  ASSUME NEW p \in Seq(Pieces), NEW q \in Seq(Pieces), NEW m \in Nat
  PROVE  /\ Fails(q) => Fails(p \o q)
         /\ Complete(p, Len(p)) /\ Complete(q, m) => Complete(p \o q, Len(p) + m)
<1>1. /\ p \o q \in Seq(Pieces) /\ Len(p \o q) = Len(p) + Len(q)
      /\ \A k \in 1..Len(p) : (p \o q)[k] = p[k]
      /\ \A k \in 1..Len(q) : (p \o q)[Len(p) + k] = q[k]
      /\ \A k \in 1..(Len(p) + Len(q)) : k > Len(p) => (p \o q)[k] = q[k - Len(p)]
  OBVIOUS
<1>2. ASSUME Fails(q) PROVE Fails(p \o q)
  <2>1. Len(q) \in Nat /\ Len(q) > 0
    BY <1>2 DEF Fails
  <2>2. (p \o q)[Len(p) + Len(q)] = q[Len(q)]
    BY <1>1, <2>1
  <2>3. Last(p \o q) = Last(q) /\ p \o q # << >>
    BY <1>1, <2>1, <2>2 DEF Last
  <2> QED
    BY <1>2, <2>3 DEF Fails
<1>3. ASSUME Complete(p, Len(p)), Complete(q, m) PROVE Complete(p \o q, Len(p) + m)
  <2>1. ASSUME NEW k \in 1..(Len(p) + m) PROVE (p \o q)[k].bytes \in Seq(Byte)
    <3>1. CASE k <= Len(p)
      BY <1>1, <1>3, <3>1 DEF Complete
    <3>2. CASE k > Len(p)
      <4>1. k - Len(p) \in 1..m /\ Len(q) = m
        BY <1>3, <3>2 DEF Complete
      <4>2. (p \o q)[k] = q[k - Len(p)]
        BY <1>1, <3>2, <4>1
      <4> QED
        BY <1>3, <4>1, <4>2 DEF Complete
    <3>3. k <= Len(p) \/ k > Len(p)
      OBVIOUS
    <3> QED
      BY <3>1, <3>2, <3>3
  <2> QED
    BY <1>1, <1>3, <2>1 DEF Complete
<1> QED
  BY <1>2, <1>3

\* The pieces that are read.
LEMMA CompletePieces ==
  /\ \A s \in Seq(Byte) : Whole(s) \in Pieces /\ Complete(<<Whole(s)>>, 1)
  /\ \A n \in Nat : /\ Start(n) \in Pieces /\ Complete(<<Start(n)>>, 1)
                    /\ End(n) \in Pieces /\ Complete(<<End(n)>>, 1)
  /\ <<Whole(Poison)>> \in Seq(Pieces) /\ Fails(<<Whole(Poison)>>)
<1>1. ASSUME NEW p \in Pieces, p.bytes \in Seq(Byte) PROVE Complete(<<p>>, 1)
  BY <1>1 DEF Complete
<1>2. /\ \A s : Whole(s).bytes = s
      /\ \A n : Start(n).bytes = << >> /\ End(n).bytes = << >>
  BY DEF Whole, Start, End
<1>3. Fails(<<Whole(Poison)>>)
  BY <1>2 DEF Fails, Last
<1>4. ASSUME NEW s \in Seq(Byte) PROVE Whole(s) \in Pieces /\ Complete(<<Whole(s)>>, 1)
  <2>1. Whole(s) \in Pieces /\ Whole(s).bytes \in Seq(Byte)
    BY <1>2, PieceFacts
  <2> QED
    BY <1>1, <2>1
<1>5. ASSUME NEW n \in Nat
      PROVE  /\ Start(n) \in Pieces /\ Complete(<<Start(n)>>, 1)
             /\ End(n) \in Pieces /\ Complete(<<End(n)>>, 1)
  <2>1. Start(n) \in Pieces /\ End(n) \in Pieces
    BY PieceFacts
  <2>2. Start(n).bytes \in Seq(Byte) /\ End(n).bytes \in Seq(Byte)
    BY DEF Start, End
  <2> QED
    BY <1>1, <2>1, <2>2
<1>6. <<Whole(Poison)>> \in Seq(Pieces)
  BY PieceFacts
<1> QED
  BY <1>3, <1>4, <1>5, <1>6

\* Bools are read completely.
LEMMA CompleteBools ==
  ASSUME NEW b \in Seq(Byte), NEW at \in Nat, NEW after \in Nat
  PROVE  Complete(BoolPieces(b, at, after), after + 1)
<1>1. \A s : Whole(s).bytes = s
  BY DEF Whole
<1>2. ASSUME NEW k \in 1..(after + 1)
      PROVE  BoolPieces(b, at, after)[k].bytes \in Seq(Byte)
  <2>1. PICK big \in BOOLEAN : big <=> ByteBits - k \in BitsOf(IntOf(Slice(b, at, at + 1)))
    OBVIOUS
  <2>2. BoolPieces(b, at, after)[k] = Whole(<<IF big THEN TrueByte ELSE 0>>)
    BY <2>1, BoolPiecesFacts
  <2>3. <<IF big THEN TrueByte ELSE 0>> \in Seq(Byte)
    BY TrueByteFacts
  <2> QED
    BY <1>1, <2>2, <2>3
<1>3. Len(BoolPieces(b, at, after)) = after + 1
  BY BoolPiecesFacts
<1> QED
  BY <1>2, <1>3 DEF Complete

\* From each item on, all items are read, and an end, or they cannot be read.
LEMMA ReadIsComplete ==
  ASSUME NEW ts \in Seq(Types), NEW b \in Seq(Byte), NEW homogeneous \in BOOLEAN,
         NEW f, Reads(ts, b, homogeneous, f),
         NEW i \in 1..(Len(ts) + 1), NEW at \in Nat
  PROVE  Fails(f[i][at]) \/ Complete(f[i][at], Len(ts) - i + 2)
<1> DEFINE S == 1..(Len(ts) + 1)
           rank == [k \in S |-> Len(ts) + 1 - k]
           Good(q, m) == Fails(q) \/ Complete(q, m)
           P == {k \in S : \A n \in Nat : Good(f[k][n], Len(ts) - k + 2)}
<1>1. rank \in [S -> Nat] /\ \A k \in S : rank[k] = Len(ts) + 1 - k
  OBVIOUS
<1>2. \A k \in S : \A n \in Nat : f[k][n] \in Seq(Pieces)
  <2> TAKE k \in S
  <2>1. f[k] \in [Nat -> Seq(Pieces)]
    BY DEF Reads
  <2> QED
    BY <2>1
<1>3. ASSUME NEW p \in Seq(Pieces), NEW m \in Nat, Complete(p, m), NEW q \in Seq(Pieces),
             NEW n \in Nat, Good(q, n)
      PROVE  Good(p \o q, m + n)
  <2>1. Len(p) = m
    BY <1>3 DEF Complete
  <2> QED
    BY <1>3, <2>1, ReadMore
<1> HIDE DEF Good
<1>4. ASSUME NEW k \in S, \A j \in S : rank[j] < rank[k] => j \in P PROVE k \in P
  <2> SUFFICES ASSUME NEW n \in Nat PROVE Good(f[k][n], Len(ts) - k + 2)
    OBVIOUS
  <2>0. \A j \in S : j > k => \A m \in Nat : Good(f[j][m], Len(ts) - j + 2)
    BY <1>1, <1>4
  <2>1. f[k][n] = ReadStep(ts, b, homogeneous, f, k, n)
    BY DEF Reads
  <2>2. CASE k > Len(ts)
    <3>1. f[k][n] = <<End(n)>> /\ Len(ts) - k + 2 = 1
      BY <2>1, <2>2 DEF ReadStep
    <3> QED
      BY <3>1, CompletePieces DEF Good
  <2>3. CASE ~(k > Len(ts)) /\ k > 1 /\ n >= Len(b)
    <3>1. f[k][n] = <<Whole(Poison)>>
      BY <2>1, <2>3 DEF ReadStep
    <3> QED
      BY <3>1, CompletePieces DEF Good
  <2>4. CASE ~(k > Len(ts)) /\ ~(k > 1 /\ n >= Len(b))
    <3>1. k \in 1..Len(ts) /\ ts[k] \in Types
      BY <2>4
    <3>2. PICK j \in S : j = k + 1 /\ j > k
      BY <3>1
    <3>3. PICK rest \in Nat : rest = Len(ts) - j + 2 /\ 1 + rest = Len(ts) - k + 2
      BY <3>1, <3>2
    <3>4. CASE IsDynamic[ts[k]]
      <4>1. PICK x \in Nat : x = IntOf(Slice(b, n, n + LengthSize))
        <5>1. Slice(b, n, n + LengthSize) \in Seq(Byte)
          BY SliceFacts DEF LengthSize
        <5> QED
          BY <5>1, IntOfFacts
      <4>2. PICK m \in Nat : m = n + LengthSize
        BY DEF LengthSize
      <4>3. f[k][n] = <<Start(x)>> \o f[j][m]
        BY <2>1, <2>4, <3>2, <3>4, <4>1, <4>2 DEF ReadStep
      <4>4. Good(f[j][m], rest) /\ f[j][m] \in Seq(Pieces)
        BY <1>2, <2>0, <3>2, <3>3
      <4>5. <<Start(x)>> \in Seq(Pieces) /\ Complete(<<Start(x)>>, 1)
        <5>1. Start(x) \in Pieces /\ Complete(<<Start(x)>>, 1)
          BY CompletePieces
        <5> QED
          BY <5>1
      <4> QED
        BY <1>3, <3>3, <4>3, <4>4, <4>5
    <3>5. CASE ~IsDynamic[ts[k]] /\ ts[k].kind = "bool"
      <4>1. PICK x \in 0..(Len(ts) - k) : x = InByte(ts, k, homogeneous)
        BY <3>1, <3>5, InByteFacts
      <4>2. x \in Nat /\ x + 1 \in Nat
        OBVIOUS
      <4>3. CASE BoolsFrom(ts, k, -1, homogeneous) % ByteBits # 0
        <5>1. f[k][n] = <<Whole(Poison)>>
          BY <2>1, <2>4, <3>5, <4>3 DEF ReadStep
        <5> QED
          BY <5>1, CompletePieces DEF Good
      <4>4. CASE ~(BoolsFrom(ts, k, -1, homogeneous) % ByteBits # 0)
        <5>1. PICK l \in S : l = k + x + 1 /\ l > k
          BY <3>1
        <5>2. PICK m \in Nat : m = n + 1
          OBVIOUS
        <5>3. f[k][n] = BoolPieces(b, n, x) \o f[l][m]
          BY <2>1, <2>4, <3>5, <4>1, <4>4, <5>1, <5>2 DEF ReadStep
        <5>4. PICK after \in Nat : after = Len(ts) - l + 2 /\ (x + 1) + after = Len(ts) - k + 2
          <6>1. Len(ts) - l + 2 \in Nat /\ k \in Nat /\ l \in Nat /\ x \in Nat /\ Len(ts) \in Nat
            BY <3>1, <5>1
          <6>2. (x + 1) + (Len(ts) - l + 2) = Len(ts) - k + 2
            BY <5>1, <6>1
          <6> QED
            BY <6>1, <6>2
        <5>5. Good(f[l][m], after) /\ f[l][m] \in Seq(Pieces)
          BY <1>2, <2>0, <5>1, <5>4
        <5>6. BoolPieces(b, n, x) \in Seq(Pieces) /\ Complete(BoolPieces(b, n, x), x + 1)
          BY <4>2, BoolPiecesFacts, CompleteBools
        <5> QED
          BY <1>3, <4>2, <5>3, <5>4, <5>5, <5>6
      <4> QED
        BY <4>3, <4>4
    <3>6. CASE ~IsDynamic[ts[k]] /\ ts[k].kind # "bool"
      <4>1. PICK x \in Nat : x = StaticLength[ts[k]]
        BY <3>1, <3>6, StaticHasLength
      <4>2. PICK m \in Nat : m = n + x
        OBVIOUS
      <4>3. f[k][n] = <<Whole(Slice(b, n, m))>> \o f[j][m]
        BY <2>1, <2>4, <3>2, <3>6, <4>1, <4>2 DEF ReadStep
      <4>4. Good(f[j][m], rest) /\ f[j][m] \in Seq(Pieces)
        BY <1>2, <2>0, <3>2, <3>3
      <4>5. /\ <<Whole(Slice(b, n, m))>> \in Seq(Pieces)
            /\ Complete(<<Whole(Slice(b, n, m))>>, 1)
        BY SliceFacts, CompletePieces
      <4> QED
        BY <1>3, <3>3, <4>3, <4>4, <4>5
    <3> QED
      BY <3>4, <3>5, <3>6
  <2> QED
    BY <2>2, <2>3, <2>4
<1>5. P = S
  <2>1. P \in SUBSET S
    OBVIOUS
  <2>2. \A k \in S : (\A j \in S : rank[j] < rank[k] => j \in P) => k \in P
    BY <1>4
  <2> HIDE DEF P, S, rank
  <2>3. Hereditary(S, rank, P)
    BY <1>1, <2>1, <2>2 DEF Hereditary
  <2> QED
    BY <2>3, RankInduction
<1>6. i \in P
  <2> HIDE DEF P
  <2> QED
    BY <1>5
<1> QED
  BY <1>6 DEF Good

\* The items that are cut from bytes, unless that fails, are bytes.
LEMMA CutFacts ==
  ASSUME NEW b \in Seq(Byte), NEW parts \in Seq(Pieces), NEW n \in Nat
  PROVE  /\ Fails(parts) => Cut(b, parts) = <<Poison>>
         /\ Complete(parts, n + 1) =>
              \/ Cut(b, parts) = <<Poison>>
              \/ Cut(b, parts) \in Seq(Seq(Byte)) /\ Len(Cut(b, parts)) = n
<1>1. Fails(parts) => Cut(b, parts) = <<Poison>>
  BY DEF Fails, Cut
<1>2. ASSUME Complete(parts, n + 1), Cut(b, parts) # <<Poison>>
      PROVE  Cut(b, parts) \in Seq(Seq(Byte)) /\ Len(Cut(b, parts)) = n
  <2> DEFINE dynamic == {i \in 1..(Len(parts) - 1) : parts[i].dynamic}
             next(i) == IF i = Max(dynamic) THEN Len(b)
                        ELSE parts[Min({j \in dynamic : j > i})].from
             item(i) == IF i \notin dynamic THEN parts[i].bytes
                        ELSE Slice(b, parts[i].from, next(i))
  <2>1. Len(parts) - 1 = n
    BY <1>2 DEF Complete
  <2>2. Cut(b, parts) = [i \in 1..n |-> item(i)]
    BY <1>2, <2>1 DEF Cut
  <2>3. \A i \in 1..n : i \in 1..Len(parts) /\ parts[i] \in Pieces /\ parts[i].bytes \in Seq(Byte)
    BY <1>2, <2>1 DEF Complete
  <2>4. \A i \in 1..n : item(i) \in Seq(Byte)
    <3> SUFFICES ASSUME NEW i \in 1..n PROVE item(i) \in Seq(Byte)
      OBVIOUS
    <3>1. CASE i \notin dynamic
      BY <2>3, <3>1
    <3>2. CASE i \in dynamic
      <4>1. parts[i].from \in Int
        BY <2>3 DEF Pieces
      <4>2. next(i) \in Int
        <5>1. CASE i = Max(dynamic)
          BY <5>1
        <5>2. CASE i # Max(dynamic)
          <6>1. dynamic \in SUBSET (0..n) /\ dynamic # {}
            BY <2>1, <3>2
          <6>2. Max(dynamic) \in dynamic /\ \A x \in dynamic : x <= Max(dynamic)
            <7> HIDE DEF dynamic
            <7> QED
              BY <6>1, MaxIsLargest
          <6> DEFINE later == {j \in dynamic : j > i}
          <6>3. later \in SUBSET (0..n) /\ later # {}
            <7>1. Max(dynamic) > i
              <8>1. \A x \in dynamic : x \in Nat
                BY <2>1
              <8> HIDE DEF dynamic
              <8>2. Max(dynamic) \in Nat /\ i \in Nat /\ i <= Max(dynamic)
                BY <3>2, <6>2, <8>1
              <8> QED
                BY <5>2, <8>2
            <7> HIDE DEF dynamic
            <7> QED
              BY <6>1, <6>2, <7>1
          <6>4. Min(later) \in later
            <7> HIDE DEF later
            <7> QED
              BY <6>3, MinIsLeast
          <6>5. Min(later) \in 1..n
            BY <2>1, <6>4
          <6>6. parts[Min(later)].from \in Int
            <7> HIDE DEF later
            <7> QED
              BY <2>3, <6>5 DEF Pieces
          <6> QED
            BY <5>2, <6>6
        <5> QED
          BY <5>1, <5>2
      <4> HIDE DEF next
      <4>3. Slice(b, parts[i].from, next(i)) \in Seq(Byte)
        BY <4>1, <4>2, SliceFacts
      <4> QED
        BY <3>2, <4>3
    <3> QED
      BY <3>1, <3>2
  <2> HIDE DEF item
  <2> QED
    BY <2>2, <2>4
<1> QED
  BY <1>1, <1>2

\* Reading finds as many items as there are types, or fails.
LEMMA DecodeFacts ==
  ASSUME NEW ts \in Seq(Types), NEW b \in Seq(Byte)
  PROVE  \/ Decode(ts, b) = <<Poison>>
         \/ Decode(ts, b) \in Seq(Seq(Byte)) /\ Len(Decode(ts, b)) = Len(ts)
<1>1. PICK homogeneous \in BOOLEAN : homogeneous = Homogeneous(ts)
  BY DEF Homogeneous
<1>2. PICK f : Reads(ts, b, homogeneous, f)
  BY ReadFromFacts
<1>3. PICK n \in Nat : n = Len(ts) /\ Len(ts) - 1 + 2 = n + 1
  OBVIOUS
<1>4. Fails(f[1][0]) \/ Complete(f[1][0], n + 1)
  <2>1. 1 \in 1..(Len(ts) + 1) /\ 0 \in Nat
    OBVIOUS
  <2> QED
    BY <1>2, <1>3, <2>1, ReadIsComplete
<1>5. f[1][0] \in Seq(Pieces)
  <2>1. f[1] \in [Nat -> Seq(Pieces)]
    <3>1. 1 \in 1..(Len(ts) + 1)
      OBVIOUS
    <3> QED
      BY <1>2, <3>1 DEF Reads
  <2> QED
    BY <2>1
<1>6. Decode(ts, b) = Cut(b, f[1][0])
  BY <1>1, <1>2 DEF Decode, Reads
<1> QED
  BY <1>3, <1>4, <1>5, <1>6, CutFacts

\* The items of the bytes of a type: as many as it has, or nothing can be read.
LEMMA ItemsFacts ==
  ASSUME NEW t \in Types, NEW b \in Bytes
  PROVE  \/ Items(t, b) = <<Poison>>
         \/ /\ Items(t, b) \in Seq(Seq(Byte))
            /\ Len(ChildTypes(t, Len(Items(t, b)))) = Len(Items(t, b))
<1>1. CASE Raises(b)
  BY <1>1 DEF Items
<1>2. CASE ~Raises(b)
  <2>1. b \in Seq(Byte)
    BY <1>2, RaisesFacts
  <2>2. \E n \in Nat : \E s \in Seq(Byte) : Items(t, b) = Decode(ChildTypes(t, n), s)
    <3>1. CASE t.kind = "dynamic"
      <4>1. Slice(b, 0, LengthSize) \in Seq(Byte) /\ Slice(b, LengthSize, Len(b)) \in Seq(Byte)
        BY <2>1, SliceFacts DEF LengthSize
      <4>2. ReadLength(b) \in Nat
        BY <4>1, IntOfFacts DEF ReadLength
      <4> QED
        BY <1>2, <3>1, <4>1, <4>2 DEF Items
    <3>2. CASE t.kind # "dynamic"
      <4>1. t.size \in Nat
        BY TypeFacts
      <4> QED
        BY <1>2, <2>1, <3>2, <4>1 DEF Items
    <3> QED
      BY <3>1, <3>2
  <2>3. PICK n \in Nat, s \in Seq(Byte) : Items(t, b) = Decode(ChildTypes(t, n), s)
    BY <2>2
  <2>4. PICK ts \in Seq(Types) : /\ ts = ChildTypes(t, n)
                                 /\ Len(ts) = IF t.kind \in Arrays THEN n ELSE Len(t.of)
    BY ChildFacts
  <2>5. CASE Decode(ts, s) = <<Poison>>
    BY <2>3, <2>4, <2>5
  <2>6. CASE Decode(ts, s) \in Seq(Seq(Byte)) /\ Len(Decode(ts, s)) = Len(ts)
    <3>1. PICK m \in Nat : m = Len(ts)
      OBVIOUS
    <3>2. Len(ChildTypes(t, m)) = m
      BY <2>4, <3>1, ChildFacts
    <3> QED
      BY <2>3, <2>4, <2>6, <3>1, <3>2
  <2> QED
    BY <2>5, <2>6, DecodeFacts
<1> QED
  BY <1>1, <1>2

-----------------------------------------------------------------------------
(* Byte strings put together.                                              *)

\* u has what the first of them are together.
Joins(bs, u) ==
  /\ u \in [0..Len(bs) -> Bytes] /\ Join(bs) = u[Len(bs)] /\ u[0] = << >>
  /\ \A k \in 1..Len(bs) : u[k] = u[k - 1] \o bs[k]

\* There are such.
LEMMA JoinFacts ==
  ASSUME NEW bs \in Seq(Bytes)
  PROVE  \E u : Joins(bs, u)
<1> DEFINE S == 0..Len(bs)
           Body(f, k) == IF k = 0 THEN << >> ELSE f[k - 1] \o bs[k]
           rank == [k \in S |-> k]
           T == [k \in S |-> Bytes]
           G == [k \in S |-> [g \in Into(S, T) |-> Body(g, k)]]
<1>1. /\ rank \in [S -> Nat] /\ \A k \in S : rank[k] = k
      /\ \A k \in S : T[k] = Bytes
      /\ \A k \in S : \A g \in Into(S, T) : G[k][g] = Body(g, k)
      /\ << >> \in Bytes
  BY DEF Bytes
<1>2. \A k \in S : k # 0 => k \in 1..Len(bs) /\ k - 1 \in S /\ k - 1 < k /\ bs[k] \in Bytes
  <2> TAKE k \in S
  <2>1. k # 0 => k \in 1..Len(bs) /\ k - 1 \in S /\ k - 1 < k
    OBVIOUS
  <2> QED
    BY <2>1
<1>3. \A a, c \in Bytes : a \o c \in Bytes
  BY RaisesOfTwo
<1> HIDE DEF rank, T, G, S
<1>4. ASSUME NEW k \in S, NEW g \in Into(S, T) PROVE G[k][g] \in T[k]
  <2>1. \A j \in S : g[j] \in Bytes
    BY <1>1, IntoFacts
  <2>2. Body(g, k) \in Bytes
    BY <1>1, <1>2, <1>3, <2>1
  <2> HIDE DEF Body
  <2> QED
    BY <1>1, <2>2
<1>5. ASSUME NEW k \in S, NEW g \in Into(S, T), NEW h \in Into(S, T),
             \A j \in S : rank[j] < rank[k] => g[j] = h[j]
      PROVE  G[k][g] = G[k][h]
  <2>1. Body(g, k) = Body(h, k)
    BY <1>1, <1>2, <1>5
  <2> HIDE DEF Body
  <2> QED
    BY <1>1, <2>1
<1>6. PICK f \in Into(S, T) : \A k \in S : f[k] = G[k][f]
  <2>1. /\ \A k \in S : T[k] # {}
        /\ \A k \in S : \A g \in Into(S, T) : G[k][g] \in T[k]
        /\ \A k \in S : \A g, h \in Into(S, T) :
             (\A j \in S : rank[j] < rank[k] => g[j] = h[j]) => G[k][g] = G[k][h]
    <3> HIDE DEF Body
    <3> QED
      BY <1>1, <1>4, <1>5
  <2>2. Recursive(S, rank, T, G)
    BY <1>1, <2>1 DEF Recursive
  <2> QED
    BY <2>2, RankedRecursion
<1> DEFINE Is(upto) == upto = [k \in 0..Len(bs) |-> Body(upto, k)]
<1>7. Is(f)
  <2>1. f = [k \in S |-> f[k]] /\ \A k \in S : f[k] = Body(f, k)
    BY <1>1, <1>6, IntoFacts
  <2> HIDE DEF Body
  <2> QED
    BY <2>1 DEF S
<1>8. PICK u : u = (CHOOSE g : Is(g)) /\ Is(u)
  <2> HIDE DEF Is
  <2> QED
    BY <1>7
<1>9. Join(bs) = u[Len(bs)]
  BY <1>8 DEF Join
<1>10. \A k \in S : u[k] = Body(u, k)
  <2> HIDE DEF Body
  <2> QED
    BY <1>8 DEF S
<1> DEFINE P == {k \in Nat : k \in S => u[k] \in Bytes}
<1>11. 0 \in P
  BY <1>1, <1>10
<1>12. ASSUME NEW k \in P PROVE k + 1 \in P
  <2> SUFFICES ASSUME k + 1 \in S PROVE u[k + 1] \in Bytes
    OBVIOUS
  <2>1. PICK m \in S : m = k + 1 /\ m # 0 /\ m - 1 = k
    OBVIOUS
  <2>2. u[m] = u[m - 1] \o bs[m] /\ u[m - 1] \in Bytes /\ bs[m] \in Bytes
    BY <1>2, <1>10, <2>1
  <2> QED
    BY <1>3, <2>1, <2>2
<1>13. P = Nat
  <2> HIDE DEF P
  <2>1. P \in SUBSET Nat
    BY DEF P
  <2> QED
    BY <1>11, <1>12, <2>1, Induction
<1>14. \A k \in S : u[k] \in Bytes
  BY <1>13 DEF S
<1>15. u \in [0..Len(bs) -> Bytes]
  <2> HIDE DEF Body
  <2> QED
    BY <1>8, <1>14 DEF S
<1>16. u[0] = << >> /\ \A k \in 1..Len(bs) : u[k] = u[k - 1] \o bs[k]
  <2>1. 0 \in S /\ \A k \in 1..Len(bs) : k \in S /\ k # 0
    BY DEF S
  <2> QED
    BY <1>10, <2>1
<1>17. Joins(bs, u)
  BY <1>9, <1>15, <1>16 DEF Joins
<1> QED
  BY <1>17

\* The first k of f are made.
Made(f, k) == \A j \in 1..k : f[j] \in Bytes

\* The first k of f together.
Joined(f, k) == Join([j \in 1..k |-> f[j]])

\* One more is put after those before.
LEMMA JoinedNext ==
  ASSUME NEW f, NEW n \in Nat, Made(f, n)
  PROVE  /\ Joined(f, n) \in Bytes
         /\ n = 0 => Joined(f, n) = << >>
         /\ n > 0 => Joined(f, n) = Joined(f, n - 1) \o f[n]
<1>1. [j \in 1..n |-> f[j]] \in Seq(Bytes) /\ Len([j \in 1..n |-> f[j]]) = n
  BY DEF Made
<1>2. PICK u : Joins([j \in 1..n |-> f[j]], u)
  BY <1>1, JoinFacts
<1>3. /\ u \in [0..n -> Bytes] /\ Joined(f, n) = u[n] /\ u[0] = << >>
      /\ \A k \in 1..n : u[k] = u[k - 1] \o f[k]
  BY <1>1, <1>2 DEF Joins, Joined
<1>4. ASSUME n > 0 PROVE Joined(f, n) = Joined(f, n - 1) \o f[n]
  <2>1. PICK m \in Nat : m = n - 1 /\ m + 1 = n
    BY <1>4
  <2>2. [j \in 1..m |-> f[j]] \in Seq(Bytes) /\ Len([j \in 1..m |-> f[j]]) = m
    BY <2>1 DEF Made
  <2>3. PICK v : Joins([j \in 1..m |-> f[j]], v)
    BY <2>2, JoinFacts
  <2>4. /\ v \in [0..m -> Bytes] /\ Joined(f, m) = v[m] /\ v[0] = << >>
        /\ \A k \in 1..m : v[k] = v[k - 1] \o f[k]
    BY <2>2, <2>3 DEF Joins, Joined
  <2> DEFINE P == {k \in Nat : k <= m => u[k] = v[k]}
  <2>5. 0 \in P
    BY <1>3, <2>4
  <2>6. ASSUME NEW k \in P PROVE k + 1 \in P
    <3> SUFFICES ASSUME k + 1 <= m PROVE u[k + 1] = v[k + 1]
      OBVIOUS
    <3>1. PICK l \in Nat : l = k + 1 /\ l - 1 = k /\ l \in 1..m /\ l \in 1..n
      BY <2>1
    <3>2. u[k] = v[k]
      OBVIOUS
    <3> QED
      BY <1>3, <2>4, <3>1, <3>2
  <2>7. P = Nat
    <3> HIDE DEF P
    <3>1. P \in SUBSET Nat
      BY DEF P
    <3> QED
      BY <2>5, <2>6, <3>1, Induction
  <2>8. u[m] = v[m]
    BY <2>7
  <2>9. n \in 1..n /\ n - 1 = m
    BY <2>1
  <2> QED
    BY <1>3, <2>4, <2>8, <2>9
<1> QED
  BY <1>3, <1>4

\* Where the parts are in all of them.
LEMMA JoinedPlaces ==
  ASSUME NEW f, NEW n \in Nat, Made(f, n)
  PROVE  /\ Raises(Joined(f, n)) <=> \E k \in 1..n : Raises(f[k])
         /\ \A k \in 1..n :
              /\ Joined(f, k) \in Bytes /\ Joined(f, k - 1) \in Bytes
              /\ Len(Joined(f, k)) = Len(Joined(f, k - 1)) + Len(f[k])
              /\ Len(Joined(f, k)) <= Len(Joined(f, n))
              /\ \A j \in 1..Len(f[k]) : Joined(f, n)[Len(Joined(f, k - 1)) + j] = f[k][j]
<1> DEFINE Places(m) ==
             /\ Raises(Joined(f, m)) <=> \E k \in 1..m : Raises(f[k])
             /\ \A k \in 1..m :
                  /\ Joined(f, k) \in Bytes /\ Joined(f, k - 1) \in Bytes
                  /\ Len(Joined(f, k)) = Len(Joined(f, k - 1)) + Len(f[k])
                  /\ Len(Joined(f, k)) <= Len(Joined(f, m))
                  /\ \A j \in 1..Len(f[k]) : Joined(f, m)[Len(Joined(f, k - 1)) + j] = f[k][j]
           P == {m \in Nat : m <= n => Places(m)}
<1>1. Places(0)
  <2>1. Made(f, 0)
    BY DEF Made
  <2>2. Joined(f, 0) = << >>
    BY <2>1, JoinedNext
  <2>3. ~Raises(<< >>)
    BY DEF Raises, ToSet
  <2> QED
    BY <2>2, <2>3
<1>2. ASSUME NEW m \in Nat, m + 1 <= n, Places(m) PROVE Places(m + 1)
  <2>1. PICK l \in Nat : l = m + 1 /\ l - 1 = m /\ l > 0 /\ l \in 1..n
    BY <1>2
  <2>2. Made(f, m) /\ Made(f, l) /\ f[l] \in Bytes
    BY <2>1 DEF Made
  <2>3. PICK a \in Bytes : a = Joined(f, m)
    BY <2>2, JoinedNext
  <2>4. PICK b \in Bytes : b = f[l]
    BY <2>2
  <2>5. Joined(f, l) = a \o b
    BY <2>1, <2>2, <2>3, <2>4, JoinedNext
  <2>6. /\ a \o b \in Bytes /\ Len(a \o b) = Len(a) + Len(b) /\ Len(a) \in Nat /\ Len(b) \in Nat
        /\ \A j \in 1..Len(a) : (a \o b)[j] = a[j]
        /\ \A j \in 1..Len(b) : (a \o b)[Len(a) + j] = b[j]
    BY DEF Bytes
  <2>7. Places(m)
    BY <1>2
  <2>8. Raises(Joined(f, l)) <=> \E k \in 1..l : Raises(f[k])
    <3>1. Raises(a \o b) <=> Raises(a) \/ Raises(b)
      BY RaisesOfTwo
    <3>2. \A k : k \in 1..l <=> k \in 1..m \/ k = l
      BY <2>1
    <3>3. Raises(a) <=> \E k \in 1..m : Raises(f[k])
      BY <2>3, <2>7
    <3> QED
      BY <2>4, <2>5, <3>1, <3>2, <3>3
  <2>9. ASSUME NEW k \in 1..l
        PROVE  /\ Joined(f, k) \in Bytes /\ Joined(f, k - 1) \in Bytes
               /\ Len(Joined(f, k)) = Len(Joined(f, k - 1)) + Len(f[k])
               /\ Len(Joined(f, k)) <= Len(Joined(f, l))
               /\ \A j \in 1..Len(f[k]) : Joined(f, l)[Len(Joined(f, k - 1)) + j] = f[k][j]
    <3>1. CASE k = l
      <4>1. Joined(f, k - 1) = a /\ Joined(f, k) = a \o b /\ f[k] = b
        BY <2>1, <2>3, <2>4, <2>5, <3>1
      <4>2. Len(a \o b) <= Len(a \o b)
        BY <2>6
      <4>3. Joined(f, l) = a \o b
        BY <2>5
      <4> QED
        BY <2>6, <4>1, <4>2, <4>3
    <3>2. CASE k # l
      <4>1. k \in 1..m
        BY <2>1, <3>2
      <4>2. /\ Joined(f, k) \in Bytes /\ Joined(f, k - 1) \in Bytes
            /\ Len(Joined(f, k)) = Len(Joined(f, k - 1)) + Len(f[k])
            /\ Len(Joined(f, k)) <= Len(a)
            /\ \A j \in 1..Len(f[k]) : a[Len(Joined(f, k - 1)) + j] = f[k][j]
        BY <2>3, <2>7, <4>1
      <4>3. PICK x \in Nat, y \in Nat, z \in Nat :
              /\ x = Len(Joined(f, k - 1)) /\ y = Len(f[k]) /\ z = Len(Joined(f, k))
        <5>1. f[k] \in Bytes
          BY <2>1, <2>2 DEF Made
        <5>2. \A s \in Bytes : Len(s) \in Nat
          BY DEF Bytes
        <5> QED
          BY <4>2, <5>1, <5>2
      <4>4. z = x + y /\ z <= Len(a) /\ z <= Len(a) + Len(b)
        <5>1. z = x + y /\ z <= Len(a)
          BY <4>2, <4>3
        <5>2. PICK p \in Nat, q \in Nat : p = Len(a) /\ q = Len(b)
          BY <2>6
        <5>3. z <= p + q
          BY <5>1, <5>2
        <5> QED
          BY <5>1, <5>2, <5>3
      <4>5. ASSUME NEW j \in 1..y PROVE (a \o b)[x + j] = f[k][j]
        <5>1. x + j \in 1..Len(a)
          BY <2>6, <4>4
        <5>2. a[x + j] = f[k][j]
          BY <4>2, <4>3
        <5> QED
          BY <2>6, <5>1, <5>2
      <4> QED
        BY <2>5, <2>6, <4>2, <4>3, <4>4, <4>5
    <3> QED
      BY <3>1, <3>2
  <2>10. Places(l)
    BY <2>8, <2>9
  <2> HIDE DEF Places
  <2> QED
    BY <2>1, <2>10
<1>3. P = Nat
  <2> HIDE DEF Places
  <2>1. 0 \in P /\ P \in SUBSET Nat
    BY <1>1
  <2>2. ASSUME NEW m \in P PROVE m + 1 \in P
    <3>1. m + 1 <= n => m <= n
      OBVIOUS
    <3> QED
      BY <1>2, <3>1
  <2> HIDE DEF P
  <2> QED
    BY <2>1, <2>2, Induction
<1>4. Places(n)
  <2> HIDE DEF Places
  <2> QED
    BY <1>3
<1> QED
  BY <1>4

-----------------------------------------------------------------------------
(* The parts of an encoding.                                               *)

\* A run of items.
LEMMA RunOfItems ==
  ASSUME NEW S, NEW bs \in Seq(S), NEW i \in 1..Len(bs), NEW n \in 0..(Len(bs) - i)
  PROVE  /\ SubSeq(bs, i, i + n) \in Seq(S) /\ Len(SubSeq(bs, i, i + n)) = n + 1
         /\ \A k \in 1..(n + 1) : SubSeq(bs, i, i + n)[k] = bs[i + k - 1]
  OBVIOUS

\* Bools in a byte, and each of them in its bit.
LEMMA CompressFacts ==
  ASSUME NEW bs \in Seq(Seq(Byte)), Len(bs) <= ByteBits
  PROVE  /\ Compress(bs) \in Seq(Byte) /\ Len(Compress(bs)) = 1
         /\ \A k \in 1..Len(bs) :
              ByteBits - k \in BitsOf(Compress(bs)[1]) <=> bs[k] = <<TrueByte>>
<1> DEFINE S == {ByteBits - k : k \in {k \in DOMAIN bs : bs[k] = <<TrueByte>>}}
<1>1. S \subseteq 0..(ByteBits - 1)
  BY SizeFacts
<1>2. 0..(ByteBits - 1) \subseteq 0..(MaxBits - 1)
  BY BaseFacts, SizeFacts, ByteFacts
<1>3. /\ FromBits(S) \in 0..(Pow(2, MaxBits) - 1) /\ FromBits(S) \in Nat
      /\ BitsOf(FromBits(S)) = S
  <2> HIDE DEF S
  <2>1. S \cap (0..(MaxBits - 1)) = S
    BY <1>1, <1>2
  <2> QED
    BY <2>1, FromBitsHas
<1>4. FromBits(S) \in Byte
  <2> HIDE DEF S
  <2>1. ByteBits \in 0..MaxBits
    BY ByteFacts
  <2>2. FromBits(S) < Pow(2, ByteBits)
    BY <1>1, <1>3, <2>1, BitsBound
  <2>3. Pow(2, ByteBits) \in Nat
    BY PowOfTwo, SizeFacts
  <2> QED
    BY <1>3, <2>2, <2>3, BaseFacts DEF Byte
<1>5. ASSUME NEW k \in 1..Len(bs) PROVE ByteBits - k \in S <=> bs[k] = <<TrueByte>>
  <2>1. \A j \in 1..Len(bs) : ByteBits - j = ByteBits - k => j = k
    BY SizeFacts
  <2> QED
    BY <2>1
<1>6. Compress(bs) = <<FromBits(S)>>
  BY DEF Compress
<1> HIDE DEF S
<1>7. PICK x \in Byte : x = FromBits(S)
  BY <1>4
<1>8. Compress(bs) = <<x>> /\ BitsOf(x) = S
  BY <1>3, <1>6, <1>7, Zenon
<1>9. Compress(bs) \in Seq(Byte) /\ Len(Compress(bs)) = 1 /\ Compress(bs)[1] = x
  BY <1>8
<1> QED
  BY <1>5, <1>8, <1>9, Zenon

MadeParts == [dynamic : BOOLEAN, head : Bytes, tail : Bytes]

\* The parts from item i on, when f has those from the items after it.
PartStep(reencode, homogeneous, ts, bs, f, i) ==
  IF i > Len(bs) THEN << >>
  ELSE IF IsDynamic[ts[i]]
  THEN <<Dynamic(IF ts[i].kind = "string" THEN bs[i] ELSE reencode[ts[i]][bs[i]])>> \o f[i + 1]
  ELSE IF ts[i].kind = "bool"
  THEN IF BoolsFrom(ts, i, -1, homogeneous) % ByteBits # 0 THEN <<Static(Poison)>>
       ELSE <<Static(Compress(SubSeq(bs, i, i + InByte(ts, i, homogeneous))))>>
            \o f[i + InByte(ts, i, homogeneous) + 1]
  ELSE <<Static(IF AsBytes(bs[i]) = {} THEN Poison ELSE bs[i])>> \o f[i + 1]

\* The bytes of the items are there, also encoded anew.
Encodable(reencode, ts, bs) ==
  /\ bs \in Seq(Seq(Byte)) /\ Len(bs) = Len(ts)
  /\ \A i \in 1..Len(ts) :
       IsDynamic[ts[i]] /\ ts[i].kind # "string" => reencode[ts[i]][bs[i]] \in Bytes

\* f has the parts from each item on.
Parted(reencode, homogeneous, ts, bs, f) ==
  /\ f \in [1..(Len(ts) + 1) -> Seq(MadeParts)]
  /\ Parts(reencode, homogeneous, ts, bs) = f[1]
  /\ \A i \in 1..(Len(ts) + 1) : f[i] = PartStep(reencode, homogeneous, ts, bs, f, i)

\* The parts are made.
LEMMA MadePartsFacts ==
  ASSUME NEW b \in Bytes
  PROVE  Static(b) \in MadeParts /\ Dynamic(b) \in MadeParts
<1>1. Digits(0, LengthSize) \in Bytes /\ << >> \in Bytes
  <2>1. Digits(0, LengthSize) \in Seq(Byte)
    BY DigitsFacts DEF LengthSize
  <2> QED
    BY <2>1, RaisesFacts DEF Bytes
<1> QED
  BY <1>1 DEF Static, Dynamic, MadeParts

\* The bytes of a byte of bools.
LEMMA CompressedRun ==
  ASSUME NEW ts \in Seq(Types), NEW bs \in Seq(Seq(Byte)), Len(bs) = Len(ts),
         NEW i \in 1..Len(ts), ts[i].kind = "bool", NEW homogeneous \in BOOLEAN
  PROVE  /\ Compress(SubSeq(bs, i, i + InByte(ts, i, homogeneous))) \in Seq(Byte)
         /\ Len(Compress(SubSeq(bs, i, i + InByte(ts, i, homogeneous)))) = 1
         /\ \A k \in 0..InByte(ts, i, homogeneous) :
              ByteBits - (k + 1)
                  \in BitsOf(Compress(SubSeq(bs, i, i + InByte(ts, i, homogeneous)))[1])
                <=> bs[i + k] = <<TrueByte>>
<1>1. PICK n \in 0..(Len(ts) - i) : n = InByte(ts, i, homogeneous)
  BY InByteFacts
<1>2. n + 1 <= ByteBits
  <2>1. PICK m \in Nat : m = ByteBits - 1 /\ m + 1 = ByteBits
    BY SizeFacts
  <2>2. PICK l \in Int : l = BoolsFrom(ts, i, 1, homogeneous)
    <3>1. CASE homogeneous
      <4>1. BoolsFrom(ts, i, 1, homogeneous) = Len(ts) - i
        BY <3>1 DEF BoolsFrom
      <4> QED
        BY <4>1
    <3>2. CASE ~homogeneous
      <4>1. homogeneous = FALSE
        BY <3>2
      <4>2. PICK l \in 0..(Len(ts) - i) : l = BoolsFrom(ts, i, 1, FALSE)
        BY RunFacts
      <4>3. BoolsFrom(ts, i, 1, homogeneous) = BoolsFrom(ts, i, 1, FALSE)
        BY <4>1
      <4>4. l \in Int
        OBVIOUS
      <4> QED
        BY <4>2, <4>3, <4>4
    <3> QED
      BY <3>1, <3>2
  <2>3. m \in Int /\ l \in Int
    OBVIOUS
  <2>4. Min({m, l}) = IF m <= l THEN m ELSE l
    BY <2>3, MaxMinOfTwo
  <2>5. n <= m
    BY <1>1, <2>1, <2>2, <2>3, <2>4 DEF InByte
  <2> QED
    BY <2>1, <2>5
<1>3. PICK run : run = SubSeq(bs, i, i + n)
  OBVIOUS
<1>4. /\ run \in Seq(Seq(Byte)) /\ Len(run) = n + 1
      /\ \A k \in 1..(n + 1) : run[k] = bs[i + k - 1]
  <2>1. i \in 1..Len(bs) /\ n \in 0..(Len(bs) - i)
    OBVIOUS
  <2>2. /\ SubSeq(bs, i, i + n) \in Seq(Seq(Byte)) /\ Len(SubSeq(bs, i, i + n)) = n + 1
        /\ \A k \in 1..(n + 1) : SubSeq(bs, i, i + n)[k] = bs[i + k - 1]
    BY <2>1, RunOfItems, Zenon
  <2> QED
    BY <1>3, <2>2, Zenon
<1>5. /\ Compress(run) \in Seq(Byte) /\ Len(Compress(run)) = 1
      /\ \A k \in 1..(n + 1) : ByteBits - k \in BitsOf(Compress(run)[1]) <=> run[k] = <<TrueByte>>
  BY <1>2, <1>4, CompressFacts
<1>6. ASSUME NEW k \in 0..n
      PROVE  ByteBits - (k + 1) \in BitsOf(Compress(run)[1]) <=> bs[i + k] = <<TrueByte>>
  <2>1. PICK l \in 1..(n + 1) : l = k + 1 /\ i + l - 1 = i + k
    OBVIOUS
  <2> QED
    BY <1>4, <1>5, <2>1
<1> QED
  BY <1>1, <1>3, <1>5, <1>6

\* The parts from an item on.
LEMMA PartStepFacts ==
  ASSUME NEW ts \in Seq(Types), NEW bs, NEW reencode, Encodable(reencode, ts, bs),
         NEW homogeneous \in BOOLEAN, NEW i \in 1..(Len(ts) + 1), NEW f,
         \A j \in 1..(Len(ts) + 1) : j > i => f[j] \in Seq(MadeParts)
  PROVE  PartStep(reencode, homogeneous, ts, bs, f, i) \in Seq(MadeParts)
<1>0. bs \in Seq(Seq(Byte)) /\ Len(bs) = Len(ts)
  BY DEF Encodable
<1>1. CASE i > Len(ts)
  BY <1>0, <1>1 DEF PartStep
<1>2. CASE ~(i > Len(ts))
  <2>1. i \in 1..Len(ts) /\ ts[i] \in Types /\ bs[i] \in Seq(Byte) /\ bs[i] \in Bytes
    <3>1. i \in 1..Len(ts)
      BY <1>2
    <3>2. bs[i] \in Seq(Byte)
      BY <1>0, <3>1
    <3> QED
      BY <3>1, <3>2, RaisesFacts
  <2>2. PICK j \in 1..(Len(ts) + 1) : j = i + 1 /\ j > i
    BY <2>1
  <2>3. f[j] \in Seq(MadeParts)
    BY <2>2
  <2>4. CASE IsDynamic[ts[i]]
    <3>1. PICK x \in Bytes :
            x = IF ts[i].kind = "string" THEN bs[i] ELSE reencode[ts[i]][bs[i]]
      BY <2>1, <2>4 DEF Encodable
    <3>2. Dynamic(x) \in MadeParts
      BY MadePartsFacts
    <3>3. PartStep(reencode, homogeneous, ts, bs, f, i) = <<Dynamic(x)>> \o f[j]
      BY <1>0, <1>2, <2>2, <2>4, <3>1 DEF PartStep
    <3> QED
      BY <2>3, <3>2, <3>3
  <2>5. CASE ~IsDynamic[ts[i]] /\ ts[i].kind = "bool"
    <3>1. CASE BoolsFrom(ts, i, -1, homogeneous) % ByteBits # 0
      <4>1. Static(Poison) \in MadeParts
        BY RaisesFacts, MadePartsFacts
      <4> QED
        BY <1>0, <1>2, <2>5, <3>1, <4>1 DEF PartStep
    <3>2. CASE ~(BoolsFrom(ts, i, -1, homogeneous) % ByteBits # 0)
      <4>1. PICK n \in 0..(Len(ts) - i) : n = InByte(ts, i, homogeneous)
        BY <2>1, <2>5, InByteFacts
      <4>2. PICK x \in Bytes : x = Compress(SubSeq(bs, i, i + n))
        <5>1. Compress(SubSeq(bs, i, i + n)) \in Seq(Byte)
          BY <1>0, <2>1, <2>5, <4>1, CompressedRun
        <5> QED
          BY <5>1, RaisesFacts
      <4>3. PICK k \in 1..(Len(ts) + 1) : k = i + n + 1 /\ k > i
        BY <2>1
      <4>4. PartStep(reencode, homogeneous, ts, bs, f, i) = <<Static(x)>> \o f[k]
        BY <1>0, <1>2, <2>5, <3>2, <4>1, <4>2, <4>3 DEF PartStep
      <4>5. Static(x) \in MadeParts /\ f[k] \in Seq(MadeParts)
        BY <4>3, MadePartsFacts
      <4> QED
        BY <4>4, <4>5
    <3> QED
      BY <3>1, <3>2
  <2>6. CASE ~IsDynamic[ts[i]] /\ ts[i].kind # "bool"
    <3>1. PICK x \in Bytes : x = IF AsBytes(bs[i]) = {} THEN Poison ELSE bs[i]
      BY <2>1, RaisesFacts
    <3>2. Static(x) \in MadeParts
      BY MadePartsFacts
    <3>3. PartStep(reencode, homogeneous, ts, bs, f, i) = <<Static(x)>> \o f[j]
      BY <1>0, <1>2, <2>2, <2>6, <3>1 DEF PartStep
    <3> QED
      BY <2>3, <3>2, <3>3
  <2> QED
    BY <2>4, <2>5, <2>6
<1> QED
  BY <1>1, <1>2

\* The bytes of the items are encoded anew in the same way.
AlsoEncodable(reencode, other, ts, bs) ==
  \A i \in 1..Len(ts) : reencode[ts[i]] = other[ts[i]]

\* The parts depend on those after and on how these items are encoded anew only.
LEMMA PartStepSame ==
  ASSUME NEW ts \in Seq(Types), NEW bs, NEW reencode, Encodable(reencode, ts, bs),
         NEW other, AlsoEncodable(reencode, other, ts, bs),
         NEW homogeneous \in BOOLEAN, NEW i \in 1..(Len(ts) + 1), NEW f, NEW g,
         \A j \in 1..(Len(ts) + 1) : j > i => f[j] = g[j]
  PROVE  PartStep(reencode, homogeneous, ts, bs, f, i) = PartStep(other, homogeneous, ts, bs, g, i)
<1>0. bs \in Seq(Seq(Byte)) /\ Len(bs) = Len(ts)
  BY DEF Encodable
<1>1. CASE i > Len(ts)
  BY <1>0, <1>1 DEF PartStep
<1>2. CASE ~(i > Len(ts))
  <2>1. i \in 1..Len(ts)
    BY <1>2
  <2>2. f[i + 1] = g[i + 1]
    <3>1. i + 1 \in 1..(Len(ts) + 1) /\ i + 1 > i
      BY <2>1
    <3> QED
      BY <3>1
  <2>3. ts[i].kind = "bool" =>
          f[i + InByte(ts, i, homogeneous) + 1] = g[i + InByte(ts, i, homogeneous) + 1]
    <3> SUFFICES ASSUME ts[i].kind = "bool"
                 PROVE  f[i + InByte(ts, i, homogeneous) + 1]
                          = g[i + InByte(ts, i, homogeneous) + 1]
      OBVIOUS
    <3>1. PICK n \in 0..(Len(ts) - i) : n = InByte(ts, i, homogeneous)
      BY <2>1, InByteFacts
    <3>2. i + n + 1 \in 1..(Len(ts) + 1) /\ i + n + 1 > i
      BY <2>1
    <3> QED
      BY <3>1, <3>2
  <2>4. reencode[ts[i]] = other[ts[i]]
    BY <2>1 DEF AlsoEncodable
  <2> QED
    BY <1>0, <1>2, <2>2, <2>3, <2>4 DEF PartStep
<1> QED
  BY <1>1, <1>2

\* There are such parts.
LEMMA PartsFacts ==
  ASSUME NEW ts \in Seq(Types), NEW bs, NEW reencode, Encodable(reencode, ts, bs),
         NEW homogeneous \in BOOLEAN
  PROVE  \E f : Parted(reencode, homogeneous, ts, bs, f)
<1>0. bs \in Seq(Seq(Byte)) /\ Len(bs) = Len(ts)
  BY DEF Encodable
<1> DEFINE S == 1..(Len(ts) + 1)
           Body(f, i) == PartStep(reencode, homogeneous, ts, bs, f, i)
           rank == [i \in S |-> Len(ts) + 1 - i]
           T == [i \in S |-> Seq(MadeParts)]
           G == [i \in S |-> [g \in Into(S, T) |-> Body(g, i)]]
<1>1. /\ rank \in [S -> Nat] /\ \A i \in S : rank[i] = Len(ts) + 1 - i
      /\ \A i \in S : T[i] = Seq(MadeParts)
      /\ \A i \in S : \A g \in Into(S, T) : G[i][g] = Body(g, i)
  OBVIOUS
<1>2. \A i, j \in S : rank[j] < rank[i] <=> j > i
  BY <1>1
<1> HIDE DEF rank, T, G
<1>3. ASSUME NEW i \in S, NEW g \in Into(S, T) PROVE G[i][g] \in T[i]
  <2>1. \A j \in S : g[j] \in Seq(MadeParts)
    <3> HIDE DEF S
    <3>1. \A j \in S : g[j] \in T[j]
      BY IntoFacts
    <3> QED
      BY <1>1, <3>1
  <2>2. \A j \in 1..(Len(ts) + 1) : j > i => g[j] \in Seq(MadeParts)
    BY <2>1
  <2>3. Body(g, i) \in Seq(MadeParts)
    BY <2>2, PartStepFacts
  <2> HIDE DEF Body
  <2> QED
    BY <1>1, <2>3
<1>4. ASSUME NEW i \in S, NEW g \in Into(S, T), NEW h \in Into(S, T),
             \A j \in S : rank[j] < rank[i] => g[j] = h[j]
      PROVE  G[i][g] = G[i][h]
  <2>1. \A j \in 1..(Len(ts) + 1) : j > i => g[j] = h[j]
    BY <1>2, <1>4
  <2>2. AlsoEncodable(reencode, reencode, ts, bs)
    BY DEF AlsoEncodable
  <2>3. Body(g, i) = Body(h, i)
    BY <2>1, <2>2, PartStepSame
  <2> HIDE DEF Body
  <2> QED
    BY <1>1, <2>3
<1>5. PICK f \in Into(S, T) : \A i \in S : f[i] = G[i][f]
  <2> HIDE DEF S, Body
  <2>1. /\ \A i \in S : T[i] # {}
        /\ \A i \in S : \A g \in Into(S, T) : G[i][g] \in T[i]
        /\ \A i \in S : \A g, h \in Into(S, T) :
             (\A j \in S : rank[j] < rank[i] => g[j] = h[j]) => G[i][g] = G[i][h]
    <3>1. \A i \in S : T[i] # {}
      <4>1. << >> \in Seq(MadeParts)
        OBVIOUS
      <4> QED
        BY <1>1, <4>1
    <3> QED
      BY <1>3, <1>4, <3>1
  <2>2. Recursive(S, rank, T, G)
    BY <1>1, <2>1 DEF Recursive
  <2> QED
    BY <2>2, RankedRecursion
<1> DEFINE Raw(from, i) ==
             IF i > Len(bs) THEN <<>>
             ELSE IF IsDynamic[ts[i]]
             THEN <<Dynamic(IF ts[i].kind = "string" THEN bs[i] ELSE reencode[ts[i]][bs[i]])>>
                  \o from[i + 1]
             ELSE IF ts[i].kind = "bool"
             THEN LET after == Min({ByteBits - 1, BoolsFrom(ts, i, 1, homogeneous)})
                  IN  IF BoolsFrom(ts, i, -1, homogeneous) % ByteBits # 0 THEN <<Static(Poison)>>
                      ELSE <<Static(Compress(SubSeq(bs, i, i + after)))>> \o from[i + after + 1]
             ELSE <<Static(IF AsBytes(bs[i]) = {} THEN Poison ELSE bs[i])>> \o from[i + 1]
           Is(from) == from = [i \in 1..(Len(bs) + 1) |-> Raw(from, i)]
<1>6. \A from, i : Raw(from, i) = Body(from, i)
  BY DEF PartStep, InByte
<1>7. \A from : Is(from) <=> from = [i \in S |-> Body(from, i)]
  <2> TAKE from
  <2> HIDE DEF Raw, Body
  <2> QED
    BY <1>0, <1>6
<1>8. Is(f)
  <2> HIDE DEF Is, Body, S
  <2>1. f = [i \in S |-> f[i]]
    BY IntoFacts
  <2>2. \A i \in S : f[i] = Body(f, i)
    BY <1>1, <1>5
  <2> QED
    BY <1>7, <2>1, <2>2
<1>9. PICK u : u = (CHOOSE g : Is(g)) /\ Is(u)
  <2> HIDE DEF Is
  <2> QED
    BY <1>8
<1>10. Parts(reencode, homogeneous, ts, bs) = u[1]
  BY <1>9 DEF Parts
<1>11. u = [i \in S |-> Body(u, i)]
  <2> HIDE DEF Is, Body, S
  <2> QED
    BY <1>7, <1>9
<1>12. \A i \in S : u[i] = Body(u, i)
  <2> HIDE DEF Body, S
  <2> QED
    BY <1>11
<1> DEFINE P == {i \in S : u[i] \in Seq(MadeParts)}
<1>13. ASSUME NEW i \in S, \A j \in S : rank[j] < rank[i] => j \in P PROVE i \in P
  <2>1. \A j \in 1..(Len(ts) + 1) : j > i => u[j] \in Seq(MadeParts)
    BY <1>2, <1>13
  <2>2. Body(u, i) \in Seq(MadeParts)
    BY <2>1, PartStepFacts
  <2>3. u[i] \in Seq(MadeParts)
    <3> HIDE DEF Body
    <3> QED
      BY <1>12, <2>2
  <2> QED
    BY <2>3
<1>14. P = S
  <2>1. P \in SUBSET S
    OBVIOUS
  <2>2. \A i \in S : (\A j \in S : rank[j] < rank[i] => j \in P) => i \in P
    BY <1>13
  <2> HIDE DEF P, S
  <2>3. Hereditary(S, rank, P)
    BY <1>1, <2>1, <2>2 DEF Hereditary
  <2> QED
    BY <2>3, RankInduction
<1>15. u \in [S -> Seq(MadeParts)]
  <2>1. \A i \in S : u[i] \in Seq(MadeParts)
    BY <1>14
  <2> HIDE DEF S, Body
  <2> QED
    BY <1>11, <2>1
<1>16. Parted(reencode, homogeneous, ts, bs, u)
  BY <1>10, <1>12, <1>15 DEF Parted
<1> QED
  BY <1>16

\* Parts are the same when their items are encoded anew in the same way.
LEMMA PartsSame ==
  ASSUME NEW ts \in Seq(Types), NEW bs, NEW reencode, Encodable(reencode, ts, bs),
         NEW other, AlsoEncodable(reencode, other, ts, bs), NEW homogeneous \in BOOLEAN
  PROVE  Parts(reencode, homogeneous, ts, bs) = Parts(other, homogeneous, ts, bs)
<1>1. Encodable(other, ts, bs)
  BY DEF Encodable, AlsoEncodable
<1>2. PICK f : Parted(reencode, homogeneous, ts, bs, f)
  BY PartsFacts
<1>3. PICK g : Parted(other, homogeneous, ts, bs, g)
  BY <1>1, PartsFacts
<1> DEFINE S == 1..(Len(ts) + 1)
           rank == [i \in S |-> Len(ts) + 1 - i]
           P == {i \in S : f[i] = g[i]}
<1>4. rank \in [S -> Nat] /\ \A i \in S : rank[i] = Len(ts) + 1 - i
  OBVIOUS
<1>5. ASSUME NEW i \in S, \A j \in S : rank[j] < rank[i] => j \in P PROVE i \in P
  <2>1. \A j \in 1..(Len(ts) + 1) : j > i => f[j] = g[j]
    BY <1>4, <1>5
  <2>2. PartStep(reencode, homogeneous, ts, bs, f, i) = PartStep(other, homogeneous, ts, bs, g, i)
    BY <2>1, PartStepSame
  <2> QED
    BY <1>2, <1>3, <2>2 DEF Parted
<1>6. P = S
  <2>1. P \in SUBSET S
    OBVIOUS
  <2>2. \A i \in S : (\A j \in S : rank[j] < rank[i] => j \in P) => i \in P
    BY <1>5
  <2> HIDE DEF P, S, rank
  <2>3. Hereditary(S, rank, P)
    BY <1>4, <2>1, <2>2 DEF Hereditary
  <2> QED
    BY <2>3, RankInduction
<1>7. 1 \in P
  BY <1>6
<1> QED
  BY <1>2, <1>3, <1>7 DEF Parted

\* The heads and tails of parts, and the heads with the places of the tails in them.
HeadsOf(parts) == [k \in 1..Len(parts) |-> parts[k].head]
TailsOf(parts) == [k \in 1..Len(parts) |-> parts[k].tail]
Placed(parts) ==
  [k \in 1..Len(parts) |->
    IF parts[k].dynamic
    THEN EncodeLength(Len(Joined(HeadsOf(parts), Len(parts))) + Len(Joined(TailsOf(parts), k - 1)))
    ELSE parts[k].head]

\* What is assembled are the placed heads, and then the tails.
LEMMA AssembledFacts ==
  ASSUME NEW parts \in Seq(MadeParts)
  PROVE  /\ Made(HeadsOf(parts), Len(parts)) /\ Made(TailsOf(parts), Len(parts))
         /\ Made(Placed(parts), Len(parts))
         /\ Assembled(parts) =
              Joined(Placed(parts), Len(parts)) \o Joined(TailsOf(parts), Len(parts))
         /\ Assembled(parts) \in Bytes
<1> DEFINE n == Len(parts)
<1>1. n \in Nat /\ DOMAIN parts = 1..n
      /\ \A k \in 1..n : parts[k].head \in Bytes /\ parts[k].tail \in Bytes
  <2>1. \A k \in 1..n : parts[k] \in MadeParts
    OBVIOUS
  <2>2. \A p \in MadeParts : p.head \in Bytes /\ p.tail \in Bytes
    BY DEF MadeParts
  <2> QED
    BY <2>1, <2>2
<1>2. Made(HeadsOf(parts), n) /\ Made(TailsOf(parts), n)
  BY <1>1 DEF Made, HeadsOf, TailsOf
<1>3. ASSUME NEW k \in 0..n
      PROVE  /\ Joined(TailsOf(parts), k) = Join([j \in 1..k |-> parts[j].tail])
             /\ Joined(TailsOf(parts), k) \in Bytes
  <2>1. [j \in 1..k |-> TailsOf(parts)[j]] = [j \in 1..k |-> parts[j].tail]
    BY <1>1 DEF TailsOf
  <2>2. Made(TailsOf(parts), k) /\ k \in Nat
    BY <1>1, <1>2 DEF Made
  <2> QED
    BY <2>1, <2>2, JoinedNext DEF Joined
<1>4. Joined(HeadsOf(parts), n) = Join([k \in DOMAIN parts |-> parts[k].head])
  <2>1. [j \in 1..n |-> HeadsOf(parts)[j]] = [k \in DOMAIN parts |-> parts[k].head]
    BY <1>1 DEF HeadsOf
  <2> QED
    BY <2>1 DEF Joined
<1>5. Joined(HeadsOf(parts), n) \in Bytes
  BY <1>1, <1>2, JoinedNext
<1>6. \A s \in Bytes : Len(s) \in Nat
  BY DEF Bytes
<1>7. ASSUME NEW k \in 1..n PROVE Placed(parts)[k] \in Bytes
  <2>1. k - 1 \in 0..n
    BY <1>1
  <2>2. Joined(TailsOf(parts), k - 1) \in Bytes
    BY <1>3, <2>1
  <2>3. PICK m \in Nat : m = Len(Joined(HeadsOf(parts), n)) + Len(Joined(TailsOf(parts), k - 1))
    <3>1. Len(Joined(HeadsOf(parts), n)) \in Nat
      BY <1>5, <1>6
    <3>2. Len(Joined(TailsOf(parts), k - 1)) \in Nat
      BY <1>6, <2>2
    <3> QED
      BY <3>1, <3>2
  <2>4. EncodeLength(m) \in Bytes
    BY EncodeLengthFacts
  <2> QED
    BY <1>1, <2>3, <2>4 DEF Placed
<1>8. Made(Placed(parts), n)
  BY <1>7 DEF Made
<1>9. Assembled(parts) = Joined(Placed(parts), n) \o Joined(TailsOf(parts), n)
  <2> DEFINE tails(k) == Join([j \in 1..k |-> parts[j].tail])
             head(k) == IF parts[k].dynamic
                        THEN EncodeLength(Len(Joined(HeadsOf(parts), n)) + Len(tails(k - 1)))
                        ELSE parts[k].head
  <2>1. Assembled(parts) = Join([k \in DOMAIN parts |-> head(k)]) \o tails(n)
    BY <1>4 DEF Assembled
  <2>2. \A k \in 0..n : tails(k) = Joined(TailsOf(parts), k)
    BY <1>3
  <2>3. \A k \in 1..n : head(k) = Placed(parts)[k]
    <3> SUFFICES ASSUME NEW k \in 1..n PROVE head(k) = Placed(parts)[k]
      OBVIOUS
    <3>1. k - 1 \in 0..n
      BY <1>1
    <3>2. tails(k - 1) = Joined(TailsOf(parts), k - 1)
      BY <2>2, <3>1
    <3> HIDE DEF tails
    <3> QED
      BY <3>2 DEF Placed
  <2>4. Join([k \in DOMAIN parts |-> head(k)]) = Joined(Placed(parts), n)
    <3> HIDE DEF head
    <3>1. [k \in DOMAIN parts |-> head(k)] = [k \in 1..n |-> Placed(parts)[k]]
      BY <1>1, <2>3
    <3> QED
      BY <3>1 DEF Joined
  <2>5. tails(n) = Joined(TailsOf(parts), n)
    BY <1>1, <2>2
  <2> HIDE DEF head, tails
  <2> QED
    BY <2>1, <2>4, <2>5
<1>10. Joined(Placed(parts), n) \in Bytes /\ Joined(TailsOf(parts), n) \in Bytes
  BY <1>1, <1>2, <1>8, JoinedNext
<1> QED
  BY <1>2, <1>8, <1>9, <1>10, RaisesOfTwo

\* The items are as many as the type has, or one of them raises; and there is a way to
\* encode them anew.
Fits(t, bs) == bs \in Seq(Bytes) /\ (Without(bs) => Len(ChildTypes(t, Len(bs))) = Len(bs))
Encoders(t, reencode) == \A j \in DOMAIN t.of : reencode[t.of[j]] \in [Bytes -> Bytes]

\* Items of which none raises are bytes.
LEMMA WithoutFacts ==
  ASSUME NEW bs \in Seq(Bytes)
  PROVE  /\ Without(bs) => bs \in Seq(Seq(Byte))
         /\ bs \in Seq(Seq(Byte)) => Without(bs)
         /\ ~Without(<<Poison>>)
<1>1. \A i \in 1..Len(bs) : bs[i] \in Bytes
  OBVIOUS
<1>2. DOMAIN bs = 1..Len(bs) /\ Len(bs) \in Nat /\ bs = [i \in 1..Len(bs) |-> bs[i]]
  OBVIOUS
<1>3. ASSUME Without(bs) PROVE bs \in Seq(Seq(Byte))
  <2>1. \A i \in 1..Len(bs) : bs[i] \in Seq(Byte)
    BY <1>1, <1>2, <1>3, RaisesFacts DEF Without
  <2> QED
    BY <1>2, <2>1
<1>4. ASSUME bs \in Seq(Seq(Byte)) PROVE Without(bs)
  <2>1. \A i \in 1..Len(bs) : bs[i] \in Seq(Byte)
    BY <1>4
  <2> QED
    BY <1>2, <2>1, RaisesFacts DEF Without
<1>5. ~Without(<<Poison>>)
  BY RaisesFacts DEF Without
<1> QED
  BY <1>3, <1>4, <1>5

\* The types of the items of bytes can be encoded.
LEMMA FitsAreEncodable ==
  ASSUME NEW t \in Types, NEW bs, Fits(t, bs), Without(bs), NEW reencode, Encoders(t, reencode)
  PROVE  /\ ChildTypes(t, Len(bs)) \in Seq(Types) /\ Len(bs) = Len(ChildTypes(t, Len(bs)))
         /\ Encodable(reencode, ChildTypes(t, Len(bs)), bs)
<1>1. bs \in Seq(Seq(Byte)) /\ Len(bs) \in Nat
  BY WithoutFacts DEF Fits
<1>2. PICK ts \in Seq(Types) : ts = ChildTypes(t, Len(bs)) /\ Len(ts) = Len(bs)
  BY <1>1, ChildFacts DEF Fits
<1>3. ASSUME NEW i \in 1..Len(ts) PROVE reencode[ts[i]][bs[i]] \in Bytes
  <2>1. PICK j \in DOMAIN t.of : ts[i] = t.of[j]
    <3>1. i \in DOMAIN ts
      OBVIOUS
    <3> QED
      BY <1>1, <1>2, <3>1, ChildFacts
  <2>2. bs[i] \in Bytes
    <3>1. bs[i] \in Seq(Byte)
      BY <1>1, <1>2
    <3> QED
      BY <3>1, RaisesFacts
  <2> QED
    BY <2>1, <2>2 DEF Encoders
<1> QED
  BY <1>1, <1>2, <1>3 DEF Encodable

\* Items are put together to bytes, unless one raises.
LEMMA PutByFacts ==
  ASSUME NEW t \in Types, NEW bs, Fits(t, bs), NEW reencode, Encoders(t, reencode)
  PROVE  /\ PutBy(reencode, t, bs) \in Bytes
         /\ ~Without(bs) => PutBy(reencode, t, bs) = Poison
<1>1. PICK n \in Nat : n = Len(bs)
  BY DEF Fits
<1>2. PICK prefix \in Bytes : prefix = IF t.kind = "dynamic" THEN EncodeLength(n) ELSE << >>
  <2>1. EncodeLength(n) \in Bytes /\ << >> \in Bytes
    BY EncodeLengthFacts DEF Bytes
  <2> QED
    BY <2>1
<1>3. PICK arrays \in BOOLEAN : arrays = (t.kind \in Arrays)
  <2>1. (t.kind \in Arrays) \in BOOLEAN
    OBVIOUS
  <2> QED
    BY <2>1, Zenon
<1> DEFINE e == Encode(reencode, arrays, ChildTypes(t, n), bs)
<1>4. PutBy(reencode, t, bs) = OrRaise(prefix \o e)
  BY <1>1, <1>2, <1>3 DEF PutBy
<1>5. CASE Without(bs)
  <2>1. PICK ts \in Seq(Types) : ts = ChildTypes(t, n) /\ Encodable(reencode, ts, bs)
    BY <1>1, <1>5, FitsAreEncodable
  <2>2. PICK f : Parted(reencode, arrays, ts, bs, f)
    BY <2>1, PartsFacts
  <2>3. f[1] \in Seq(MadeParts) /\ Parts(reencode, arrays, ts, bs) = f[1]
    <3>1. 1 \in 1..(Len(ts) + 1)
      OBVIOUS
    <3> QED
      BY <2>2, <3>1 DEF Parted
  <2>4. e \in Bytes
    BY <1>5, <2>1, <2>3, AssembledFacts DEF Encode
  <2> HIDE DEF e
  <2>5. prefix \o e \in Bytes
    BY <2>4, RaisesOfTwo
  <2> QED
    BY <1>4, <1>5, <2>5, OrRaiseFacts
<1>6. CASE ~Without(bs)
  <2>1. e = Poison /\ e \in Bytes /\ Raises(e)
    BY <1>6, RaisesFacts DEF Encode
  <2> HIDE DEF e
  <2>2. prefix \o e \in Bytes /\ Raises(prefix \o e)
    BY <2>1, RaisesOfTwo
  <2>3. OrRaise(prefix \o e) = Poison
    BY <2>2, OrRaiseFacts
  <2> QED
    BY <1>4, <2>1, <2>3
<1> QED
  BY <1>5, <1>6

\* How they are put together depends on how the items are encoded anew only.
LEMMA PutBySame ==
  ASSUME NEW t \in Types, NEW bs, Fits(t, bs), NEW reencode, Encoders(t, reencode),
         NEW other, \A j \in DOMAIN t.of : reencode[t.of[j]] = other[t.of[j]]
  PROVE  PutBy(reencode, t, bs) = PutBy(other, t, bs)
<1>1. PICK n \in Nat : n = Len(bs)
  BY DEF Fits
<1>2. CASE Without(bs)
  <2>1. PICK ts \in Seq(Types) : ts = ChildTypes(t, n) /\ Encodable(reencode, ts, bs)
    BY <1>1, <1>2, FitsAreEncodable
  <2>2. AlsoEncodable(reencode, other, ts, bs)
    <3>1. \A i \in 1..Len(ts) : \E j \in DOMAIN t.of : ts[i] = t.of[j]
      BY <2>1, ChildFacts
    <3> QED
      BY <3>1 DEF AlsoEncodable
  <2>3. PICK arrays \in BOOLEAN : arrays = (t.kind \in Arrays)
    <3>1. (t.kind \in Arrays) \in BOOLEAN
      OBVIOUS
    <3> QED
      BY <3>1, Zenon
  <2>4. Parts(reencode, arrays, ts, bs) = Parts(other, arrays, ts, bs)
    BY <2>1, <2>2, PartsSame
  <2>5. Encode(reencode, arrays, ts, bs) = Encode(other, arrays, ts, bs)
    BY <2>4 DEF Encode
  <2> QED
    BY <1>1, <2>1, <2>3, <2>5 DEF PutBy
<1>3. CASE ~Without(bs)
  BY <1>3 DEF PutBy, Encode
<1> QED
  BY <1>2, <1>3

\* The items that are read fit.
LEMMA ItemsFit ==
  ASSUME NEW t \in Types, NEW b \in Bytes
  PROVE  Fits(t, Items(t, b))
<1>1. CASE Items(t, b) = <<Poison>>
  <2>1. <<Poison>> \in Seq(Bytes)
    BY RaisesFacts
  <2>2. ~Without(<<Poison>>)
    BY <2>1, WithoutFacts
  <2> QED
    BY <1>1, <2>1, <2>2 DEF Fits
<1>2. CASE /\ Items(t, b) \in Seq(Seq(Byte))
           /\ Len(ChildTypes(t, Len(Items(t, b)))) = Len(Items(t, b))
  <2>1. Items(t, b) \in Seq(Bytes)
    <3>1. Seq(Byte) \subseteq Bytes
      BY RaisesFacts
    <3>2. \A x : x \in Seq(Seq(Byte)) => x \in Seq(Bytes)
      BY <3>1
    <3> QED
      BY <1>2, <3>2
  <2> QED
    BY <1>2, <2>1 DEF Fits
<1> QED
  BY <1>1, <1>2, ItemsFacts

\* Bytes are encoded anew by putting their items together again.
LEMMA ReencodeDef ==
  \A t \in Types :
    /\ Reencode[t] \in [Bytes -> Bytes]
    /\ \A b \in Bytes : Reencode[t][b] = Put(t, Items(t, b))
<1> DEFINE Body(g, t) == [b \in Bytes |-> PutBy(g, t, Items(t, b))]
           Is(f) == f = [t \in Types |-> Body(f, t)]
           T == [t \in Types |-> [Bytes -> Bytes]]
           G == [t \in Types |-> [g \in Into(Types, T) |-> Body(g, t)]]
<1>1. \A t \in Types : \A g \in Into(Types, T) : G[t][g] = Body(g, t)
  OBVIOUS
<1>2. \A t \in Types : T[t] = [Bytes -> Bytes]
  OBVIOUS
<1> HIDE DEF T, G
<1>3. ASSUME NEW t \in Types, NEW g,
             \A i \in DOMAIN t.of : g[t.of[i]] \in [Bytes -> Bytes]
      PROVE  Body(g, t) \in [Bytes -> Bytes]
  <2>1. Encoders(t, g)
    BY <1>3 DEF Encoders
  <2>2. \A b \in Bytes : PutBy(g, t, Items(t, b)) \in Bytes
    BY <2>1, ItemsFit, PutByFacts
  <2> QED
    BY <2>2
<1>4. ASSUME NEW t \in Types, NEW g \in Into(Types, T)
      PROVE  \A i \in DOMAIN t.of : g[t.of[i]] \in [Bytes -> Bytes]
  BY <1>2, TypeFacts, IntoFacts
<1>5. ASSUME NEW t \in Types, NEW g \in Into(Types, T), NEW h \in Into(Types, T),
             \A i \in DOMAIN t.of : g[t.of[i]] = h[t.of[i]]
      PROVE  G[t][g] = G[t][h]
  <2>1. Encoders(t, g)
    BY <1>4 DEF Encoders
  <2>2. \A b \in Bytes : PutBy(g, t, Items(t, b)) = PutBy(h, t, Items(t, b))
    BY <1>5, <2>1, ItemsFit, PutBySame
  <2>3. Body(g, t) = Body(h, t)
    BY <2>2
  <2> HIDE DEF Body
  <2> QED
    BY <1>1, <2>3
<1>6. PICK f \in Into(Types, T) : \A t \in Types : f[t] = G[t][f]
  <2> HIDE DEF Body
  <2>1. \A t \in Types : T[t] # {}
    <3>1. [b \in Bytes |-> b] \in [Bytes -> Bytes]
      OBVIOUS
    <3> QED
      BY <1>2, <3>1
  <2>2. \A t \in Types : \A g \in Into(Types, T) : G[t][g] \in T[t]
    BY <1>1, <1>2, <1>3, <1>4
  <2>3. \A t \in Types : \A g, h \in Into(Types, T) :
          (\A i \in DOMAIN t.of : g[t.of[i]] = h[t.of[i]]) => G[t][g] = G[t][h]
    BY <1>5
  <2>4. ByItems(T, G)
    BY <2>1, <2>2, <2>3 DEF ByItems
  <2> QED
    BY <2>4, TypeRecursion
<1>7. Is(f)
  <2> HIDE DEF Body
  <2>1. f = [t \in Types |-> f[t]]
    BY IntoFacts
  <2> QED
    BY <1>1, <1>6, <2>1
<1>8. Is(CHOOSE u : Is(u))
  <2> HIDE DEF Is
  <2> QED
    BY <1>7
<1>9. Is(Reencode)
  BY <1>8 DEF Reencode
<1>10. \A t \in Types : Reencode[t] = Body(Reencode, t)
  <2> HIDE DEF Body
  <2> QED
    BY <1>9
<1> DEFINE P == {t \in Types : Reencode[t] \in [Bytes -> Bytes]}
<1>11. ASSUME NEW t \in Types, \A i \in DOMAIN t.of : t.of[i] \in P PROVE t \in P
  <2>1. \A i \in DOMAIN t.of : Reencode[t.of[i]] \in [Bytes -> Bytes]
    BY <1>11
  <2> HIDE DEF Body
  <2> QED
    BY <1>3, <1>10, <2>1
<1>12. P = Types
  <2>1. P \in SUBSET Types
    OBVIOUS
  <2> HIDE DEF P
  <2> QED
    BY <1>11, <2>1, TypeInduction
<1>13. ASSUME NEW t \in Types, NEW b \in Bytes PROVE Reencode[t][b] = Put(t, Items(t, b))
  <2>1. Body(Reencode, t)[b] = Put(t, Items(t, b))
    BY DEF Put
  <2> HIDE DEF Body
  <2> QED
    BY <1>10, <2>1
<1> QED
  BY <1>12, <1>13

-----------------------------------------------------------------------------
(* Values and how they are made.                                           *)

\* The items of a value, one of each of their types.
LEMMA ValueFacts ==
  ASSUME NEW t \in Types, t.kind \notin Leaves, NEW v \in Values[t]
  PROVE  /\ Len(v) \in Nat /\ DOMAIN v = 1..Len(v) /\ v = [i \in 1..Len(v) |-> v[i]]
         /\ ChildTypes(t, Len(v)) \in Seq(Types) /\ Len(ChildTypes(t, Len(v))) = Len(v)
         /\ \A i \in 1..Len(v) : v[i] \in Values[ChildTypes(t, Len(v))[i]]
         /\ t.kind # "dynamic" => ChildTypes(t, t.size) = ChildTypes(t, Len(v))
         /\ t.kind = "dynamic" => Len(v) <= MaxItems
<1>1. /\ t.kind \in Arrays \cup Tuples /\ t.size \in Nat /\ t.of \in Seq(Types) /\ MadeOfItems(t)
      /\ MaxItems \in Nat
  BY TypeFacts, AbiAssumption
<1>2. CASE t.kind \in Arrays
  <2>1. PICK n \in Nat : /\ v \in [1..n -> Values[t.of[1]]]
                         /\ t.kind # "dynamic" => n = t.size
                         /\ t.kind = "dynamic" => n <= MaxItems
    <3>1. CASE t.kind = "static"
      BY <1>1, <3>1 DEF MadeOfItems
    <3>2. CASE t.kind = "dynamic"
      <4>1. PICK n \in 0..MaxItems : v \in [1..n -> Values[t.of[1]]]
        BY <1>1, <3>2 DEF MadeOfItems
      <4>2. n \in Nat /\ n <= MaxItems
        BY <1>1
      <4> QED
        BY <3>2, <4>1, <4>2, Zenon
    <3> QED
      BY <1>2, <3>1, <3>2 DEF Arrays
  <2>2. Len(v) = n /\ DOMAIN v = 1..n /\ v = [i \in 1..n |-> v[i]]
        /\ \A i \in 1..n : v[i] \in Values[t.of[1]]
    BY <2>1
  <2>3. /\ ChildTypes(t, n) \in Seq(Types) /\ Len(ChildTypes(t, n)) = n
        /\ \A i \in 1..n : ChildTypes(t, n)[i] = t.of[1]
    BY <1>2, ChildFacts
  <2> QED
    BY <2>1, <2>2, <2>3
<1>3. CASE t.kind \notin Arrays
  <2>1. t.kind \in Tuples
    BY <1>1, <1>3
  <2>2. v = [i \in DOMAIN t.of |-> v[i]] /\ \A i \in DOMAIN v : v[i] \in Values[t.of[i]]
    BY <1>1, <2>1 DEF MadeOfItems
  <2>3. PICK n \in Nat : n = Len(t.of) /\ DOMAIN t.of = 1..n
    BY <1>1
  <2>4. v = [i \in 1..n |-> v[i]] /\ DOMAIN v = 1..n
    BY <2>2, <2>3
  <2>5. Len(v) = n
    <3>1. [i \in 1..n |-> v[i]] \in Seq({v[i] : i \in 1..n}) /\ Len([i \in 1..n |-> v[i]]) = n
      OBVIOUS
    <3> QED
      BY <2>4, <3>1
  <2>6. ChildTypes(t, n) = t.of /\ ChildTypes(t, t.size) = t.of
    BY <1>1, <1>3, ChildFacts
  <2>7. t.kind # "dynamic"
    BY <1>3 DEF Arrays
  <2> QED
    BY <1>1, <2>2, <2>3, <2>4, <2>5, <2>6, <2>7
<1> QED
  BY <1>2, <1>3

\* An integer in as many bytes as its type has.
LEMMA NewUIntFacts ==
  ASSUME NEW size \in Nat, size <= BigBytes, NEW n \in Nat
  PROVE  /\ NewUInt(size, n) \in Bytes
         /\ ~Raises(NewUInt(size, n)) =>
              /\ NewUInt(size, n) \in Seq(Byte) /\ Len(NewUInt(size, n)) = size
              /\ IntOf(NewUInt(size, n)) = n
<1>1. CASE n \in 0..(Pow(Base, size) - 1)
  <2>1. Pow(Base, size) = Pow(2, ByteBits * size)
    BY BaseFacts
  <2>2. PICK k \in Nat : k = ByteBits * size
    BY SizeFacts
  <2>3. size \in 0..MaxBytesSize
    BY SizeFacts
  <2>4. k <= MaxBits
    <3>1. ByteBits * size <= ByteBits * MaxBytesSize
      BY <2>3, SizeFacts
    <3> QED
      BY <2>2, <3>1, BaseFacts
  <2>5. Pow(2, k) <= Pow(2, MaxBits) /\ Pow(2, k) \in Nat /\ Pow(2, MaxBits) \in Nat
    BY <2>4, PowOfTwo, BaseFacts
  <2>6. n < Pow(2, k) /\ n \in 0..(Pow(2, MaxBits) - 1)
    BY <1>1, <2>1, <2>2, <2>5
  <2>7. PICK b : b = IntToBytes(n, size)
    OBVIOUS
  <2>8. b \in Seq(Byte) /\ IntOf(b) = n /\ size <= Len(b) /\ Len(b) <= size
    <3>1. /\ b \in Seq(Byte) /\ IntOf(b) = n /\ size <= Len(b)
          /\ \A l \in 0..MaxBytesSize : size <= l /\ n < Pow(2, ByteBits * l) => Len(b) <= l
      BY <2>6, <2>7, IntToBytesFacts
    <3>2. n < Pow(2, ByteBits * size) /\ size <= size
      BY <2>2, <2>6
    <3> QED
      BY <2>3, <3>1, <3>2
  <2>9. NewUInt(size, n) = b /\ Len(b) = size
    BY <1>1, <2>7, <2>8 DEF NewUInt
  <2> QED
    BY <2>8, <2>9, RaisesFacts
<1>2. CASE n \notin 0..(Pow(Base, size) - 1)
  <2>1. NewUInt(size, n) = Poison
    BY <1>2 DEF NewUInt
  <2> QED
    BY <2>1, RaisesFacts
<1> QED
  BY <1>1, <1>2

\* A string after its length.
LEMMA NewStringFacts ==
  ASSUME NEW s \in Seq(Byte)
  PROVE  /\ NewString(s) \in Bytes
         /\ ~Raises(NewString(s)) =>
              /\ NewString(s) \in Seq(Byte) /\ ReadLength(NewString(s)) = Len(s)
              /\ NewString(s) = Slice(NewString(s), 0, LengthSize) \o s
              /\ StringNative(NewString(s)) = s
<1>1. PICK n \in Nat : n = Len(s)
  OBVIOUS
<1>2. PICK a \in Bytes : a = EncodeLength(n)
  BY EncodeLengthFacts
<1>3. s \in Bytes /\ ~Raises(s)
  BY RaisesFacts
<1>4. PICK b \in Bytes : b = a \o s /\ (Raises(b) <=> Raises(a))
  BY <1>3, RaisesOfTwo
<1>5. NewString(s) = IF AsBytes(b) = {} THEN Poison ELSE OrRaise(b)
  BY <1>1, <1>2, <1>4 DEF NewString
<1>6. OrRaise(b) = IF Raises(b) THEN Poison ELSE b
  BY OrRaiseFacts
<1>7. NewString(s) = Poison \/ (NewString(s) = b /\ ~Raises(b))
  BY <1>5, <1>6
<1>8. NewString(s) \in Bytes
  BY <1>7, RaisesFacts
<1>9. ASSUME ~Raises(NewString(s))
      PROVE  /\ NewString(s) \in Seq(Byte) /\ ReadLength(NewString(s)) = Len(s)
             /\ NewString(s) = Slice(NewString(s), 0, LengthSize) \o s
             /\ StringNative(NewString(s)) = s
  <2>1. NewString(s) = b /\ ~Raises(b) /\ b \in Seq(Byte)
    BY <1>7, <1>9, RaisesFacts
  <2>2. a \in Seq(Byte) /\ Len(a) = LengthSize /\ IntOf(a) = n
    BY <1>2, <1>4, <2>1, EncodeLengthFacts
  <2>3. /\ Len(b) = LengthSize + n
        /\ \A k \in 1..LengthSize : b[0 + k] = a[k]
        /\ \A k \in 1..n : b[LengthSize + k] = s[k]
    <3>1. /\ Len(a \o s) = Len(a) + Len(s)
          /\ \A k \in 1..Len(a) : (a \o s)[k] = a[k]
          /\ \A k \in 1..Len(s) : (a \o s)[Len(a) + k] = s[k]
      BY <2>2
    <3>2. \A k \in 1..LengthSize : 0 + k = k
      BY DEF LengthSize
    <3> QED
      BY <1>1, <1>4, <2>2, <3>1, <3>2
  <2>4. Slice(b, 0, 0 + Len(a)) = a
    <3>1. 0 \in 0..Len(b) /\ 0 + Len(a) <= Len(b)
      BY <2>2, <2>3 DEF LengthSize
    <3> QED
      BY <2>1, <2>2, <2>3, <3>1, SliceOf
  <2>5. Slice(b, LengthSize, LengthSize + Len(s)) = s
    <3>1. LengthSize \in 0..Len(b) /\ LengthSize + Len(s) <= Len(b)
      BY <1>1, <2>3 DEF LengthSize
    <3> QED
      BY <1>1, <2>1, <2>3, <3>1, SliceOf
  <2>6. Slice(b, 0, LengthSize) = a
    BY <2>2, <2>4 DEF LengthSize
  <2> QED
    BY <1>1, <1>4, <2>1, <2>2, <2>3, <2>5, <2>6 DEF ReadLength, StringNative
<1> QED
  BY <1>8, <1>9

\* A bool in its byte.
LEMMA NewBoolFacts ==
  ASSUME NEW v \in BOOLEAN
  PROVE  /\ NewBool(v) \in Seq(Byte) /\ Len(NewBool(v)) = 1
         /\ NewBool(v) = <<TrueByte>> <=> v
         /\ NewBool(v) = <<IF v THEN TrueByte ELSE 0>>
<1>1. <<TrueByte>> # <<0>>
  BY TrueByteFacts
<1> QED
  BY <1>1, TrueByteFacts DEF NewBool

\* A leaf is made to bytes that are its encoding and are read as it.
LEMMA LeafFacts ==
  ASSUME NEW t \in Types, t.kind \in Leaves, NEW v \in Values[t]
  PROVE  /\ NewLeaf(t, v) \in Bytes
         /\ ~Raises(NewLeaf(t, v)) =>
              /\ NewLeaf(t, v) \in Seq(Byte)
              /\ EncodesLeaf(t, v, NewLeaf(t, v)) /\ ReadsLeaf(t, v, NewLeaf(t, v))
              /\ t.kind \in {"uint", "byte"} => Len(NewLeaf(t, v)) = t.size
<1>1. t.size \in Nat /\ MadeOfItems(t) /\ (t.kind = "uint" => t.size <= BigBytes)
      /\ (t.kind = "byte" => t.size = 1)
  BY TypeFacts
<1>2. CASE t.kind \in {"uint", "byte"}
  <2>1. v \in Nat /\ t.size <= BigBytes
    BY <1>1, <1>2, SizeFacts DEF MadeOfItems
  <2>2. NewLeaf(t, v) = NewUInt(t.size, v)
    BY <1>2 DEF NewLeaf
  <2>3. /\ NewUInt(t.size, v) \in Bytes
        /\ ~Raises(NewUInt(t.size, v)) =>
             /\ NewUInt(t.size, v) \in Seq(Byte) /\ Len(NewUInt(t.size, v)) = t.size
             /\ IntOf(NewUInt(t.size, v)) = v
    BY <1>1, <2>1, NewUIntFacts
  <2>4. \A b : EncodesLeaf(t, v, b) <=> Len(b) = t.size /\ IntOf(b) = v
    BY <1>2 DEF EncodesLeaf
  <2>5. \A b : ReadsLeaf(t, v, b) <=> IntOf(b) = v
    BY <1>2 DEF ReadsLeaf
  <2> QED
    BY <2>2, <2>3, <2>4, <2>5
<1>3. CASE t.kind = "bool"
  <2>1. v \in BOOLEAN
    BY <1>1, <1>3 DEF MadeOfItems
  <2>2. NewLeaf(t, v) = NewBool(v)
    BY <1>3 DEF NewLeaf
  <2>3. NewBool(v) \in Seq(Byte) /\ NewBool(v) \in Bytes
    BY <2>1, NewBoolFacts, RaisesFacts
  <2>4. EncodesLeaf(t, v, NewBool(v))
    BY <1>3 DEF EncodesLeaf
  <2>5. ReadsLeaf(t, v, NewBool(v))
    <3>1. v <=> NewBool(v) = NewBool(TRUE)
      BY <2>1, NewBoolFacts
    <3> QED
      BY <1>3, <3>1 DEF ReadsLeaf
  <2> QED
    BY <1>3, <2>2, <2>3, <2>4, <2>5
<1>4. CASE t.kind = "string"
  <2>1. v \in Seq(Byte)
    BY <1>1, <1>4 DEF MadeOfItems
  <2>2. NewLeaf(t, v) = NewString(v)
    BY <1>4 DEF NewLeaf
  <2>3. \A b : EncodesLeaf(t, v, b) <=> ReadLength(b) = Len(v) /\ b = Slice(b, 0, LengthSize) \o v
    BY <1>4 DEF EncodesLeaf
  <2>4. \A b : ReadsLeaf(t, v, b) <=> StringNative(b) = v
    BY <1>4 DEF ReadsLeaf
  <2> QED
    BY <1>4, <2>1, <2>2, <2>3, <2>4, NewStringFacts
<1> QED
  BY <1>2, <1>3, <1>4 DEF Leaves

\* The items of a value, each made with g, or with the constructor.
ItemsBy(g, t, v) == [i \in DOMAIN v |-> g[ChildTypes(t, Len(v))[i]][v[i]]]
NewItems(t, v) == ItemsBy(New, t, v)

\* g makes the values of the types of the items.
Makers(g, t) ==
  \A j \in DOMAIN t.of : \A v \in Values[t.of[j]] : g[t.of[j]][v] \in Bytes

\* The items that are made fit.
LEMMA MadeItemsFit ==
  ASSUME NEW t \in Types, t.kind \notin Leaves, NEW v \in Values[t], NEW g, Makers(g, t)
  PROVE  /\ ItemsBy(g, t, v) \in Seq(Bytes) /\ Len(ItemsBy(g, t, v)) = Len(v)
         /\ Fits(t, ItemsBy(g, t, v))
<1>1. /\ Len(v) \in Nat /\ DOMAIN v = 1..Len(v)
      /\ Len(ChildTypes(t, Len(v))) = Len(v)
      /\ \A i \in 1..Len(v) : v[i] \in Values[ChildTypes(t, Len(v))[i]]
  BY ValueFacts
<1>2. ASSUME NEW i \in 1..Len(v) PROVE g[ChildTypes(t, Len(v))[i]][v[i]] \in Bytes
  <2>1. PICK ts \in Seq(Types) : ts = ChildTypes(t, Len(v)) /\ Len(ts) = Len(v)
    BY ValueFacts
  <2>2. PICK j \in DOMAIN t.of : ts[i] = t.of[j]
    <3>1. i \in DOMAIN ts
      BY <2>1
    <3> QED
      BY <1>1, <2>1, <3>1, ChildFacts
  <2> QED
    BY <1>1, <2>1, <2>2 DEF Makers
<1>3. ItemsBy(g, t, v) = [i \in 1..Len(v) |-> g[ChildTypes(t, Len(v))[i]][v[i]]]
  BY <1>1 DEF ItemsBy
<1>4. ItemsBy(g, t, v) \in Seq(Bytes) /\ Len(ItemsBy(g, t, v)) = Len(v)
  BY <1>1, <1>2, <1>3
<1> QED
  BY <1>1, <1>4 DEF Fits

\* Values are made from their items.
LEMMA NewDef ==
  \A t \in Types : \A v \in Values[t] :
    /\ New[t][v] \in Bytes
    /\ t.kind \in Leaves => New[t][v] = NewLeaf(t, v)
    /\ t.kind \notin Leaves => New[t][v] = Put(t, NewItems(t, v))
<1> DEFINE Body(g, t) == [v \in Values[t] |-> IF t.kind \in Leaves THEN NewLeaf(t, v)
                                              ELSE Put(t, ItemsBy(g, t, v))]
           Is(f) == f = [t \in Types |-> Body(f, t)]
           T == [t \in Types |-> [Values[t] -> Bytes]]
           G == [t \in Types |-> [g \in Into(Types, T) |-> Body(g, t)]]
<1>1. \A t \in Types : \A g \in Into(Types, T) : G[t][g] = Body(g, t)
  OBVIOUS
<1>2. \A t \in Types : T[t] = [Values[t] -> Bytes]
  OBVIOUS
<1> HIDE DEF T, G
<1>3. ASSUME NEW t \in Types, NEW g, Makers(g, t) PROVE Body(g, t) \in [Values[t] -> Bytes]
  <2>1. ASSUME NEW v \in Values[t], t.kind \notin Leaves PROVE Put(t, ItemsBy(g, t, v)) \in Bytes
    <3>1. Fits(t, ItemsBy(g, t, v))
      BY <1>3, <2>1, MadeItemsFit
    <3>2. Encoders(t, Reencode)
      BY ReencodeDef, TypeFacts DEF Encoders
    <3> QED
      BY <3>1, <3>2, PutByFacts DEF Put
  <2>2. ASSUME NEW v \in Values[t], t.kind \in Leaves PROVE NewLeaf(t, v) \in Bytes
    BY <2>2, LeafFacts
  <2> QED
    BY <2>1, <2>2
<1>4. ASSUME NEW t \in Types, NEW g \in Into(Types, T) PROVE Makers(g, t)
  <2>1. \A j \in DOMAIN t.of : g[t.of[j]] \in [Values[t.of[j]] -> Bytes]
    BY <1>2, TypeFacts, IntoFacts
  <2> QED
    BY <2>1 DEF Makers
<1>5. ASSUME NEW t \in Types, NEW g, NEW h, \A i \in DOMAIN t.of : g[t.of[i]] = h[t.of[i]]
      PROVE  Body(g, t) = Body(h, t)
  <2>1. ASSUME NEW v \in Values[t], t.kind \notin Leaves PROVE ItemsBy(g, t, v) = ItemsBy(h, t, v)
    <3>1. Len(v) \in Nat /\ DOMAIN v = 1..Len(v)
      BY <2>1, ValueFacts
    <3>2. PICK ts \in Seq(Types) : ts = ChildTypes(t, Len(v)) /\ Len(ts) = Len(v)
      BY <2>1, ValueFacts
    <3>3. ASSUME NEW i \in 1..Len(v) PROVE g[ts[i]] = h[ts[i]]
      <4>1. i \in DOMAIN ts
        BY <3>2
      <4>2. PICK j \in DOMAIN t.of : ts[i] = t.of[j]
        BY <3>1, <3>2, <4>1, ChildFacts
      <4> QED
        BY <1>5, <4>2
    <3> QED
      BY <3>1, <3>2, <3>3 DEF ItemsBy
  <2> QED
    BY <2>1
<1>6. PICK f \in Into(Types, T) : \A t \in Types : f[t] = G[t][f]
  <2> HIDE DEF Body
  <2>1. \A t \in Types : T[t] # {}
    <3> TAKE t \in Types
    <3>1. << >> \in Bytes
      BY DEF Bytes
    <3>2. [v \in Values[t] |-> << >>] \in [Values[t] -> Bytes]
      BY <3>1
    <3> QED
      BY <1>2, <3>2
  <2>2. \A t \in Types : \A g \in Into(Types, T) : G[t][g] \in T[t]
    BY <1>1, <1>2, <1>3, <1>4
  <2>3. \A t \in Types : \A g, h \in Into(Types, T) :
          (\A i \in DOMAIN t.of : g[t.of[i]] = h[t.of[i]]) => G[t][g] = G[t][h]
    BY <1>1, <1>5
  <2>4. ByItems(T, G)
    BY <2>1, <2>2, <2>3 DEF ByItems
  <2> QED
    BY <2>4, TypeRecursion
<1>7. Is(f)
  <2> HIDE DEF Body
  <2>1. f = [t \in Types |-> f[t]]
    BY IntoFacts
  <2> QED
    BY <1>1, <1>6, <2>1
<1>8. Is(CHOOSE u : Is(u))
  <2> HIDE DEF Is
  <2> QED
    BY <1>7
<1>9. Is(New)
  BY <1>8 DEF New, ItemsBy
<1>10. \A t \in Types : New[t] = Body(New, t)
  <2> HIDE DEF Body
  <2> QED
    BY <1>9
<1> DEFINE P == {t \in Types : New[t] \in [Values[t] -> Bytes]}
<1>11. ASSUME NEW t \in Types, \A i \in DOMAIN t.of : t.of[i] \in P PROVE t \in P
  <2>1. \A j \in DOMAIN t.of : New[t.of[j]] \in [Values[t.of[j]] -> Bytes]
    BY <1>11
  <2>2. Makers(New, t)
    BY <2>1 DEF Makers
  <2> HIDE DEF Body
  <2> QED
    BY <1>3, <1>10, <2>2
<1>12. P = Types
  <2>1. P \in SUBSET Types
    OBVIOUS
  <2> HIDE DEF P
  <2> QED
    BY <1>11, <2>1, TypeInduction
<1>13. ASSUME NEW t \in Types, NEW v \in Values[t]
       PROVE  New[t][v] = IF t.kind \in Leaves THEN NewLeaf(t, v) ELSE Put(t, NewItems(t, v))
  <2>1. Body(New, t)[v] = IF t.kind \in Leaves THEN NewLeaf(t, v) ELSE Put(t, NewItems(t, v))
    BY DEF NewItems
  <2> HIDE DEF Body
  <2> QED
    BY <1>10, <2>1
<1>14. \A t \in Types : \A v \in Values[t] : New[t][v] \in Bytes
  BY <1>12
<1> QED
  BY <1>13, <1>14

\* Types are the same when they have one name and their items are the same.
LEMMA SameTypeDef ==
  \A s \in Types : \A t \in Types :
    /\ SameType[s][t] \in BOOLEAN
    /\ SameType[s][t] <=> /\ Named(s) = Named(t) /\ s.size = t.size /\ Len(s.of) = Len(t.of)
                          /\ \A i \in DOMAIN s.of : SameType[s.of[i]][t.of[i]]
<1> DEFINE Body(g, s) == [t \in Types |->
                            /\ Named(s) = Named(t) /\ s.size = t.size /\ Len(s.of) = Len(t.of)
                            /\ \A i \in DOMAIN s.of : g[s.of[i]][t.of[i]]]
           Is(f) == f = [t \in Types |-> Body(f, t)]
           T == [t \in Types |-> [Types -> BOOLEAN]]
           G == [t \in Types |-> [g \in Into(Types, T) |-> Body(g, t)]]
<1>1. \A t \in Types : \A g \in Into(Types, T) : G[t][g] = Body(g, t)
  OBVIOUS
<1>2. \A t \in Types : T[t] = [Types -> BOOLEAN]
  OBVIOUS
<1>3. \A t \in Types : \A g \in Into(Types, T) : G[t][g] \in T[t]
  BY <1>1
<1>4. ASSUME NEW t \in Types, NEW g \in Into(Types, T), NEW h \in Into(Types, T),
             \A i \in DOMAIN t.of : g[t.of[i]] = h[t.of[i]]
      PROVE  G[t][g] = G[t][h]
  BY <1>1, <1>4
<1>5. PICK f \in Into(Types, T) : \A t \in Types : f[t] = G[t][f]
  <2>1. \A t \in Types : T[t] # {}
    <3>1. [t \in Types |-> TRUE] \in [Types -> BOOLEAN]
      OBVIOUS
    <3> QED
      BY <1>2, <3>1
  <2>2. \A t \in Types : \A g, h \in Into(Types, T) :
          (\A i \in DOMAIN t.of : g[t.of[i]] = h[t.of[i]]) => G[t][g] = G[t][h]
    BY <1>4
  <2> HIDE DEF G, T
  <2>3. ByItems(T, G)
    BY <1>3, <2>1, <2>2 DEF ByItems
  <2> QED
    BY <2>3, TypeRecursion
<1>6. Is(f)
  <2>1. f = [t \in Types |-> f[t]]
    BY IntoFacts
  <2> HIDE DEF Body
  <2> QED
    BY <1>1, <1>5, <2>1
<1>7. Is(CHOOSE u : Is(u))
  <2> HIDE DEF Is
  <2> QED
    BY <1>6
<1>8. Is(SameType)
  BY <1>7 DEF SameType
<1>9. ASSUME NEW s \in Types, NEW t \in Types
      PROVE  SameType[s][t] = (/\ Named(s) = Named(t) /\ s.size = t.size /\ Len(s.of) = Len(t.of)
                               /\ \A i \in DOMAIN s.of : SameType[s.of[i]][t.of[i]])
  <2>1. SameType[s] = Body(SameType, s)
    <3> HIDE DEF Body
    <3> QED
      BY <1>8
  <2>2. Body(SameType, s)[t] =
          (/\ Named(s) = Named(t) /\ s.size = t.size /\ Len(s.of) = Len(t.of)
           /\ \A i \in DOMAIN s.of : SameType[s.of[i]][t.of[i]])
    OBVIOUS
  <2> HIDE DEF Body
  <2> QED
    BY <2>1, <2>2
<1>10. ASSUME NEW s \in Types, NEW t \in Types PROVE SameType[s][t] \in BOOLEAN
  BY <1>9
<1> QED
  BY <1>9, <1>10

\* When items are taken for ones of one type, all are bools or none is.
Alike(homogeneous, ts) ==
  /\ homogeneous \in BOOLEAN
  /\ homogeneous => \A i, k \in 1..Len(ts) : ts[i].kind = "bool" => ts[k].kind = "bool"

\* That is so of the items of an array, and of what is decoded as one.
LEMMA AlikeFacts ==
  /\ \A t \in Types : \A n \in Nat : Alike(t.kind \in Arrays, ChildTypes(t, n))
  /\ \A ts \in Seq(Types) : Alike(Homogeneous(ts), ts)
<1>1. ASSUME NEW t \in Types, NEW n \in Nat PROVE Alike(t.kind \in Arrays, ChildTypes(t, n))
  <2>1. (t.kind \in Arrays) \in BOOLEAN
    OBVIOUS
  <2>2. CASE t.kind \in Arrays
    <3>1. PICK ts \in Seq(Types) : ts = ChildTypes(t, n) /\ Len(ts) = n
      BY <2>2, ChildFacts
    <3>2. \A i \in 1..n : ts[i] = t.of[1]
      BY <2>2, <3>1, ChildFacts
    <3> QED
      BY <2>1, <3>1, <3>2 DEF Alike
  <2>3. CASE t.kind \notin Arrays
    BY <2>1, <2>3 DEF Alike
  <2> QED
    BY <2>2, <2>3
<1>2. ASSUME NEW ts \in Seq(Types) PROVE Alike(Homogeneous(ts), ts)
  <2>1. Homogeneous(ts) \in BOOLEAN
    BY DEF Homogeneous
  <2>2. ASSUME Homogeneous(ts), NEW i \in 1..Len(ts), NEW k \in 1..Len(ts), ts[i].kind = "bool"
        PROVE  ts[k].kind = "bool"
    <3>1. SameType[ts[i]][ts[1]] /\ SameType[ts[k]][ts[1]]
      BY <2>2 DEF Homogeneous
    <3>2. ts[i] \in Types /\ ts[k] \in Types /\ ts[1] \in Types
      BY <2>2
    <3>3. Named(ts[i]) = Named(ts[1]) /\ Named(ts[k]) = Named(ts[1])
      BY <3>1, <3>2, SameTypeDef
    <3> QED
      BY <2>2, <3>3 DEF Named
  <2> QED
    BY <2>1, <2>2 DEF Alike
<1> QED
  BY <1>1, <1>2

-----------------------------------------------------------------------------
(* Where everything is in the bytes of items: heads, then tails.           *)

\* Parts that are empty add nothing.
LEMMA JoinedSkips ==
  ASSUME NEW f, NEW n \in Nat, Made(f, n), NEW i \in 0..n, NEW j \in i..n,
         \A k \in (i + 1)..j : f[k] = << >>
  PROVE  Joined(f, j) = Joined(f, i)
<1> DEFINE P == {k \in Nat : i + k <= j => Joined(f, i + k) = Joined(f, i)}
<1>1. i \in Nat /\ j \in Nat /\ i <= j /\ j <= n
  OBVIOUS
<1>2. ASSUME NEW k \in Nat, k \in P, i + (k + 1) <= j PROVE Joined(f, i + (k + 1)) = Joined(f, i)
  <2>1. PICK l \in Nat : l = i + (k + 1) /\ l - 1 = i + k /\ l > 0 /\ l \in (i + 1)..j /\ l <= n
    BY <1>1, <1>2
  <2>2. Made(f, l) /\ Made(f, l - 1) /\ l - 1 \in Nat
    BY <2>1 DEF Made
  <2>3. Joined(f, l) = Joined(f, l - 1) \o << >> /\ Joined(f, l - 1) \in Bytes
    BY <2>1, <2>2, JoinedNext
  <2>4. Joined(f, l - 1) \o << >> = Joined(f, l - 1)
    BY <2>3 DEF Bytes
  <2>5. i + k <= j
    BY <1>1, <1>2
  <2>6. Joined(f, i + k) = Joined(f, i)
    BY <1>2, <2>5
  <2> QED
    BY <2>1, <2>3, <2>4, <2>6
<1>3. P = Nat
  <2>1. 0 \in P
    BY <1>1
  <2>2. \A k \in P : k + 1 \in P
    BY <1>2
  <2>3. P \in SUBSET Nat
    OBVIOUS
  <2> HIDE DEF P
  <2> QED
    BY <2>1, <2>2, <2>3, Induction
<1>4. PICK k \in Nat : k = j - i /\ i + k = j
  BY <1>1
<1>5. k \in P
  BY <1>3
<1>6. i + k <= j => Joined(f, i + k) = Joined(f, i)
  BY <1>5
<1> QED
  BY <1>1, <1>4, <1>6

\* Items that have the length their types say.
Proper(ts, bs) ==
  /\ bs \in Seq(Seq(Byte)) /\ Len(bs) = Len(ts)
  /\ \A i \in 1..Len(ts) :
       /\ ts[i].kind = "bool" => bs[i] \in {<<0>>, <<TrueByte>>}
       /\ ts[i].kind # "bool" /\ ~IsDynamic[ts[i]] => Len(bs[i]) = Size[ts[i]]

\* The tail of each item, and where it is.
TailOf(ts, bs) == [i \in 1..Len(ts) |-> IF IsDynamic[ts[i]] THEN bs[i] ELSE << >>]
TailAt(ts, bs, i) == HeadAt(ts, Len(ts) + 1) + Len(Joined(TailOf(ts, bs), i - 1))

\* The head of each item; bools that share a byte have one.
HeadOf(ts, bs) ==
  [i \in 1..Len(ts) |->
    IF ~IsStart(ts, i) THEN << >>
    ELSE IF IsDynamic[ts[i]] THEN EncodeLength(TailAt(ts, bs, i))
    ELSE IF ts[i].kind = "bool" THEN Compress(SubSeq(bs, i, i + Sharing(ts, i)))
    ELSE bs[i]]

\* The tails follow each other.
LEMMA TailFacts ==
  ASSUME NEW ts \in Seq(Types), NEW bs, Proper(ts, bs)
  PROVE  /\ Made(TailOf(ts, bs), Len(ts))
         /\ \A i \in 1..Len(ts) : TailOf(ts, bs)[i] \in Seq(Byte)
         /\ TailAt(ts, bs, 1) = HeadAt(ts, Len(ts) + 1)
         /\ \A i \in 1..(Len(ts) + 1) : TailAt(ts, bs, i) \in Nat
         /\ \A i \in 1..Len(ts) :
              TailAt(ts, bs, i + 1) = TailAt(ts, bs, i) + Len(TailOf(ts, bs)[i])
         /\ \A i \in 0..Len(ts) : Joined(TailOf(ts, bs), i) \in Seq(Byte)
<1> DEFINE f == TailOf(ts, bs)
<1>1. PICK n \in Nat : n = Len(ts)
  OBVIOUS
<1>2. \A i \in 1..n : f[i] \in Seq(Byte)
  <2> TAKE i \in 1..n
  <2>1. bs \in Seq(Seq(Byte)) /\ Len(bs) = n
    BY <1>1 DEF Proper
  <2>2. bs[i] \in Seq(Byte)
    BY <2>1
  <2> QED
    BY <1>1, <2>2 DEF TailOf
<1>3. \A i \in 0..n : Made(f, i)
  <2>1. \A s \in Seq(Byte) : s \in Bytes
    BY RaisesFacts
  <2> QED
    BY <1>2, <2>1 DEF Made
<1>4. \A i \in 0..n : Joined(f, i) \in Bytes
  <2> HIDE DEF f
  <2> TAKE i \in 0..n
  <2>1. i \in Nat /\ Made(f, i)
    BY <1>3
  <2> QED
    BY <2>1, JoinedNext
<1>5. Made(f, 0) /\ Made(f, n)
  BY <1>3
<1>6. Joined(f, 0) = << >>
  <2> HIDE DEF f
  <2> QED
    BY <1>5, JoinedNext
<1>7. \A i \in 0..n : Joined(f, i) \in Seq(Byte)
  <2> TAKE i \in 0..n
  <2>1. \A k \in 1..i : ~Raises(f[k])
    BY <1>2, RaisesFacts
  <2>2. ~Raises(Joined(f, i))
    <3> HIDE DEF f
    <3>1. i \in Nat /\ Made(f, i)
      BY <1>3
    <3> QED
      BY <2>1, <3>1, JoinedPlaces
  <2> QED
    BY <1>4, <2>2, RaisesFacts
<1>8. HeadAt(ts, n + 1) \in Nat
  BY <1>1, HeadAtFacts
<1>9. \A i \in 1..(n + 1) : TailAt(ts, bs, i) = HeadAt(ts, n + 1) + Len(Joined(f, i - 1))
  BY <1>1 DEF TailAt
<1>10. \A i \in 1..(n + 1) : i - 1 \in 0..n /\ Len(Joined(f, i - 1)) \in Nat
  <2> TAKE i \in 1..(n + 1)
  <2>1. i - 1 \in 0..n
    OBVIOUS
  <2>2. Joined(f, i - 1) \in Seq(Byte)
    BY <1>7, <2>1
  <2> QED
    BY <2>1, <2>2
<1>11. ASSUME NEW i \in 1..n
       PROVE  TailAt(ts, bs, i + 1) = TailAt(ts, bs, i) + Len(f[i])
  <2>1. Len(Joined(f, i)) = Len(Joined(f, i - 1)) + Len(f[i])
    <3> HIDE DEF f
    <3> QED
      BY <1>5, JoinedPlaces
  <2>2. i \in 1..(n + 1) /\ i + 1 \in 1..(n + 1) /\ (i + 1) - 1 = i
    OBVIOUS
  <2>3. Len(f[i]) \in Nat
    BY <1>2
  <2> HIDE DEF f
  <2>4. /\ TailAt(ts, bs, i) = HeadAt(ts, n + 1) + Len(Joined(f, i - 1))
        /\ TailAt(ts, bs, i + 1) = HeadAt(ts, n + 1) + Len(Joined(f, i))
    BY <1>9, <2>2
  <2>5. Len(Joined(f, i - 1)) \in Nat
    BY <1>10, <2>2
  <2>6. PICK a \in Nat, b \in Nat, c \in Nat :
          a = Len(Joined(f, i - 1)) /\ b = Len(f[i]) /\ c = HeadAt(ts, n + 1)
    BY <1>8, <2>3, <2>5
  <2>7. TailAt(ts, bs, i) = c + a /\ TailAt(ts, bs, i + 1) = c + (a + b)
    BY <2>1, <2>4, <2>6
  <2>8. c + (a + b) = (c + a) + b
    OBVIOUS
  <2> QED
    BY <2>6, <2>7, <2>8, Zenon
<1>12. TailAt(ts, bs, 1) = HeadAt(ts, n + 1)
  <2>1. 1 \in 1..(n + 1) /\ 1 - 1 = 0
    OBVIOUS
  <2>2. TailAt(ts, bs, 1) = HeadAt(ts, n + 1) + Len(<< >>)
    BY <1>6, <1>9, <2>1
  <2> QED
    BY <1>8, <2>2
<1>13. \A i \in 1..(n + 1) : TailAt(ts, bs, i) \in Nat
  <2> HIDE DEF f
  <2> QED
    BY <1>8, <1>9, <1>10
<1> HIDE DEF f
<1>14. /\ Made(f, Len(ts))
       /\ \A i \in 1..Len(ts) : f[i] \in Seq(Byte)
       /\ \A i \in 1..Len(ts) : TailAt(ts, bs, i + 1) = TailAt(ts, bs, i) + Len(f[i])
       /\ \A i \in 0..Len(ts) : Joined(f, i) \in Seq(Byte)
  BY <1>1, <1>2, <1>5, <1>7, <1>11
<1> QED
  BY <1>1, <1>12, <1>13, <1>14 DEF f

\* Each head is as long as its cost.
LEMMA HeadFacts ==
  ASSUME NEW ts \in Seq(Types), NEW bs, Proper(ts, bs)
  PROVE  /\ Made(HeadOf(ts, bs), Len(ts))
         /\ \A i \in 1..Len(ts) :
              ~Raises(HeadOf(ts, bs)[i]) =>
                /\ HeadOf(ts, bs)[i] \in Seq(Byte)
                /\ Len(HeadOf(ts, bs)[i]) = Cost(Size, ts, i)
                /\ IsDynamic[ts[i]] => IntOf(HeadOf(ts, bs)[i]) = TailAt(ts, bs, i)
<1> DEFINE f == HeadOf(ts, bs)
<1>1. PICK n \in Nat : n = Len(ts)
  OBVIOUS
<1>2. ASSUME NEW i \in 1..n
      PROVE  /\ f[i] \in Bytes
             /\ ~Raises(f[i]) => /\ f[i] \in Seq(Byte) /\ Len(f[i]) = Cost(Size, ts, i)
                                 /\ IsDynamic[ts[i]] => IntOf(f[i]) = TailAt(ts, bs, i)
  <2>1. ts[i] \in Types /\ bs \in Seq(Seq(Byte)) /\ Len(bs) = n /\ bs[i] \in Seq(Byte)
    <3>1. ts[i] \in Types /\ bs \in Seq(Seq(Byte)) /\ Len(bs) = n
      BY <1>1 DEF Proper
    <3> QED
      BY <3>1
  <2>2. Size[ts[i]] \in Nat
    BY <2>1, SizeDef
  <2>3. /\ IsDynamic[ts[i]] => ts[i].kind # "bool" /\ Cost(Size, ts, i) = LengthSize
        /\ ts[i].kind = "bool" =>
             ~IsDynamic[ts[i]] /\ Cost(Size, ts, i) = IF IsStart(ts, i) THEN 1 ELSE 0
        /\ ts[i].kind # "bool" /\ ~IsDynamic[ts[i]] => Cost(Size, ts, i) = Size[ts[i]]
    BY <1>1, <2>2, CostFacts
  <2>4. i # n + 1
    OBVIOUS
  <2>5. f[i] = IF ~IsStart(ts, i) THEN << >>
               ELSE IF IsDynamic[ts[i]] THEN EncodeLength(TailAt(ts, bs, i))
               ELSE IF ts[i].kind = "bool" THEN Compress(SubSeq(bs, i, i + Sharing(ts, i)))
               ELSE bs[i]
    BY <1>1 DEF HeadOf
  <2>6. << >> \in Seq(Byte) /\ \A s \in Seq(Byte) : s \in Bytes
    BY RaisesFacts
  <2>7. ts[i].kind # "bool" => IsStart(ts, i)
    BY DEF IsStart
  <2> HIDE DEF f
  <2>8. CASE ~IsStart(ts, i)
    <3>1. ts[i].kind = "bool" /\ ~IsDynamic[ts[i]] /\ Cost(Size, ts, i) = 0 /\ f[i] = << >>
      BY <2>3, <2>5, <2>7, <2>8
    <3> QED
      BY <2>6, <3>1
  <2>9. CASE IsStart(ts, i) /\ IsDynamic[ts[i]]
    <3>1. PICK m \in Nat : m = TailAt(ts, bs, i)
      <4>1. i \in 1..(Len(ts) + 1)
        BY <1>1
      <4> QED
        BY <4>1, TailFacts
    <3>2. f[i] = EncodeLength(m) /\ Cost(Size, ts, i) = LengthSize
      BY <2>3, <2>5, <2>9, <3>1
    <3> QED
      BY <3>1, <3>2, EncodeLengthFacts
  <2>10. CASE IsStart(ts, i) /\ ts[i].kind = "bool"
    <3>1. Sharing(ts, i) \in 0..(n - i) /\ Sharing(ts, i) < ByteBits
      BY <1>1, <2>10, StartFacts
    <3>2. PICK l \in Nat : l = Sharing(ts, i) /\ l \in 0..(Len(bs) - i) /\ l < ByteBits
      BY <2>1, <3>1
    <3>3. /\ SubSeq(bs, i, i + l) \in Seq(Seq(Byte))
          /\ Len(SubSeq(bs, i, i + l)) = l + 1
      <4>1. i \in 1..Len(bs)
        BY <2>1
      <4> QED
        BY <2>1, <3>2, <4>1, RunOfItems
    <3>4. Len(SubSeq(bs, i, i + l)) <= ByteBits
      BY <3>2, <3>3, SizeFacts
    <3>5. Compress(SubSeq(bs, i, i + l)) \in Seq(Byte) /\ Len(Compress(SubSeq(bs, i, i + l))) = 1
      BY <3>3, <3>4, CompressFacts
    <3>6. f[i] = Compress(SubSeq(bs, i, i + l)) /\ ~IsDynamic[ts[i]] /\ Cost(Size, ts, i) = 1
      BY <2>3, <2>5, <2>10, <3>2
    <3> QED
      BY <2>6, <3>5, <3>6
  <2>11. CASE IsStart(ts, i) /\ ts[i].kind # "bool" /\ ~IsDynamic[ts[i]]
    <3>1. Len(bs[i]) = Size[ts[i]]
      BY <1>1, <2>11 DEF Proper
    <3>2. f[i] = bs[i] /\ Cost(Size, ts, i) = Size[ts[i]]
      BY <2>3, <2>5, <2>11
    <3> QED
      BY <2>1, <2>6, <2>11, <3>1, <3>2
  <2> QED
    BY <2>8, <2>9, <2>10, <2>11
<1>3. \A i \in 1..Len(ts) : f[i] \in Bytes
  BY <1>1, <1>2
<1>4. Made(f, Len(ts))
  <2> HIDE DEF f
  <2> QED
    BY <1>3 DEF Made
<1>5. \A i \in 1..Len(ts) :
        ~Raises(f[i]) => /\ f[i] \in Seq(Byte) /\ Len(f[i]) = Cost(Size, ts, i)
                         /\ IsDynamic[ts[i]] => IntOf(f[i]) = TailAt(ts, bs, i)
  BY <1>1, <1>2
<1> HIDE DEF f
<1> QED
  BY <1>4, <1>5 DEF f

\* b has the head and the tail of each item where they belong, and nothing else.
InPlace(ts, bs, b) ==
  /\ b \in Seq(Byte) /\ Len(b) = TailAt(ts, bs, Len(ts) + 1)
  /\ \A i \in 1..Len(ts) :
       /\ HeadOf(ts, bs)[i] \in Seq(Byte) /\ HeadAt(ts, i + 1) <= Len(b)
       /\ Slice(b, HeadAt(ts, i), HeadAt(ts, i + 1)) = HeadOf(ts, bs)[i]
       /\ Len(HeadOf(ts, bs)[i]) = Cost(Size, ts, i)
       /\ IsDynamic[ts[i]] => IntOf(HeadOf(ts, bs)[i]) = TailAt(ts, bs, i)
       /\ TailAt(ts, bs, i + 1) <= Len(b)
       /\ Slice(b, TailAt(ts, bs, i), TailAt(ts, bs, i + 1)) = TailOf(ts, bs)[i]

\* The heads up to an item are as long as their costs together.
LEMMA HeadsLength ==
  ASSUME NEW ts \in Seq(Types), NEW h, Made(h, Len(ts)),
         \A i \in 1..Len(ts) : Len(h[i]) = Cost(Size, ts, i)
  PROVE  \A i \in 1..(Len(ts) + 1) : Len(Joined(h, i - 1)) = HeadAt(ts, i)
<1> DEFINE P == {k \in Nat : k <= Len(ts) => Len(Joined(h, k)) = HeadAt(ts, k + 1)}
<1>1. PICK n \in Nat : n = Len(ts)
  OBVIOUS
<1>2. 0 \in P
  <2>1. Made(h, 0)
    BY DEF Made
  <2>2. Joined(h, 0) = << >>
    BY <2>1, JoinedNext
  <2>3. HeadAt(ts, 0 + 1) = 0
    BY HeadAtFacts
  <2>4. Len(Joined(h, 0)) = 0
    BY <2>2
  <2> QED
    BY <2>3, <2>4
<1>3. ASSUME NEW k \in P PROVE k + 1 \in P
  <2>1. CASE k + 1 <= n
    <3>1. k + 1 \in 1..n /\ k <= n /\ (k + 1) - 1 = k
      BY <2>1
    <3>2. Len(Joined(h, k)) = HeadAt(ts, k + 1)
      BY <1>1, <3>1
    <3>3. Len(Joined(h, k + 1)) = Len(Joined(h, k)) + Len(h[k + 1])
      <4>1. PICK l \in 1..n : l = k + 1 /\ l - 1 = k
        BY <3>1
      <4>2. Made(h, n)
        BY <1>1
      <4>3. Len(Joined(h, l)) = Len(Joined(h, l - 1)) + Len(h[l])
        BY <4>2, JoinedPlaces
      <4> QED
        BY <4>1, <4>3
    <3>4. HeadAt(ts, (k + 1) + 1) = HeadAt(ts, k + 1) + Cost(Size, ts, k + 1)
      BY <1>1, <3>1, HeadAtFacts
    <3>5. Len(h[k + 1]) = Cost(Size, ts, k + 1)
      BY <1>1, <3>1
    <3> QED
      BY <3>2, <3>3, <3>4, <3>5
  <2>2. CASE ~(k + 1 <= n)
    BY <1>1, <2>2
  <2> QED
    BY <2>1, <2>2
<1>4. P = Nat
  <2>1. P \in SUBSET Nat
    OBVIOUS
  <2> HIDE DEF P
  <2> QED
    BY <1>2, <1>3, <2>1, Induction
<1>5. ASSUME NEW i \in 1..(n + 1) PROVE Len(Joined(h, i - 1)) = HeadAt(ts, i)
  <2>1. PICK k \in Nat : k = i - 1 /\ k <= n /\ k + 1 = i
    OBVIOUS
  <2>2. k \in P
    BY <1>4
  <2>3. Len(Joined(h, k)) = HeadAt(ts, k + 1)
    BY <1>1, <2>1, <2>2
  <2> QED
    BY <2>1, <2>3
<1> QED
  BY <1>1, <1>5

\* s is in b, from a place on.
HoldsAt(b, before, s) ==
  before + Len(s) <= Len(b) /\ \A k \in 1..Len(s) : b[before + k] = s[k]

\* Part i of n in b is at this place, after those before it.
PartOf(f, n, b, before, i, at) ==
  /\ n \in Nat /\ Made(f, n) /\ b \in Seq(Byte) /\ before \in Nat
  /\ HoldsAt(b, before, Joined(f, n))
  /\ i \in 1..n /\ f[i] \in Seq(Byte) /\ at \in Nat /\ at = before + Len(Joined(f, i - 1))

\* Where a part is when others follow.
LEMMA PartAmong ==
  ASSUME NEW f, NEW n, NEW b, NEW before, NEW i, NEW at, PartOf(f, n, b, before, i, at)
  PROVE  at + Len(f[i]) <= Len(b) /\ Slice(b, at, at + Len(f[i])) = f[i]
<1> USE DEF PartOf
<1>1. /\ Len(Joined(f, i)) = Len(Joined(f, i - 1)) + Len(f[i])
      /\ Len(Joined(f, i)) <= Len(Joined(f, n))
      /\ \A j \in 1..Len(f[i]) : Joined(f, n)[Len(Joined(f, i - 1)) + j] = f[i][j]
      /\ Joined(f, i - 1) \in Bytes
  <2>1. Made(f, n)
    OBVIOUS
  <2>2. /\ Len(Joined(f, i)) = Len(Joined(f, i - 1)) + Len(f[i])
        /\ Len(Joined(f, i)) <= Len(Joined(f, n))
    BY <2>1, JoinedPlaces
  <2>3. \A j \in 1..Len(f[i]) : Joined(f, n)[Len(Joined(f, i - 1)) + j] = f[i][j]
    BY <2>1, JoinedPlaces
  <2>4. Joined(f, i - 1) \in Bytes
    BY <2>1, JoinedPlaces
  <2> QED
    BY <2>2, <2>3, <2>4
<1>2. Joined(f, n) \in Bytes
  BY JoinedNext
<1>3. PICK p \in Nat, l \in Nat, m \in Nat :
        p = Len(Joined(f, i - 1)) /\ l = Len(f[i]) /\ m = Len(Joined(f, n))
  BY <1>1, <1>2 DEF Bytes
<1>4. p + l <= m /\ at = before + p
  BY <1>1, <1>3
<1>5. PICK c \in Nat : c = Len(b)
  OBVIOUS
<1>6. before + m <= c
  BY <1>3, <1>5 DEF HoldsAt
<1>7. at + l <= c
  BY <1>4, <1>6
<1>8. ASSUME NEW j \in 1..l PROVE b[at + j] = f[i][j]
  <2>1. p + j \in 1..m /\ at + j = before + (p + j)
    BY <1>4
  <2>2. b[before + (p + j)] = Joined(f, n)[p + j]
    BY <1>3, <2>1 DEF HoldsAt
  <2>3. Joined(f, n)[p + j] = f[i][j]
    BY <1>1, <1>3
  <2> QED
    BY <2>1, <2>2, <2>3
<1>9. at \in 0..Len(b) /\ at + Len(f[i]) <= Len(b)
  <2>1. at \in 0..c
    BY <1>7
  <2> QED
    BY <1>3, <1>5, <1>7, <2>1
<1>10. \A k \in 1..Len(f[i]) : b[at + k] = f[i][k]
  BY <1>3, <1>8
<1> QED
  BY <1>9, <1>10, SliceOf

\* Heads and then tails are in place.
LEMMA PlacesFacts ==
  ASSUME NEW ts \in Seq(Types), NEW bs, Proper(ts, bs), NEW b,
         b = Joined(HeadOf(ts, bs), Len(ts)) \o Joined(TailOf(ts, bs), Len(ts)), ~Raises(b)
  PROVE  InPlace(ts, bs, b)
<1>1. PICK n \in Nat : n = Len(ts)
  OBVIOUS
<1>2. PICK h, f : h = HeadOf(ts, bs) /\ f = TailOf(ts, bs)
  OBVIOUS
<1>3. /\ Made(h, n) /\ Made(f, n) /\ \A i \in 1..n : f[i] \in Seq(Byte)
      /\ TailAt(ts, bs, 1) = HeadAt(ts, n + 1)
      /\ \A i \in 1..(n + 1) : TailAt(ts, bs, i) \in Nat
      /\ \A i \in 1..n : TailAt(ts, bs, i + 1) = TailAt(ts, bs, i) + Len(f[i])
      /\ Joined(f, n) \in Seq(Byte)
  <2>1. n \in 0..Len(ts)
    BY <1>1
  <2> QED
    BY <1>1, <1>2, <2>1, HeadFacts, TailFacts
<1>4. PICK H \in Bytes : H = Joined(h, n)
  BY <1>3, JoinedNext
<1>5. PICK F \in Seq(Byte) : F = Joined(f, n)
  BY <1>3
<1>6. b = H \o F
  BY <1>1, <1>2, <1>4, <1>5
<1>7. ~Raises(H) /\ F \in Bytes
  BY <1>6, RaisesOfTwo, RaisesFacts
<1>8. H \in Seq(Byte) /\ b \in Seq(Byte)
  BY <1>6, <1>7, RaisesFacts
<1>9. \A i \in 1..n : ~Raises(h[i])
  BY <1>3, <1>4, <1>7, JoinedPlaces
<1>10. \A i \in 1..n : /\ h[i] \in Seq(Byte) /\ Len(h[i]) = Cost(Size, ts, i)
                       /\ IsDynamic[ts[i]] => IntOf(h[i]) = TailAt(ts, bs, i)
  BY <1>1, <1>2, <1>9, HeadFacts
<1>11. \A i \in 1..(n + 1) : Len(Joined(h, i - 1)) = HeadAt(ts, i)
  <2>1. Made(h, Len(ts)) /\ \A i \in 1..Len(ts) : Len(h[i]) = Cost(Size, ts, i)
    BY <1>1, <1>3, <1>10
  <2> QED
    BY <1>1, <2>1, HeadsLength
<1>12. Len(H) = HeadAt(ts, n + 1)
  <2>1. n + 1 \in 1..(n + 1) /\ (n + 1) - 1 = n
    OBVIOUS
  <2> QED
    BY <1>4, <1>11, <2>1
<1>13. /\ Len(b) = Len(H) + Len(F) /\ Len(H) \in Nat /\ Len(F) \in Nat
       /\ \A k \in 1..Len(H) : b[k] = H[k]
       /\ \A k \in 1..Len(F) : b[Len(H) + k] = F[k]
  BY <1>6, <1>8
<1>14. ASSUME NEW i \in 1..n
       PROVE  /\ HeadAt(ts, i + 1) <= Len(b)
              /\ Slice(b, HeadAt(ts, i), HeadAt(ts, i + 1)) = h[i]
  <2>1. PICK at \in Nat : at = HeadAt(ts, i) /\ at = Len(Joined(h, i - 1))
    <3>1. i \in 1..(n + 1)
      OBVIOUS
    <3> QED
      BY <1>1, <1>11, <3>1, HeadAtFacts
  <2>2. HeadAt(ts, i + 1) = at + Len(h[i])
    BY <1>1, <1>10, <2>1, HeadAtFacts
  <2>3. PICK before \in Nat : before = 0
    OBVIOUS
  <2>4. HoldsAt(b, before, Joined(h, n)) /\ at = before + Len(Joined(h, i - 1))
    <3>1. before + Len(H) <= Len(b) /\ \A k \in 1..Len(H) : b[before + k] = H[k]
      BY <1>13, <2>3
    <3>2. HoldsAt(b, before, H)
      BY <3>1 DEF HoldsAt
    <3>3. HoldsAt(b, before, Joined(h, n))
      BY <1>4, <3>2, Zenon
    <3>4. PICK l \in Nat : l = Len(Joined(h, i - 1))
      BY <2>1
    <3>5. at = before + l
      BY <2>1, <2>3, <3>4
    <3> QED
      BY <3>3, <3>4, <3>5, Zenon
  <2>5. Made(h, n) /\ b \in Seq(Byte) /\ h[i] \in Seq(Byte)
    BY <1>3, <1>8, <1>10
  <2>6. PartOf(h, n, b, before, i, at)
    BY <2>4, <2>5 DEF PartOf
  <2>7. at + Len(h[i]) <= Len(b) /\ Slice(b, at, at + Len(h[i])) = h[i]
    BY <2>6, PartAmong
  <2> QED
    BY <2>1, <2>2, <2>7
<1>15. ASSUME NEW i \in 1..n
       PROVE  /\ TailAt(ts, bs, i + 1) <= Len(b)
              /\ Slice(b, TailAt(ts, bs, i), TailAt(ts, bs, i + 1)) = f[i]
  <2>1. PICK at \in Nat : at = TailAt(ts, bs, i) /\ at = Len(H) + Len(Joined(f, i - 1))
    <3>1. i \in 1..(n + 1)
      OBVIOUS
    <3>2. TailAt(ts, bs, i) = HeadAt(ts, n + 1) + Len(Joined(f, i - 1))
      BY <1>1, <1>2 DEF TailAt
    <3> QED
      BY <1>3, <1>12, <3>1, <3>2
  <2>2. TailAt(ts, bs, i + 1) = at + Len(f[i])
    BY <1>3, <2>1
  <2>3. PICK before \in Nat : before = Len(H)
    BY <1>13
  <2>4. HoldsAt(b, before, Joined(f, n)) /\ at = before + Len(Joined(f, i - 1))
    <3>1. HoldsAt(b, before, Joined(f, n))
      <4>1. before + Len(F) = Len(b) /\ before + Len(F) \in Nat
        BY <1>13, <2>3
      <4>2. \A k \in 1..Len(F) : b[before + k] = F[k]
        BY <1>13, <2>3
      <4>3. HoldsAt(b, before, F)
        BY <4>1, <4>2 DEF HoldsAt
      <4> QED
        BY <1>5, <4>3, Zenon
    <3>2. at = before + Len(Joined(f, i - 1))
      BY <2>1, <2>3, Zenon
    <3> QED
      BY <3>1, <3>2
  <2>5. Made(f, n) /\ b \in Seq(Byte) /\ f[i] \in Seq(Byte)
    BY <1>3, <1>8
  <2>6. PartOf(f, n, b, before, i, at)
    BY <2>4, <2>5 DEF PartOf
  <2>7. at + Len(f[i]) <= Len(b) /\ Slice(b, at, at + Len(f[i])) = f[i]
    BY <2>6, PartAmong
  <2> QED
    BY <2>1, <2>2, <2>7
<1>16. Len(b) = TailAt(ts, bs, n + 1)
  <2>1. (n + 1) - 1 = n
    OBVIOUS
  <2>2. TailAt(ts, bs, n + 1) = HeadAt(ts, n + 1) + Len(Joined(f, n))
    BY <1>1, <1>2, <2>1 DEF TailAt
  <2> QED
    BY <1>5, <1>12, <1>13, <2>2
<1> QED
  BY <1>1, <1>2, <1>8, <1>10, <1>14, <1>15, <1>16 DEF InPlace

-----------------------------------------------------------------------------
(* What is encoded is in place.                                            *)

\* Items that are encoded anew are as they were, or raise.
Kept(reencode, ts, bs) ==
  \A i \in 1..Len(ts) : IsDynamic[ts[i]] /\ ts[i].kind # "string" =>
    reencode[ts[i]][bs[i]] \in {bs[i], Poison}

\* x is the part of the item, unless it raises.
IsPart(ts, bs, i, x) ==
  /\ x \in MadeParts /\ x.dynamic = IsDynamic[ts[i]]
  /\ ~Raises(x.tail) => x.tail = TailOf(ts, bs)[i]
  /\ ~Raises(x.head) => Len(x.head) = Cost(Size, ts, i)
  /\ ~x.dynamic /\ ~Raises(x.head) => x.head = HeadOf(ts, bs)[i]
  /\ x.dynamic => ~Raises(x.head)

\* f has the part of the item and then those of the next that has one.
PartFirst(ts, bs, f, i) == \E x : IsPart(ts, bs, i, x) /\ f[i] = <<x>> \o f[Following(ts, i)]

\* Items that are kept can be encoded.
LEMMA KeptFacts ==
  ASSUME NEW ts \in Seq(Types), NEW bs, Proper(ts, bs), NEW reencode, Kept(reencode, ts, bs)
  PROVE  Encodable(reencode, ts, bs)
<1>1. bs \in Seq(Seq(Byte)) /\ Len(bs) = Len(ts)
  BY DEF Proper
<1>2. ASSUME NEW i \in 1..Len(ts), IsDynamic[ts[i]], ts[i].kind # "string"
      PROVE  reencode[ts[i]][bs[i]] \in Bytes
  <2>1. bs[i] \in Seq(Byte)
    BY <1>1
  <2>2. bs[i] \in Bytes /\ Poison \in Bytes
    BY <2>1, RaisesFacts
  <2> QED
    BY <1>2, <2>2 DEF Kept
<1> QED
  BY <1>1, <1>2 DEF Encodable

\* Each item or byte of bools has a part.
LEMMA PartOfStart ==
  ASSUME NEW ts \in Seq(Types), NEW bs, Proper(ts, bs), NEW reencode, Kept(reencode, ts, bs),
         NEW homogeneous, Alike(homogeneous, ts), NEW f, Parted(reencode, homogeneous, ts, bs, f),
         NEW i \in 1..Len(ts), IsStart(ts, i)
  PROVE  PartFirst(ts, bs, f, i)
<1>1. PICK n \in Nat : n = Len(ts)
  OBVIOUS
<1>2. i \in 1..n /\ bs \in Seq(Seq(Byte)) /\ Len(bs) = n /\ ts[i] \in Types
  BY <1>1 DEF Proper
<1>3. bs[i] \in Seq(Byte) /\ bs[i] \in Bytes /\ ~Raises(bs[i])
  <2>1. bs[i] \in Seq(Byte)
    BY <1>2
  <2> QED
    BY <2>1, RaisesFacts
<1>4. f[i] = PartStep(reencode, homogeneous, ts, bs, f, i) /\ ~(i > Len(bs))
  <2>1. i \in 1..(Len(ts) + 1)
    OBVIOUS
  <2> QED
    BY <1>2, <2>1 DEF Parted
<1>5. /\ TailOf(ts, bs)[i] = IF IsDynamic[ts[i]] THEN bs[i] ELSE << >>
      /\ HeadOf(ts, bs)[i] = IF IsDynamic[ts[i]] THEN EncodeLength(TailAt(ts, bs, i))
                             ELSE IF ts[i].kind = "bool"
                             THEN Compress(SubSeq(bs, i, i + Sharing(ts, i)))
                             ELSE bs[i]
  BY <1>1, <1>2 DEF TailOf, HeadOf
<1>6. << >> \in Seq(Byte) /\ << >> \in Bytes /\ ~Raises(<< >>) /\ Raises(Poison) /\ Poison \in Bytes
  <2>1. << >> \in Seq(Byte)
    OBVIOUS
  <2> QED
    BY <2>1, RaisesFacts
<1>7. /\ IsDynamic[ts[i]] => ts[i].kind # "bool" /\ Cost(Size, ts, i) = LengthSize
      /\ ts[i].kind = "bool" => ~IsDynamic[ts[i]] /\ Cost(Size, ts, i) = 1
      /\ ts[i].kind # "bool" /\ ~IsDynamic[ts[i]] => Cost(Size, ts, i) = Size[ts[i]]
      /\ IsDynamic[ts[i]] \in BOOLEAN
  <2>1. Size[ts[i]] \in Nat
    BY <1>2, SizeDef
  <2> QED
    BY <1>1, <1>2, <2>1, CostFacts, DynamicDef
<1>8. ts[i].kind # "bool" => Following(ts, i) = i + 1
  BY DEF Following, Sharing
<1>9. CASE IsDynamic[ts[i]]
  <2>1. PICK y \in {bs[i], Poison} : f[i] = <<Dynamic(y)>> \o f[i + 1]
    <3>1. f[i] = <<Dynamic(IF ts[i].kind = "string" THEN bs[i] ELSE reencode[ts[i]][bs[i]])>>
                 \o f[i + 1]
      BY <1>4, <1>9 DEF PartStep
    <3>2. ts[i].kind # "string" => reencode[ts[i]][bs[i]] \in {bs[i], Poison}
      BY <1>1, <1>9 DEF Kept
    <3> QED
      BY <3>1, <3>2
  <2>2. LengthSize \in Nat /\ 0 \in Nat
    BY DEF LengthSize
  <2>3. Digits(0, LengthSize) \in Seq(Byte) /\ Len(Digits(0, LengthSize)) = LengthSize
    BY <2>2, DigitsFacts
  <2>4. ~Raises(Digits(0, LengthSize))
    BY <2>3, RaisesFacts
  <2>5. y \in Bytes /\ (~Raises(y) => y = bs[i])
    BY <1>3, <1>6, <2>1
  <2>6. /\ Dynamic(y) \in MadeParts /\ Dynamic(y).dynamic = TRUE /\ Dynamic(y).tail = y
        /\ Dynamic(y).head = Digits(0, LengthSize)
    BY <2>5, MadePartsFacts DEF Dynamic
  <2>7. IsPart(ts, bs, i, Dynamic(y))
    BY <1>5, <1>7, <1>9, <2>3, <2>4, <2>5, <2>6 DEF IsPart
  <2>8. Following(ts, i) = i + 1
    BY <1>7, <1>8, <1>9
  <2> QED
    BY <2>1, <2>7, <2>8 DEF PartFirst
<1>10. CASE ts[i].kind = "bool"
  <2>1. ~IsDynamic[ts[i]] /\ homogeneous \in BOOLEAN
    BY <1>7, <1>10 DEF Alike
  <2>2. homogeneous => \A k \in 1..Len(ts) : ts[k].kind = "bool"
    BY <1>10 DEF Alike
  <2>3. /\ InByte(ts, i, homogeneous) = Sharing(ts, i)
        /\ BoolsFrom(ts, i, -1, homogeneous) % ByteBits = 0
    BY <1>10, <2>1, <2>2, SharingFacts DEF InByte
  <2>4. PICK c : c = Compress(SubSeq(bs, i, i + Sharing(ts, i))) /\ c \in Seq(Byte) /\ Len(c) = 1
    BY <1>1, <1>2, <1>10, <2>1, <2>3, CompressedRun
  <2>5. f[i] = <<Static(c)>> \o f[Following(ts, i)]
    BY <1>4, <1>10, <2>1, <2>3, <2>4 DEF PartStep, Following
  <2>6. c \in Bytes /\ ~Raises(c)
    BY <2>4, RaisesFacts
  <2>7. /\ Static(c) \in MadeParts /\ Static(c).dynamic = FALSE /\ Static(c).tail = << >>
        /\ Static(c).head = c
    BY <2>6, MadePartsFacts DEF Static
  <2>8. IsPart(ts, bs, i, Static(c))
    BY <1>5, <1>7, <1>10, <2>1, <2>4, <2>6, <2>7 DEF IsPart
  <2> QED
    BY <2>5, <2>8 DEF PartFirst
<1>11. CASE ts[i].kind # "bool" /\ ~IsDynamic[ts[i]]
  <2>1. PICK y \in {bs[i], Poison} : f[i] = <<Static(y)>> \o f[i + 1]
    <3>1. f[i] = <<Static(IF AsBytes(bs[i]) = {} THEN Poison ELSE bs[i])>> \o f[i + 1]
      BY <1>4, <1>11 DEF PartStep
    <3> QED
      BY <3>1
  <2>2. y \in Bytes /\ (~Raises(y) => y = bs[i])
    BY <1>3, <1>6, <2>1
  <2>3. /\ Static(y) \in MadeParts /\ Static(y).dynamic = FALSE /\ Static(y).tail = << >>
        /\ Static(y).head = y
    BY <2>2, MadePartsFacts DEF Static
  <2>4. Len(bs[i]) = Size[ts[i]]
    BY <1>11 DEF Proper
  <2>5. IsPart(ts, bs, i, Static(y))
    BY <1>5, <1>7, <1>11, <2>2, <2>3, <2>4 DEF IsPart
  <2> QED
    BY <1>8, <1>11, <2>1, <2>5 DEF PartFirst
<1> QED
  BY <1>7, <1>9, <1>10, <1>11

\* The first k of the parts p are those of the items before item i, when f has the parts
\* from each item on.
UpToItem(ts, bs, f, p, i, k) ==
  /\ k \in 0..Len(p) /\ f[i] = SubSeq(p, k + 1, Len(p))
  /\ Len(Joined(HeadsOf(p), k)) = HeadAt(ts, i)
  /\ Joined(TailsOf(p), k) = Joined(TailOf(ts, bs), i - 1)
  /\ Len(Joined(HeadsOf(p), Len(p))) = HeadAt(ts, Len(ts) + 1) =>
       Joined(Placed(p), k) = Joined(HeadOf(ts, bs), i - 1)

\* None of the parts raises.
NoneRaises(p) ==
  /\ p \in Seq(MadeParts)
  /\ \A k \in 1..Len(p) : ~Raises(Placed(p)[k]) /\ ~Raises(TailsOf(p)[k])

\* What is left of parts begins with the next one.
LEMMA NextPart ==
  ASSUME NEW p \in Seq(MadeParts), NEW k \in 0..Len(p), NEW x \in MadeParts,
         NEW q \in Seq(MadeParts), SubSeq(p, k + 1, Len(p)) = <<x>> \o q
  PROVE  k + 1 \in 1..Len(p) /\ p[k + 1] = x /\ q = SubSeq(p, (k + 1) + 1, Len(p))
<1>1. PICK m \in Nat : m = Len(p)
  OBVIOUS
<1>2. /\ Len(SubSeq(p, k + 1, m)) = m - k
      /\ \A j \in 1..(m - k) : SubSeq(p, k + 1, m)[j] = p[k + j]
  <2>1. PICK l \in Nat : l = k /\ l <= m
    BY <1>1
  <2>2. Len(SubSeq(p, l + 1, m)) = m - l
    BY <1>1, <2>1
  <2>3. ASSUME NEW j \in 1..(m - l) PROVE SubSeq(p, l + 1, m)[j] = p[l + j]
    BY <1>1, <2>1
  <2> QED
    BY <2>1, <2>2, <2>3
<1>3. /\ Len(<<x>> \o q) = Len(q) + 1 /\ (<<x>> \o q)[1] = x
      /\ \A j \in 1..Len(q) : (<<x>> \o q)[j + 1] = q[j]
  OBVIOUS
<1>4. k \in Nat /\ k + 1 <= m /\ Len(q) = m - (k + 1)
  BY <1>1, <1>2, <1>3
<1>5. p[k + 1] = x
  <2>1. 1 \in 1..(m - k)
    BY <1>4
  <2> QED
    BY <1>1, <1>2, <1>3, <2>1
<1>6. /\ SubSeq(p, (k + 1) + 1, m) \in Seq(MadeParts)
      /\ Len(SubSeq(p, (k + 1) + 1, m)) = m - (k + 1)
      /\ \A j \in 1..(m - (k + 1)) : SubSeq(p, (k + 1) + 1, m)[j] = p[(k + 1) + j]
  BY <1>1, <1>4
<1>7. ASSUME NEW j \in 1..Len(q) PROVE q[j] = SubSeq(p, (k + 1) + 1, m)[j]
  <2>1. j + 1 \in 1..(m - k) /\ j \in 1..(m - (k + 1)) /\ k + (j + 1) = (k + 1) + j
    BY <1>4
  <2>2. SubSeq(p, k + 1, m)[j + 1] = p[k + (j + 1)]
    BY <1>2, <2>1
  <2>3. SubSeq(p, k + 1, m)[j + 1] = q[j]
    BY <1>1, <1>3
  <2> QED
    BY <1>6, <2>1, <2>2, <2>3
<1>8. q = SubSeq(p, (k + 1) + 1, m)
  BY <1>4, <1>6, <1>7
<1> QED
  BY <1>1, <1>4, <1>5, <1>8

\* Items between two that have a part add nothing.
LEMMA NothingBetween ==
  ASSUME NEW ts \in Seq(Types), NEW bs, Proper(ts, bs), NEW i \in 1..Len(ts), IsStart(ts, i)
  PROVE  /\ Joined(TailOf(ts, bs), Following(ts, i) - 1) = Joined(TailOf(ts, bs), i)
         /\ Joined(HeadOf(ts, bs), Following(ts, i) - 1) = Joined(HeadOf(ts, bs), i)
<1>1. PICK n \in Nat : n = Len(ts)
  OBVIOUS
<1>2. PICK s \in 0..(n - i) : s = Sharing(ts, i) /\ Following(ts, i) - 1 = i + s
  <2>1. Sharing(ts, i) \in 0..(n - i)
    BY <1>1, StartFacts
  <2>2. PICK s \in 0..(n - i) : s = Sharing(ts, i)
    BY <2>1
  <2>3. Following(ts, i) = i + s + 1
    BY <2>2 DEF Following
  <2>4. s \in Nat
    BY <1>1, <2>2
  <2> QED
    BY <2>2, <2>3, <2>4
<1>3. s \in Nat /\ i + s <= n /\ i \in 0..n /\ i + s \in i..n
  BY <1>1, <1>2
<1>4. ASSUME NEW k \in (i + 1)..(i + s)
      PROVE  TailOf(ts, bs)[k] = << >> /\ HeadOf(ts, bs)[k] = << >>
  <2>1. k \in 1..n /\ k \in i..(i + s) /\ k > i /\ k <= i + s
    BY <1>1, <1>3
  <2>2. ts[k].kind = "bool" /\ ts[k] \in Types
    <3>1. ts[k] \in Types
      BY <1>1, <2>1
    <3> QED
      BY <1>2, <2>1, <3>1, StartFacts
  <2>3. ~IsDynamic[ts[k]]
    <3>1. Size[ts[k]] \in Nat
      BY <2>2, SizeDef
    <3> QED
      BY <1>1, <2>1, <2>2, <3>1, CostFacts
  <2>4. ~IsStart(ts, k)
    <3>1. SUFFICES ASSUME IsStart(ts, k) PROVE FALSE
      OBVIOUS
    <3>2. k \in Starts(ts)
      <4>1. k \in 1..(Len(ts) + 1)
        BY <1>1, <2>1
      <4> QED
        BY <3>1, <4>1 DEF Starts
    <3>3. Following(ts, i) <= k
      BY <2>1, <3>2, NoStartBetween
    <3>4. Following(ts, i) = i + s + 1
      BY <1>2 DEF Following
    <3> QED
      BY <1>3, <2>1, <3>3, <3>4
  <2> QED
    BY <1>1, <2>1, <2>3, <2>4 DEF TailOf, HeadOf
<1>5. Made(TailOf(ts, bs), n) /\ Made(HeadOf(ts, bs), n)
  BY <1>1, TailFacts, HeadFacts
<1>6. Joined(TailOf(ts, bs), i + s) = Joined(TailOf(ts, bs), i)
  <2>1. \A k \in (i + 1)..(i + s) : TailOf(ts, bs)[k] = << >>
    BY <1>4
  <2>2. PICK f : f = TailOf(ts, bs)
    OBVIOUS
  <2>3. Made(f, n) /\ \A k \in (i + 1)..(i + s) : f[k] = << >>
    BY <1>5, <2>1, <2>2
  <2> QED
    BY <1>3, <2>2, <2>3, JoinedSkips
<1>7. Joined(HeadOf(ts, bs), i + s) = Joined(HeadOf(ts, bs), i)
  <2>1. \A k \in (i + 1)..(i + s) : HeadOf(ts, bs)[k] = << >>
    BY <1>4
  <2>2. PICK f : f = HeadOf(ts, bs)
    OBVIOUS
  <2>3. Made(f, n) /\ \A k \in (i + 1)..(i + s) : f[k] = << >>
    BY <1>5, <2>1, <2>2
  <2> QED
    BY <1>3, <2>2, <2>3, JoinedSkips
<1> QED
  BY <1>2, <1>6, <1>7

\* After one part more, all is so for the next item that has one.
LEMMA UpToNext ==
  ASSUME NEW ts \in Seq(Types), NEW bs, Proper(ts, bs), NEW f, NEW p, NoneRaises(p),
         NEW i \in 1..Len(ts), IsStart(ts, i), PartFirst(ts, bs, f, i),
         f[Following(ts, i)] \in Seq(MadeParts), NEW k, UpToItem(ts, bs, f, p, i, k)
  PROVE  UpToItem(ts, bs, f, p, Following(ts, i), k + 1)
<1>1. PICK n \in Nat, m \in Nat : n = Len(ts) /\ m = Len(p)
  BY DEF NoneRaises
<1>2. PICK x : IsPart(ts, bs, i, x) /\ f[i] = <<x>> \o f[Following(ts, i)]
  BY DEF PartFirst
<1>3. PICK j \in Starts(ts) : j = Following(ts, i)
  BY StartFacts
<1>4. x \in MadeParts /\ p \in Seq(MadeParts) /\ k \in 0..m /\ f[j] \in Seq(MadeParts)
  BY <1>1, <1>2, <1>3 DEF IsPart, NoneRaises, UpToItem
<1>5. k + 1 \in 1..m /\ p[k + 1] = x /\ f[j] = SubSeq(p, (k + 1) + 1, m)
  <2>1. SubSeq(p, k + 1, m) = <<x>> \o f[j]
    BY <1>1, <1>2, <1>3 DEF UpToItem
  <2>2. PICK q \in Seq(MadeParts) : q = f[j]
    BY <1>4
  <2>3. SubSeq(p, k + 1, Len(p)) = <<x>> \o q /\ k \in 0..Len(p)
    BY <1>1, <1>4, <2>1, <2>2
  <2>4. k + 1 \in 1..Len(p) /\ p[k + 1] = x /\ q = SubSeq(p, (k + 1) + 1, Len(p))
    BY <1>4, <2>3, NextPart
  <2> QED
    BY <1>1, <2>2, <2>4
<1>6. PICK l \in 1..m : l = k + 1 /\ l - 1 = k
  BY <1>4, <1>5
<1>7. PICK h, a, t : h = HeadsOf(p) /\ a = Placed(p) /\ t = TailsOf(p)
  OBVIOUS
<1>8. Made(h, m) /\ Made(a, m) /\ Made(t, m)
  BY <1>1, <1>4, <1>7, AssembledFacts
<1>9. h[l] = x.head /\ t[l] = x.tail
  BY <1>1, <1>5, <1>6, <1>7 DEF HeadsOf, TailsOf
<1>10. a[l] = IF x.dynamic THEN EncodeLength(Len(Joined(h, m)) + Len(Joined(t, l - 1)))
              ELSE x.head
  BY <1>1, <1>5, <1>6, <1>7 DEF Placed
<1>11. ~Raises(a[l]) /\ ~Raises(t[l])
  BY <1>1, <1>6, <1>7 DEF NoneRaises
<1>12. /\ x.dynamic = IsDynamic[ts[i]] /\ x.tail = TailOf(ts, bs)[i]
       /\ Len(x.head) = Cost(Size, ts, i)
       /\ ~x.dynamic => x.head = HeadOf(ts, bs)[i]
  <2>1. x.dynamic \in BOOLEAN
    BY <1>4 DEF MadeParts
  <2>2. ~Raises(x.tail)
    BY <1>9, <1>11
  <2>3. ~Raises(x.head)
    BY <1>2, <1>10, <1>11, <2>1 DEF IsPart
  <2> QED
    BY <1>2, <2>2, <2>3 DEF IsPart
<1>13. /\ Len(Joined(h, k)) = HeadAt(ts, i) /\ Joined(t, k) = Joined(TailOf(ts, bs), i - 1)
       /\ Len(Joined(h, m)) = HeadAt(ts, n + 1) => Joined(a, k) = Joined(HeadOf(ts, bs), i - 1)
  BY <1>1, <1>7 DEF UpToItem
<1>14. \A g : Made(g, m) => Joined(g, l) = Joined(g, k) \o g[l]
  <2> TAKE g
  <2>1. Made(g, m) => Made(g, l)
    BY DEF Made
  <2>2. l \in Nat /\ l > 0
    OBVIOUS
  <2> QED
    BY <1>6, <2>1, <2>2, JoinedNext
<1>15. \A g : Made(g, n) => Joined(g, i) = Joined(g, i - 1) \o g[i]
  <2> TAKE g
  <2>1. Made(g, n) => Made(g, i)
    BY <1>1 DEF Made
  <2>2. i \in Nat /\ i > 0
    OBVIOUS
  <2> QED
    BY <2>1, <2>2, JoinedNext
<1>16. Made(TailOf(ts, bs), n) /\ Made(HeadOf(ts, bs), n)
  BY <1>1, TailFacts, HeadFacts
<1>17. Len(Joined(h, l)) = HeadAt(ts, j)
  <2>1. Len(Joined(h, l)) = Len(Joined(h, l - 1)) + Len(h[l])
    BY <1>8, JoinedPlaces
  <2>2. HeadAt(ts, j) = HeadAt(ts, i) + Cost(Size, ts, i)
    BY <1>3, HeadAtNext
  <2> QED
    BY <1>6, <1>9, <1>12, <1>13, <2>1, <2>2
<1>18. Joined(t, l) = Joined(TailOf(ts, bs), j - 1)
  <2>1. Joined(t, l) = Joined(t, k) \o t[l]
    BY <1>8, <1>14
  <2>2. Joined(TailOf(ts, bs), i) = Joined(TailOf(ts, bs), i - 1) \o TailOf(ts, bs)[i]
    BY <1>15, <1>16
  <2>3. Joined(TailOf(ts, bs), j - 1) = Joined(TailOf(ts, bs), i)
    BY <1>3, NothingBetween
  <2> QED
    BY <1>9, <1>12, <1>13, <2>1, <2>2, <2>3
<1>19. ASSUME Len(Joined(h, m)) = HeadAt(ts, n + 1)
       PROVE  Joined(a, l) = Joined(HeadOf(ts, bs), j - 1)
  <2>1. Joined(a, l) = Joined(a, k) \o a[l]
    BY <1>8, <1>14
  <2>2. Joined(HeadOf(ts, bs), i) = Joined(HeadOf(ts, bs), i - 1) \o HeadOf(ts, bs)[i]
    BY <1>15, <1>16
  <2>3. Joined(HeadOf(ts, bs), j - 1) = Joined(HeadOf(ts, bs), i)
    BY <1>3, NothingBetween
  <2>4. a[l] = HeadOf(ts, bs)[i]
    <3>1. CASE IsDynamic[ts[i]]
      <4>1. a[l] = EncodeLength(Len(Joined(h, m)) + Len(Joined(t, k)))
        BY <1>6, <1>10, <1>12, <3>1
      <4>2. TailAt(ts, bs, i) = HeadAt(ts, n + 1) + Len(Joined(TailOf(ts, bs), i - 1))
        BY <1>1 DEF TailAt
      <4>3. HeadOf(ts, bs)[i] = EncodeLength(TailAt(ts, bs, i))
        BY <3>1 DEF HeadOf
      <4> QED
        BY <1>13, <1>19, <4>1, <4>2, <4>3
    <3>2. CASE ~IsDynamic[ts[i]]
      BY <1>10, <1>12, <3>2
    <3> QED
      BY <3>1, <3>2
  <2> QED
    BY <1>13, <1>19, <2>1, <2>2, <2>3, <2>4
<1>20. l \in 0..m
  OBVIOUS
<1> QED
  BY <1>1, <1>3, <1>5, <1>6, <1>7, <1>17, <1>18, <1>19, <1>20 DEF UpToItem

\* What is assembled of the parts of items are their heads and then their tails.
LEMMA PartsPlaced ==
  ASSUME NEW ts \in Seq(Types), NEW bs, Proper(ts, bs), NEW reencode, Kept(reencode, ts, bs),
         NEW homogeneous, Alike(homogeneous, ts),
         ~Raises(Assembled(Parts(reencode, homogeneous, ts, bs)))
  PROVE  Assembled(Parts(reencode, homogeneous, ts, bs)) =
           Joined(HeadOf(ts, bs), Len(ts)) \o Joined(TailOf(ts, bs), Len(ts))
<1>1. PICK n \in Nat : n = Len(ts)
  OBVIOUS
<1>2. PICK f : Parted(reencode, homogeneous, ts, bs, f)
  <2>1. homogeneous \in BOOLEAN
    BY DEF Alike
  <2> QED
    BY <2>1, KeptFacts, PartsFacts
<1>3. PICK p \in Seq(MadeParts) : p = Parts(reencode, homogeneous, ts, bs) /\ p = f[1]
  <2>1. 1 \in 1..(Len(ts) + 1)
    OBVIOUS
  <2> QED
    BY <1>2, <2>1 DEF Parted
<1>4. PICK m \in Nat : m = Len(p)
  OBVIOUS
<1>5. /\ Made(HeadsOf(p), m) /\ Made(TailsOf(p), m) /\ Made(Placed(p), m)
      /\ Assembled(p) = Joined(Placed(p), m) \o Joined(TailsOf(p), m)
  BY <1>4, AssembledFacts
<1>6. NoneRaises(p)
  <2>1. PICK a, t : a = Placed(p) /\ t = TailsOf(p)
    OBVIOUS
  <2>2. Made(a, m) /\ Made(t, m)
    BY <1>5, <2>1
  <2>3. Joined(a, m) \in Bytes /\ Joined(t, m) \in Bytes
    BY <2>2, JoinedNext
  <2>4. ~Raises(Joined(a, m)) /\ ~Raises(Joined(t, m))
    BY <1>3, <1>5, <2>1, <2>3, RaisesOfTwo
  <2>5. \A k \in 1..m : ~Raises(a[k])
    BY <2>2, <2>4, JoinedPlaces
  <2>6. \A k \in 1..m : ~Raises(t[k])
    BY <2>2, <2>4, JoinedPlaces
  <2> QED
    BY <1>4, <2>1, <2>5, <2>6 DEF NoneRaises
<1>7. \A i \in 1..(n + 1) : f[i] \in Seq(MadeParts)
  BY <1>1, <1>2 DEF Parted
<1>8. UpToItem(ts, bs, f, p, 1, 0)
  <2>1. \A g : Joined(g, 0) = << >>
    <3> TAKE g
    <3>1. Made(g, 0)
      BY DEF Made
    <3> QED
      BY <3>1, JoinedNext
  <2>2. f[1] = SubSeq(p, 0 + 1, m)
    BY <1>3, <1>4
  <2>3. HeadAt(ts, 1) = 0
    BY HeadAtFacts
  <2>4. Joined(HeadOf(ts, bs), 1 - 1) = << >> /\ Joined(TailOf(ts, bs), 1 - 1) = << >>
    BY <2>1
  <2>5. Len(Joined(HeadsOf(p), 0)) = 0
    BY <2>1
  <2>6. 0 \in 0..m
    OBVIOUS
  <2> QED
    BY <1>4, <2>1, <2>2, <2>3, <2>4, <2>5, <2>6 DEF UpToItem
<1> DEFINE P == {i \in Starts(ts) : \E k : UpToItem(ts, bs, f, p, i, k)}
<1>9. ASSUME NEW i \in P, i <= Len(ts) PROVE Following(ts, i) \in P
  <2>1. i \in 1..Len(ts) /\ IsStart(ts, i)
    BY <1>9 DEF Starts
  <2>2. PartFirst(ts, bs, f, i)
    BY <1>2, <2>1, PartOfStart
  <2>3. Following(ts, i) \in Starts(ts)
    BY <2>1, StartFacts
  <2>4. f[Following(ts, i)] \in Seq(MadeParts)
    BY <1>1, <1>7, <2>3 DEF Starts
  <2>5. PICK k : UpToItem(ts, bs, f, p, i, k)
    BY <1>9
  <2>6. UpToItem(ts, bs, f, p, Following(ts, i), k + 1)
    BY <1>6, <2>1, <2>2, <2>4, <2>5, UpToNext
  <2> QED
    BY <2>3, <2>6
<1>10. P = Starts(ts)
  <2>1. P \in SUBSET Starts(ts)
    OBVIOUS
  <2>2. 1 \in P
    BY <1>8, FirstStart
  <2> HIDE DEF P
  <2> QED
    BY <1>9, <2>1, <2>2, StartsOn
<1>11. PICK k : UpToItem(ts, bs, f, p, n + 1, k)
  BY <1>1, <1>10, FirstStart
<1>12. k = m
  <2>1. n + 1 > Len(bs) /\ n + 1 \in 1..(Len(ts) + 1)
    BY <1>1 DEF Proper
  <2>2. f[n + 1] = << >>
    BY <1>2, <2>1 DEF Parted, PartStep
  <2>3. k \in 0..m /\ SubSeq(p, k + 1, m) = << >>
    BY <1>4, <1>11, <2>2 DEF UpToItem
  <2>4. Len(SubSeq(p, k + 1, m)) = m - k
    BY <1>4, <2>3
  <2>5. k \in 0..m /\ Len(SubSeq(p, k + 1, m)) = 0
    BY <2>3
  <2> QED
    BY <2>4, <2>5
<1>13. /\ Joined(TailsOf(p), m) = Joined(TailOf(ts, bs), (n + 1) - 1)
       /\ Joined(Placed(p), m) = Joined(HeadOf(ts, bs), (n + 1) - 1)
  BY <1>1, <1>4, <1>11, <1>12 DEF UpToItem
<1>14. (n + 1) - 1 = n
  OBVIOUS
<1> QED
  BY <1>1, <1>3, <1>5, <1>13, <1>14

\* The number in one byte.
LEMMA IntOfOne ==
  ASSUME NEW x \in Byte
  PROVE  IntOf(<<x>>) = x
<1>1. x \in Nat /\ <<x>> \in Seq(Nat) /\ Len(<<x>>) = 1 /\ Base \in Nat
  BY ByteFacts, BaseFacts
<1>2. PICK s \in Seq(Nat) : s = <<x>>
  BY <1>1
<1>3. PICK v \in [0..Len(s) -> Nat] :
        /\ v[0] = 0 /\ Number(Base, s) = v[Len(s)]
        /\ \A k \in 0..(Len(s) - 1) : v[k + 1] = Base * v[k] + s[k + 1]
  BY <1>1, NumberDef
<1>4. v[1] = Base * v[0] + s[1]
  <2>1. 0 \in 0..(Len(s) - 1)
    BY <1>1, <1>2
  <2> QED
    BY <1>3, <2>1
<1>5. Base * v[0] = 0
  BY <1>1, <1>3
<1> QED
  BY <1>1, <1>2, <1>3, <1>4, <1>5 DEF IntOf

\* What is encoded of items is in place.
LEMMA EncodeFacts ==
  ASSUME NEW ts \in Seq(Types), NEW bs, Proper(ts, bs), NEW reencode, Kept(reencode, ts, bs),
         NEW homogeneous, Alike(homogeneous, ts), ~Raises(Encode(reencode, homogeneous, ts, bs))
  PROVE  InPlace(ts, bs, Encode(reencode, homogeneous, ts, bs))
<1>1. Encode(reencode, homogeneous, ts, bs) # Poison
  BY RaisesFacts
<1>2. Encode(reencode, homogeneous, ts, bs) = Assembled(Parts(reencode, homogeneous, ts, bs))
  BY <1>1 DEF Encode
<1>3. ~Raises(Assembled(Parts(reencode, homogeneous, ts, bs)))
  BY <1>2
<1>4. PICK b : b = Assembled(Parts(reencode, homogeneous, ts, bs))
  OBVIOUS
<1>5. b = Joined(HeadOf(ts, bs), Len(ts)) \o Joined(TailOf(ts, bs), Len(ts))
  BY <1>3, <1>4, PartsPlaced
<1>6. InPlace(ts, bs, b)
  BY <1>3, <1>4, <1>5, PlacesFacts
<1> QED
  BY <1>2, <1>4, <1>6

\* Static items have no tails.
LEMMA TailSkips ==
  ASSUME NEW ts \in Seq(Types), NEW bs, Proper(ts, bs), NEW i \in 0..Len(ts), NEW j \in i..Len(ts),
         \A k \in (i + 1)..j : ~IsDynamic[ts[k]]
  PROVE  TailAt(ts, bs, j + 1) = TailAt(ts, bs, i + 1)
<1>1. PICK n \in Nat : n = Len(ts)
  OBVIOUS
<1>2. PICK f : f = TailOf(ts, bs)
  OBVIOUS
<1>3. i \in Nat /\ j \in Nat /\ i \in 0..n /\ j \in i..n /\ (i + 1) - 1 = i /\ (j + 1) - 1 = j
  BY <1>1
<1>4. ASSUME NEW k \in (i + 1)..j PROVE f[k] = << >>
  <2>1. k \in 1..n
    BY <1>3
  <2> QED
    BY <1>1, <1>2, <2>1 DEF TailOf
<1>5. Joined(f, j) = Joined(f, i)
  <2>1. Made(f, n)
    BY <1>1, <1>2, TailFacts
  <2> QED
    BY <1>3, <1>4, <2>1, JoinedSkips
<1> QED
  BY <1>2, <1>3, <1>5 DEF TailAt

\* These are the dynamic items.
AreDynamic(ts, dynamic) == dynamic = {k \in 1..Len(ts) : IsDynamic[ts[k]]}

\* The tail of a dynamic item ends where the one of the next one begins, or at the end.
NextTail(ts, bs, dynamic, i) ==
  IF i = Max(dynamic) THEN TailAt(ts, bs, i + 1) = TailAt(ts, bs, Len(ts) + 1)
  ELSE /\ Min({j \in dynamic : j > i}) \in dynamic
       /\ TailAt(ts, bs, Min({j \in dynamic : j > i})) = TailAt(ts, bs, i + 1)

\* So they do, and the first begins where the heads end.
LEMMA StopFacts ==
  ASSUME NEW ts \in Seq(Types), NEW bs, Proper(ts, bs), NEW dynamic, AreDynamic(ts, dynamic)
  PROVE  /\ dynamic = {} => TailAt(ts, bs, Len(ts) + 1) = HeadAt(ts, Len(ts) + 1)
         /\ dynamic # {} => /\ Min(dynamic) \in dynamic
                            /\ TailAt(ts, bs, Min(dynamic)) = HeadAt(ts, Len(ts) + 1)
         /\ \A i \in dynamic : NextTail(ts, bs, dynamic, i)
<1>1. PICK n \in Nat : n = Len(ts)
  OBVIOUS
<1>2. /\ dynamic \in SUBSET (0..n) /\ \A k \in dynamic : k \in 1..n
      /\ \A k \in 1..n : k \notin dynamic => ~IsDynamic[ts[k]]
  BY <1>1 DEF AreDynamic
<1>3. TailAt(ts, bs, 1) = HeadAt(ts, n + 1)
  BY <1>1, TailFacts
<1>4. ASSUME dynamic = {} PROVE TailAt(ts, bs, n + 1) = HeadAt(ts, n + 1)
  <2>1. 0 \in 0..Len(ts) /\ n \in 0..Len(ts) /\ 0 + 1 = 1
    BY <1>1
  <2>2. \A k \in (0 + 1)..n : ~IsDynamic[ts[k]]
    BY <1>2, <1>4
  <2>3. TailAt(ts, bs, n + 1) = TailAt(ts, bs, 0 + 1)
    BY <2>1, <2>2, TailSkips
  <2> QED
    BY <1>3, <2>1, <2>3
<1>5. ASSUME dynamic # {}
      PROVE  /\ Min(dynamic) \in dynamic
             /\ TailAt(ts, bs, Min(dynamic)) = HeadAt(ts, n + 1)
  <2>1. PICK m \in dynamic : m = Min(dynamic) /\ \A x \in dynamic : m <= x
    BY <1>2, <1>5, MinIsLeast
  <2>2. PICK l \in 0..n : l + 1 = m
    <3>1. m \in 1..n
      BY <1>2
    <3>2. m - 1 \in 0..n /\ (m - 1) + 1 = m
      BY <3>1
    <3> QED
      BY <3>2
  <2>3. l \in 0..Len(ts) /\ 0 \in 0..Len(ts) /\ l \in 0..Len(ts) /\ 0 + 1 = 1
    BY <1>1
  <2>4. \A k \in (0 + 1)..l : ~IsDynamic[ts[k]]
    <3> TAKE k \in (0 + 1)..l
    <3>1. k \in 1..n /\ k < m
      BY <2>2
    <3>2. k \notin dynamic
      BY <1>2, <2>1, <3>1
    <3> QED
      BY <1>2, <3>1, <3>2
  <2>5. TailAt(ts, bs, l + 1) = TailAt(ts, bs, 0 + 1)
    BY <2>3, <2>4, TailSkips
  <2> QED
    BY <1>3, <2>1, <2>2, <2>3, <2>5
<1>6. ASSUME NEW i \in dynamic, i = Max(dynamic)
      PROVE  TailAt(ts, bs, i + 1) = TailAt(ts, bs, n + 1)
  <2>1. \A x \in dynamic : x <= i
    BY <1>2, <1>6, MaxIsLargest
  <2>2. i \in 0..Len(ts) /\ n \in i..Len(ts)
    BY <1>1, <1>2
  <2>3. \A k \in (i + 1)..n : ~IsDynamic[ts[k]]
    <3> TAKE k \in (i + 1)..n
    <3>1. k \in 1..n /\ k > i
      BY <1>2
    <3>2. k \notin dynamic
      BY <1>2, <2>1, <3>1
    <3> QED
      BY <1>2, <3>1, <3>2
  <2> QED
    BY <2>2, <2>3, TailSkips
<1>7. ASSUME NEW i \in dynamic, i # Max(dynamic)
      PROVE  /\ Min({j \in dynamic : j > i}) \in dynamic
             /\ TailAt(ts, bs, Min({j \in dynamic : j > i})) = TailAt(ts, bs, i + 1)
  <2>1. Max(dynamic) \in dynamic /\ \A x \in dynamic : x <= Max(dynamic)
    BY <1>2, MaxIsLargest
  <2>2. PICK later : later = {j \in dynamic : j > i}
    OBVIOUS
  <2>3. later \in SUBSET (0..n) /\ later # {} /\ \A j \in later : j \in dynamic /\ j > i
    <3>1. Max(dynamic) > i
      <4>1. Max(dynamic) \in 1..n /\ i \in 1..n /\ i <= Max(dynamic)
        BY <1>2, <2>1
      <4> QED
        BY <1>7, <4>1
    <3> QED
      BY <1>2, <2>1, <2>2, <3>1
  <2>4. PICK m \in later : m = Min(later) /\ \A x \in later : m <= x
    BY <2>3, MinIsLeast
  <2>5. i \in 1..n /\ m \in 1..n /\ m > i /\ m \in dynamic
    BY <1>2, <2>3, <2>4
  <2>6. PICK l \in 0..n : l + 1 = m /\ l \in i..n
    <3>1. m - 1 \in 0..n /\ (m - 1) + 1 = m /\ m - 1 \in i..n
      BY <2>5
    <3> QED
      BY <3>1
  <2>7. \A k \in (i + 1)..l : ~IsDynamic[ts[k]]
    <3> TAKE k \in (i + 1)..l
    <3>1. k \in 1..n /\ k > i /\ k < m
      BY <2>5, <2>6
    <3>2. k \notin dynamic
      <4>1. k \in dynamic => m <= k
        BY <2>2, <2>4, <3>1
      <4> QED
        BY <2>5, <3>1, <4>1
    <3> QED
      BY <1>2, <3>1, <3>2
  <2>8. i \in 0..Len(ts) /\ l \in i..Len(ts)
    BY <1>1, <2>5, <2>6
  <2>9. TailAt(ts, bs, l + 1) = TailAt(ts, bs, i + 1)
    BY <2>7, <2>8, TailSkips
  <2> QED
    BY <2>2, <2>4, <2>5, <2>6, <2>9
<1>8. ASSUME NEW i \in dynamic PROVE NextTail(ts, bs, dynamic, i)
  BY <1>1, <1>6, <1>7, Zenon DEF NextTail
<1> QED
  BY <1>1, <1>4, <1>5, <1>8, Zenon

\* When the last item takes bytes, the heads go on after each start.
LEMMA HeadBeforeEnd ==
  ASSUME NEW ts \in Seq(Types), ~EndsEmpty(ts)
  PROVE  \A i \in Starts(ts) : 1 < i /\ i <= Len(ts) => HeadAt(ts, i) < HeadAt(ts, Len(ts) + 1)
<1>1. PICK n \in Nat : n = Len(ts)
  OBVIOUS
<1> DEFINE P == {i \in Starts(ts) :
                   1 < i /\ i <= Len(ts) => HeadAt(ts, i) < HeadAt(ts, Len(ts) + 1)}
<1>2. ASSUME NEW i \in Starts(ts), i <= Len(ts), Following(ts, i) \in P PROVE i \in P
  <2>1. SUFFICES ASSUME 1 < i PROVE HeadAt(ts, i) < HeadAt(ts, n + 1)
    BY <1>1
  <2>2. i \in 1..Len(ts) /\ IsStart(ts, i) /\ i \in Nat
    BY <1>2 DEF Starts
  <2>3. PICK j \in Starts(ts) : j = Following(ts, i) /\ j > i /\ j \in 1..(n + 1)
    BY <1>1, <2>2, StartFacts DEF Starts
  <2>4. /\ HeadAt(ts, j) = HeadAt(ts, i) + Cost(Size, ts, i) /\ Cost(Size, ts, i) \in Nat
        /\ HeadAt(ts, i) \in Nat /\ HeadAt(ts, n + 1) \in Nat
    <3>1. i \in 1..(Len(ts) + 1) /\ n + 1 \in 1..(Len(ts) + 1)
      BY <1>1, <2>2
    <3> QED
      BY <2>2, <2>3, <3>1, HeadAtNext, HeadAtFacts
  <2>5. CASE j <= n
    <3>1. HeadAt(ts, j) < HeadAt(ts, n + 1)
      BY <1>1, <1>2, <2>1, <2>2, <2>3, <2>5
    <3>2. HeadAt(ts, j) \in Nat
      BY <2>4
    <3> QED
      BY <2>4, <3>1, <3>2
  <2>6. CASE j > n
    <3>1. j = n + 1
      BY <2>3, <2>6
    <3>2. Cost(Size, ts, i) > 0
      <4>1. ts[i] \in Types
        BY <2>2
      <4>2. Size[ts[i]] \in Nat /\ IsDynamic[ts[i]] \in BOOLEAN
        BY <4>1, SizeDef, DynamicDef
      <4>3. /\ IsDynamic[ts[i]] => ts[i].kind # "bool" /\ Cost(Size, ts, i) = LengthSize
            /\ ts[i].kind = "bool" => Cost(Size, ts, i) = 1
            /\ ts[i].kind # "bool" /\ ~IsDynamic[ts[i]] => Cost(Size, ts, i) = Size[ts[i]]
        BY <2>2, <4>2, CostFacts
      <4>4. ASSUME ts[i].kind # "bool", ~IsDynamic[ts[i]] PROVE Size[ts[i]] # 0
        <5>1. j = i + 1
          <6>1. Sharing(ts, i) = 0 /\ i \in Nat
            BY <2>2, <4>4 DEF Sharing
          <6>2. j = i + 0 + 1
            BY <2>3, <6>1 DEF Following
          <6> QED
            BY <6>1, <6>2
        <5>2. i = n /\ Last(ts) = ts[i]
          BY <1>1, <2>2, <3>1, <5>1 DEF Last
        <5>3. StaticLength[ts[i]] = Size[ts[i]]
          BY <4>1, <4>4, StaticHasLength
        <5>4. Len(ts) > 1
          BY <1>1, <2>1, <2>2
        <5> QED
          BY <4>4, <5>2, <5>3, <5>4 DEF EndsEmpty
      <4>5. LengthSize > 0
        BY DEF LengthSize
      <4> QED
        BY <4>2, <4>3, <4>4, <4>5
    <3> QED
      BY <2>3, <2>4, <3>1, <3>2
  <2> QED
    BY <2>3, <2>5, <2>6
<1>3. Len(ts) + 1 \in P
  BY FirstStart
<1>4. P = Starts(ts)
  <2>1. P \in SUBSET Starts(ts)
    OBVIOUS
  <2> HIDE DEF P
  <2> QED
    BY <1>2, <1>3, <2>1, StartsBack
<1> QED
  BY <1>4

-----------------------------------------------------------------------------
(* What is in place is decoded.                                            *)

\* Sequences of the same length and items are the same.
Agree(p, q) == Len(p) = Len(q) /\ \A k \in 1..Len(p) : p[k] = q[k]

\* Then they are equal.
LEMMA SameSequence ==
  ASSUME NEW S, NEW p \in Seq(S), NEW q \in Seq(S), Agree(p, q)
  PROVE  p = q
<1>1. p = [k \in 1..Len(p) |-> p[k]] /\ q = [k \in 1..Len(q) |-> q[k]]
  OBVIOUS
<1> QED
  BY <1>1 DEF Agree

\* What is read of each item, and where the heads end.
Wanted(ts, bs) ==
  [i \in 1..(Len(ts) + 1) |->
    IF i = Len(ts) + 1 THEN End(HeadAt(ts, i))
    ELSE IF IsDynamic[ts[i]] THEN Start(TailAt(ts, bs, i)) ELSE Whole(bs[i])]

\* The pieces wanted of items from one up to another.
LEMMA WantedFacts ==
  ASSUME NEW ts \in Seq(Types), NEW bs, Proper(ts, bs)
  PROVE  /\ Wanted(ts, bs) \in Seq(Pieces) /\ Len(Wanted(ts, bs)) = Len(ts) + 1
         /\ \A i \in 1..(Len(ts) + 1) : \A j \in i..(Len(ts) + 1) :
              /\ SubSeq(Wanted(ts, bs), i, j) \in Seq(Pieces)
              /\ Len(SubSeq(Wanted(ts, bs), i, j)) = j - i + 1
              /\ \A k \in 1..(j - i + 1) :
                   SubSeq(Wanted(ts, bs), i, j)[k] = Wanted(ts, bs)[i + k - 1]
<1>1. PICK n \in Nat : n = Len(ts)
  OBVIOUS
<1>2. ASSUME NEW i \in 1..(n + 1)
      PROVE  Wanted(ts, bs)[i] \in Pieces
  <2>1. HeadAt(ts, i) \in Nat /\ TailAt(ts, bs, i) \in Nat
    BY <1>1, HeadAtFacts, TailFacts
  <2>2. i # n + 1 => bs[i] \in Seq(Byte)
    <3>1. bs \in Seq(Seq(Byte)) /\ Len(bs) = n
      BY <1>1 DEF Proper
    <3> QED
      BY <3>1
  <2>3. Wanted(ts, bs)[i] = IF i = n + 1 THEN End(HeadAt(ts, i))
                            ELSE IF IsDynamic[ts[i]] THEN Start(TailAt(ts, bs, i))
                            ELSE Whole(bs[i])
    BY <1>1 DEF Wanted
  <2> QED
    BY <2>1, <2>2, <2>3, PieceFacts
<1>3. PICK w : w = Wanted(ts, bs)
  OBVIOUS
<1>4. w \in Seq(Pieces) /\ Len(w) = n + 1
  <2>1. w = [i \in 1..(n + 1) |-> w[i]]
    BY <1>1, <1>3 DEF Wanted
  <2>2. \A i \in 1..(n + 1) : w[i] \in Pieces
    BY <1>2, <1>3
  <2> QED
    BY <2>1, <2>2
<1>5. ASSUME NEW i \in 1..(n + 1), NEW j \in i..(n + 1)
      PROVE  /\ SubSeq(w, i, j) \in Seq(Pieces) /\ Len(SubSeq(w, i, j)) = j - i + 1
             /\ \A k \in 1..(j - i + 1) : SubSeq(w, i, j)[k] = w[i + k - 1]
  BY <1>4
<1> QED
  BY <1>1, <1>3, <1>4, <1>5

\* Pieces are wanted one after the other.
LEMMA WantedTogether ==
  ASSUME NEW ts \in Seq(Types), NEW bs, Proper(ts, bs), NEW i \in 1..Len(ts),
         NEW j \in (i + 1)..(Len(ts) + 1)
  PROVE  SubSeq(Wanted(ts, bs), i, j - 1) \o SubSeq(Wanted(ts, bs), j, Len(ts) + 1)
           = SubSeq(Wanted(ts, bs), i, Len(ts) + 1)
<1>1. PICK n \in Nat : n = Len(ts)
  OBVIOUS
<1>2. PICK w \in Seq(Pieces) : w = Wanted(ts, bs) /\ Len(w) = n + 1
  BY <1>1, WantedFacts
<1>3. /\ SubSeq(w, i, j - 1) \in Seq(Pieces) /\ Len(SubSeq(w, i, j - 1)) = j - i
      /\ \A k \in 1..(j - i) : SubSeq(w, i, j - 1)[k] = w[i + k - 1]
  BY <1>1, <1>2
<1>4. /\ SubSeq(w, j, n + 1) \in Seq(Pieces) /\ Len(SubSeq(w, j, n + 1)) = n + 2 - j
      /\ \A k \in 1..(n + 2 - j) : SubSeq(w, j, n + 1)[k] = w[j + k - 1]
  BY <1>1, <1>2
<1>5. /\ SubSeq(w, i, n + 1) \in Seq(Pieces) /\ Len(SubSeq(w, i, n + 1)) = n + 2 - i
      /\ \A k \in 1..(n + 2 - i) : SubSeq(w, i, n + 1)[k] = w[i + k - 1]
  BY <1>1, <1>2
<1>6. PICK a \in Seq(Pieces), b \in Seq(Pieces), c \in Seq(Pieces) :
        a = SubSeq(w, i, j - 1) /\ b = SubSeq(w, j, n + 1) /\ c = SubSeq(w, i, n + 1)
  BY <1>3, <1>4, <1>5
<1>7. /\ a \o b \in Seq(Pieces) /\ Len(a \o b) = Len(a) + Len(b)
      /\ \A k \in 1..Len(a) : (a \o b)[k] = a[k]
      /\ \A k \in 1..Len(b) : (a \o b)[Len(a) + k] = b[k]
  OBVIOUS
<1>8. /\ Len(a) = j - i /\ Len(b) = n + 2 - j /\ Len(a \o b) = n + 2 - i
      /\ i \in Nat /\ j \in Nat /\ i < j
  BY <1>1, <1>3, <1>4, <1>6, <1>7
<1>9. ASSUME NEW k \in 1..(n + 2 - i) PROVE (a \o b)[k] = c[k]
  <2>1. CASE k <= j - i
    <3>1. k \in 1..(j - i)
      BY <1>8, <2>1
    <3> QED
      BY <1>3, <1>5, <1>6, <1>7, <1>8, <3>1
  <2>2. CASE k > j - i
    <3>1. PICK l \in Nat : l = k - (j - i) /\ k = (j - i) + l /\ l \in 1..(n + 2 - j)
      BY <1>8, <2>2
    <3>2. (a \o b)[k] = b[l]
      BY <1>7, <1>8, <3>1
    <3>3. b[l] = w[j + l - 1] /\ j + l - 1 = i + k - 1
      BY <1>4, <1>6, <1>8, <3>1
    <3> QED
      BY <1>5, <1>6, <3>2, <3>3
  <2>3. k <= j - i \/ k > j - i
    BY <1>8
  <2> QED
    BY <2>1, <2>2, <2>3
<1>10. a \o b = c
  <2>1. PICK d \in Seq(Pieces) : d = a \o b /\ Len(d) = n + 2 - i
    BY <1>7, <1>8
  <2>2. Len(c) = Len(d) /\ c \in Seq(Pieces)
    BY <1>5, <1>6, <2>1
  <2>3. \A k \in 1..Len(d) : d[k] = c[k]
    BY <1>9, <2>1
  <2>4. d = c
    BY <2>1, <2>2, <2>3, SameSequence DEF Agree
  <2> QED
    BY <2>1, <2>4
<1> QED
  BY <1>1, <1>2, <1>6, <1>10

\* f reads the pieces wanted from item i on at its head.
ReadsOn(ts, bs, f, i) == f[i][HeadAt(ts, i)] = SubSeq(Wanted(ts, bs), i, Len(ts) + 1)

\* f reads the pieces of item i and those that share its byte first.
ReadsFirst(ts, bs, f, i) ==
  f[i][HeadAt(ts, i)] = SubSeq(Wanted(ts, bs), i, Following(ts, i) - 1)
                        \o f[Following(ts, i)][HeadAt(ts, Following(ts, i))]

\* Where there are bytes left, the pieces wanted of an item are read.
LEMMA ReadStart ==
  ASSUME NEW ts \in Seq(Types), NEW bs, Proper(ts, bs), NEW b, InPlace(ts, bs, b),
         NEW homogeneous, Alike(homogeneous, ts), NEW f, Reads(ts, b, homogeneous, f),
         NEW i \in 1..Len(ts), IsStart(ts, i), i > 1 => HeadAt(ts, i) < Len(b)
  PROVE  ReadsFirst(ts, bs, f, i)
<1>1. PICK n \in Nat : n = Len(ts)
  OBVIOUS
<1>2. /\ i \in 1..n /\ bs \in Seq(Seq(Byte)) /\ Len(bs) = n /\ ts[i] \in Types
      /\ b \in Seq(Byte) /\ i <= Len(ts)
  BY <1>1 DEF Proper, InPlace
<1>3. PICK at \in Nat : at = HeadAt(ts, i)
  <2>1. i \in 1..(Len(ts) + 1)
    OBVIOUS
  <2> QED
    BY <2>1, HeadAtFacts
<1>4. f[i][at] = ReadStep(ts, b, homogeneous, f, i, at)
  <2>1. i \in 1..(Len(ts) + 1)
    OBVIOUS
  <2> QED
    BY <2>1 DEF Reads
<1>5. /\ HeadAt(ts, i + 1) = at + Cost(Size, ts, i)
      /\ Following(ts, i) \in 1..(n + 1) /\ HeadAt(ts, Following(ts, i)) = at + Cost(Size, ts, i)
  <2>1. Following(ts, i) \in 1..(n + 1)
    BY <1>1, StartFacts DEF Starts
  <2> QED
    BY <1>1, <1>3, <2>1, HeadAtFacts, HeadAtNext
<1>6. /\ IsDynamic[ts[i]] => ts[i].kind # "bool" /\ Cost(Size, ts, i) = LengthSize
      /\ ts[i].kind = "bool" => ~IsDynamic[ts[i]] /\ Cost(Size, ts, i) = 1
      /\ ts[i].kind # "bool" /\ ~IsDynamic[ts[i]] => Cost(Size, ts, i) = Size[ts[i]]
      /\ IsDynamic[ts[i]] \in BOOLEAN
  <2>1. Size[ts[i]] \in Nat
    BY <1>2, SizeDef
  <2> QED
    BY <1>1, <1>2, <2>1, CostFacts, DynamicDef
<1>7. ~(i > 1 /\ at >= Len(b)) /\ ~(i > Len(ts))
  <2>1. Len(b) \in Nat
    BY <1>2
  <2> QED
    BY <1>2, <1>3, <2>1
<1>8. PICK w \in Seq(Pieces) :
        /\ w = Wanted(ts, bs) /\ Len(w) = n + 1
        /\ w[i] = IF IsDynamic[ts[i]] THEN Start(TailAt(ts, bs, i)) ELSE Whole(bs[i])
  <2>1. i \in 1..(n + 1) /\ i # n + 1
    BY <1>2
  <2>2. Wanted(ts, bs) \in Seq(Pieces) /\ Len(Wanted(ts, bs)) = n + 1
    BY <1>1, WantedFacts
  <2>3. Wanted(ts, bs)[i] = IF IsDynamic[ts[i]] THEN Start(TailAt(ts, bs, i)) ELSE Whole(bs[i])
    BY <1>1, <2>1 DEF Wanted
  <2> QED
    BY <2>2, <2>3
<1>9. ts[i].kind # "bool" =>
        Following(ts, i) = i + 1 /\ SubSeq(w, i, Following(ts, i) - 1) = <<w[i]>>
  <2>1. SUFFICES ASSUME ts[i].kind # "bool"
                 PROVE  Following(ts, i) = i + 1 /\ SubSeq(w, i, Following(ts, i) - 1) = <<w[i]>>
    OBVIOUS
  <2>2. Sharing(ts, i) = 0
    BY <2>1 DEF Sharing
  <2>3. Following(ts, i) = i + 1 /\ Following(ts, i) - 1 = i
    BY <2>2 DEF Following
  <2>4. SubSeq(w, i, i) = <<w[i]>>
    <3>1. i \in 1..Len(w) /\ 0 \in 0..(Len(w) - i) /\ i + 0 = i /\ i + 1 - 1 = i /\ 1 \in 1..(0 + 1)
      BY <1>2, <1>8
    <3>2. PICK l \in 0..(Len(w) - i) : l = 0
      BY <3>1
    <3>3. /\ SubSeq(w, i, i + l) \in Seq(Pieces) /\ Len(SubSeq(w, i, i + l)) = l + 1
          /\ \A k \in 1..(l + 1) : SubSeq(w, i, i + l)[k] = w[i + k - 1]
      BY <3>1, RunOfItems
    <3>4. i + l = i /\ 1 \in 1..(l + 1)
      BY <3>1, <3>2
    <3>5. SubSeq(w, i, i) \in Seq(Pieces) /\ Len(SubSeq(w, i, i)) = 1
      BY <3>2, <3>3, <3>4
    <3>6. SubSeq(w, i, i)[1] = w[i]
      BY <3>1, <3>3, <3>4
    <3>7. <<w[i]>> \in Seq(Pieces) /\ Len(<<w[i]>>) = 1 /\ <<w[i]>>[1] = w[i]
      BY <3>1
    <3>8. Agree(SubSeq(w, i, i), <<w[i]>>)
      BY <3>5, <3>6, <3>7 DEF Agree
    <3> QED
      BY <3>5, <3>7, <3>8, SameSequence
  <2> QED
    BY <2>3, <2>4
<1>10. /\ HeadOf(ts, bs)[i] \in Seq(Byte)
       /\ Slice(b, at, at + Cost(Size, ts, i)) = HeadOf(ts, bs)[i]
       /\ IsDynamic[ts[i]] => IntOf(HeadOf(ts, bs)[i]) = TailAt(ts, bs, i)
  BY <1>1, <1>3, <1>5 DEF InPlace
<1>11. CASE IsDynamic[ts[i]]
  <2>1. f[i][at] = <<Start(IntOf(Slice(b, at, at + LengthSize)))>> \o f[i + 1][at + LengthSize]
    BY <1>4, <1>7, <1>11 DEF ReadStep
  <2>2. IntOf(Slice(b, at, at + LengthSize)) = TailAt(ts, bs, i)
    BY <1>6, <1>10, <1>11
  <2> QED
    BY <1>3, <1>5, <1>6, <1>8, <1>9, <1>11, <2>1, <2>2 DEF ReadsFirst
<1>12. CASE ts[i].kind # "bool" /\ ~IsDynamic[ts[i]]
  <2>1. f[i][at] = <<Whole(Slice(b, at, at + StaticLength[ts[i]]))>>
                   \o f[i + 1][at + StaticLength[ts[i]]]
    BY <1>4, <1>7, <1>12 DEF ReadStep
  <2>2. StaticLength[ts[i]] = Cost(Size, ts, i)
    BY <1>2, <1>6, <1>12, StaticHasLength
  <2>3. HeadOf(ts, bs)[i] = bs[i]
    BY <1>12 DEF HeadOf
  <2> QED
    BY <1>3, <1>5, <1>8, <1>9, <1>10, <1>12, <2>1, <2>2, <2>3 DEF ReadsFirst
<1>13. CASE ts[i].kind = "bool"
  <2>1. homogeneous \in BOOLEAN /\ (homogeneous => \A k \in 1..Len(ts) : ts[k].kind = "bool")
    BY <1>13 DEF Alike
  <2>2. /\ InByte(ts, i, homogeneous) = Sharing(ts, i)
        /\ BoolsFrom(ts, i, -1, homogeneous) % ByteBits = 0
    BY <1>13, <2>1, SharingFacts DEF InByte
  <2>3. PICK s \in 0..(n - i) : s = Sharing(ts, i)
    BY <1>1, StartFacts
  <2>4. s \in Nat /\ Following(ts, i) = i + s + 1 /\ Following(ts, i) - 1 = i + s
    <3>1. s \in Nat
      BY <1>1, <2>3
    <3> QED
      BY <1>2, <2>3, <3>1 DEF Following
  <2>5. f[i][at] = BoolPieces(b, at, s) \o f[i + s + 1][at + 1]
    BY <1>4, <1>6, <1>7, <1>13, <2>2, <2>3 DEF ReadStep
  <2>6. PICK c \in Seq(Byte) :
          /\ c = Compress(SubSeq(bs, i, i + s)) /\ Len(c) = 1
          /\ \A k \in 0..s : ByteBits - (k + 1) \in BitsOf(c[1]) <=> bs[i + k] = <<TrueByte>>
    BY <1>1, <1>2, <1>13, <2>1, <2>2, <2>3, CompressedRun
  <2>7. Slice(b, at, at + 1) = c
    <3>1. HeadOf(ts, bs)[i] = Compress(SubSeq(bs, i, i + s))
      BY <1>6, <1>13, <2>3 DEF HeadOf
    <3> QED
      BY <1>6, <1>10, <1>13, <2>6, <3>1
  <2>8. IntOf(Slice(b, at, at + 1)) = c[1]
    <3>1. c = <<c[1]>> /\ c[1] \in Byte
      BY <2>6
    <3> QED
      BY <2>7, <3>1, IntOfOne
  <2>9. /\ BoolPieces(b, at, s) \in Seq(Pieces) /\ Len(BoolPieces(b, at, s)) = s + 1
        /\ \A k \in 1..(s + 1) :
             BoolPieces(b, at, s)[k] =
               Whole(<<IF ByteBits - k \in BitsOf(c[1]) THEN TrueByte ELSE 0>>)
    <3>1. b \in Seq(Byte) /\ at \in Nat /\ s \in Nat
      BY <1>2, <2>4
    <3>2. BoolPieces(b, at, s) \in Seq(Pieces) /\ Len(BoolPieces(b, at, s)) = s + 1
      BY <3>1, BoolPiecesFacts
    <3>3. \A k \in 1..(s + 1) :
            BoolPieces(b, at, s)[k] =
              Whole(<<IF ByteBits - k \in BitsOf(IntOf(Slice(b, at, at + 1)))
                      THEN TrueByte ELSE 0>>)
      BY <3>1, BoolPiecesFacts
    <3> QED
      BY <2>8, <3>2, <3>3
  <2>10. /\ SubSeq(w, i, i + s) \in Seq(Pieces) /\ Len(SubSeq(w, i, i + s)) = s + 1
         /\ \A k \in 1..(s + 1) : SubSeq(w, i, i + s)[k] = w[i + k - 1]
    <3>1. i \in 1..Len(w) /\ s \in 0..(Len(w) - i)
      BY <1>2, <1>8, <2>3, <2>4
    <3> QED
      BY <3>1, RunOfItems
  <2>11. ASSUME NEW k \in 1..(s + 1) PROVE BoolPieces(b, at, s)[k] = SubSeq(w, i, i + s)[k]
    <3>1. PICK l \in 0..s : l + 1 = k /\ i + k - 1 = i + l
      <4>1. k - 1 \in 0..s /\ (k - 1) + 1 = k /\ i + k - 1 = i + (k - 1)
        BY <1>2, <2>4
      <4> QED
        BY <4>1
    <3>2. PICK j \in 1..n : j = i + l /\ j \in i..(i + Sharing(ts, i))
      <4>1. l \in Nat /\ i \in Nat /\ l <= s /\ i + s <= n
        BY <1>2, <2>3, <2>4
      <4>2. i + l \in 1..n /\ i + l \in i..(i + s)
        BY <2>4, <4>1
      <4> QED
        BY <2>3, <4>2
    <3>3. ts[j].kind = "bool" /\ ts[j] \in Types
      <4>1. j = i \/ j > i
        BY <1>2, <3>2
      <4>2. j > i => ts[j].kind = "bool"
        BY <1>1, <3>2, StartFacts
      <4>3. ts[j].kind = "bool"
        BY <1>13, <4>1, <4>2, Zenon
      <4>4. ts[j] \in Types
        BY <1>1
      <4> QED
        BY <4>3, <4>4
    <3>4. ~IsDynamic[ts[j]]
      <4>1. Size[ts[j]] \in Nat
        BY <3>3, SizeDef
      <4> QED
        BY <1>1, <3>2, <3>3, <4>1, CostFacts
    <3>5. w[j] = Whole(bs[j])
      <4>1. j \in 1..(n + 1) /\ j # n + 1
        BY <1>1
      <4> QED
        BY <1>1, <1>8, <3>4, <4>1 DEF Wanted
    <3>6. bs[j] \in {<<0>>, <<TrueByte>>}
      BY <1>1, <3>3 DEF Proper
    <3>7. bs[j] = <<IF ByteBits - k \in BitsOf(c[1]) THEN TrueByte ELSE 0>>
      BY <2>6, <3>1, <3>2, <3>6, TrueByteFacts
    <3> QED
      BY <2>9, <2>10, <3>1, <3>2, <3>5, <3>7
  <2>12. BoolPieces(b, at, s) = SubSeq(w, i, i + s)
    BY <2>4, <2>9, <2>10, <2>11
  <2> QED
    BY <1>3, <1>5, <1>6, <1>8, <1>13, <2>4, <2>5, <2>12 DEF ReadsFirst
<1> QED
  BY <1>6, <1>11, <1>12, <1>13

\* Every piece is read, or reading fails at an item that takes no bytes.
LEMMA ReadInPlace ==
  ASSUME NEW ts \in Seq(Types), NEW bs, Proper(ts, bs), NEW b, InPlace(ts, bs, b),
         NEW homogeneous, Alike(homogeneous, ts), NEW f, Reads(ts, b, homogeneous, f)
  PROVE  \A i \in Starts(ts) :
           ReadsOn(ts, bs, f, i) \/ (EndsEmpty(ts) /\ Fails(f[i][HeadAt(ts, i)]))
<1>1. PICK n \in Nat : n = Len(ts)
  OBVIOUS
<1> DEFINE P == {i \in Starts(ts) :
                   ReadsOn(ts, bs, f, i) \/ (EndsEmpty(ts) /\ Fails(f[i][HeadAt(ts, i)]))}
<1>2. b \in Seq(Byte)
  BY DEF InPlace
<1>3. \A i \in 1..(n + 1) : HeadAt(ts, i) \in Nat /\ f[i] \in [Nat -> Seq(Pieces)]
  BY <1>1, HeadAtFacts DEF Reads
<1>4. Len(ts) + 1 \in P
  <2>1. PICK j \in 1..(n + 1) : j = n + 1 /\ j > Len(ts)
    BY <1>1
  <2>2. PICK at \in Nat : at = HeadAt(ts, j)
    BY <1>3
  <2>3. f[j][at] = <<End(at)>>
    <3>1. f[j][at] = ReadStep(ts, b, homogeneous, f, j, at)
      BY <1>1 DEF Reads
    <3> QED
      BY <2>1, <3>1 DEF ReadStep
  <2>4. PICK w \in Seq(Pieces) : w = Wanted(ts, bs) /\ Len(w) = n + 1
    BY <1>1, WantedFacts
  <2>5. w[j] = End(at)
    BY <1>1, <2>1, <2>2, <2>4 DEF Wanted
  <2>6. SubSeq(w, j, j) = <<w[j]>>
    <3>1. j \in 1..Len(w) /\ 0 \in 0..(Len(w) - j)
      BY <2>1, <2>4
    <3>2. PICK l \in 0..(Len(w) - j) : l = 0
      BY <3>1
    <3>3. /\ SubSeq(w, j, j + l) \in Seq(Pieces) /\ Len(SubSeq(w, j, j + l)) = l + 1
          /\ \A k \in 1..(l + 1) : SubSeq(w, j, j + l)[k] = w[j + k - 1]
      BY <3>1, RunOfItems
    <3>4. j + l = j /\ 1 \in 1..(l + 1) /\ j + 1 - 1 = j
      BY <3>1, <3>2
    <3>5. SubSeq(w, j, j) \in Seq(Pieces) /\ Len(SubSeq(w, j, j)) = 1
      BY <3>2, <3>3, <3>4
    <3>6. SubSeq(w, j, j)[1] = w[j]
      BY <3>3, <3>4
    <3>7. <<w[j]>> \in Seq(Pieces) /\ Len(<<w[j]>>) = 1 /\ <<w[j]>>[1] = w[j]
      BY <3>1
    <3>8. Agree(SubSeq(w, j, j), <<w[j]>>)
      BY <3>5, <3>6, <3>7 DEF Agree
    <3> QED
      BY <3>5, <3>7, <3>8, SameSequence
  <2>7. ReadsOn(ts, bs, f, j)
    BY <1>1, <2>1, <2>2, <2>3, <2>4, <2>5, <2>6 DEF ReadsOn
  <2> QED
    BY <1>1, <2>1, <2>7, FirstStart
<1>5. ASSUME NEW i \in Starts(ts), i <= Len(ts), Following(ts, i) \in P PROVE i \in P
  <2>1. i \in 1..Len(ts) /\ IsStart(ts, i) /\ i \in 1..(n + 1) /\ i \in Nat
    BY <1>1, <1>5 DEF Starts
  <2>2. PICK j \in Starts(ts) : j = Following(ts, i) /\ j > i /\ j \in 1..(n + 1)
    BY <1>1, <2>1, StartFacts DEF Starts
  <2>3. PICK at \in Nat, to \in Nat : at = HeadAt(ts, i) /\ to = HeadAt(ts, j)
    BY <1>3, <2>1, <2>2
  <2>4. CASE i > 1 /\ at >= Len(b)
    <3>1. f[i][at] = <<Whole(Poison)>>
      <4>1. f[i][at] = ReadStep(ts, b, homogeneous, f, i, at)
        BY <1>1, <2>1 DEF Reads
      <4>2. ~(i > Len(ts))
        BY <2>1
      <4> QED
        BY <2>4, <4>1, <4>2 DEF ReadStep
    <3>2. Fails(f[i][at])
      BY <3>1, CompletePieces
    <3>3. EndsEmpty(ts)
      <4>1. SUFFICES ASSUME ~EndsEmpty(ts) PROVE FALSE
        OBVIOUS
      <4>2. at < HeadAt(ts, n + 1)
        BY <1>1, <1>5, <2>3, <2>4, <4>1, HeadBeforeEnd
      <4>3. HeadAt(ts, n + 1) <= Len(b)
        <5>1. n \in 1..Len(ts)
          BY <1>1, <2>1
        <5> QED
          BY <1>1, <5>1 DEF InPlace
      <4>4. HeadAt(ts, n + 1) \in Nat /\ Len(b) \in Nat
        BY <1>1, <1>2, <1>3
      <4> QED
        BY <2>4, <4>2, <4>3, <4>4
    <3> QED
      BY <2>3, <3>2, <3>3
  <2>5. CASE i > 1 => at < Len(b)
    <3>1. ReadsFirst(ts, bs, f, i)
      BY <2>1, <2>3, <2>5, ReadStart
    <3>2. PICK p \in Seq(Pieces) : p = SubSeq(Wanted(ts, bs), i, j - 1)
      <4>1. j - 1 \in i..(Len(ts) + 1) /\ i \in 1..(Len(ts) + 1)
        BY <1>1, <2>1, <2>2
      <4> QED
        BY <4>1, WantedFacts
    <3>3. PICK q \in Seq(Pieces) : q = f[j][to]
      <4>1. f[j] \in [Nat -> Seq(Pieces)]
        BY <1>3, <2>2
      <4> QED
        BY <4>1
    <3>4. f[i][at] = p \o q
      BY <2>2, <2>3, <3>1, <3>2, <3>3 DEF ReadsFirst
    <3>5. CASE ReadsOn(ts, bs, f, j)
      <4>1. q = SubSeq(Wanted(ts, bs), j, Len(ts) + 1)
        BY <2>3, <3>3, <3>5 DEF ReadsOn
      <4>2. j \in (i + 1)..(Len(ts) + 1)
        BY <1>1, <2>1, <2>2
      <4>3. p \o q = SubSeq(Wanted(ts, bs), i, Len(ts) + 1)
        BY <2>1, <3>2, <4>1, <4>2, WantedTogether
      <4> QED
        BY <2>3, <3>4, <4>3 DEF ReadsOn
    <3>6. CASE EndsEmpty(ts) /\ Fails(f[j][HeadAt(ts, j)])
      <4>1. Fails(p \o q)
        <5>1. Fails(q) /\ 0 \in Nat
          BY <2>3, <3>3, <3>6
        <5> QED
          BY <5>1, ReadMore
      <4> QED
        BY <2>3, <3>4, <3>6, <4>1
    <3> QED
      BY <1>5, <2>2, <3>5, <3>6
  <2>6. Len(b) \in Nat
    BY <1>2
  <2> QED
    BY <2>3, <2>4, <2>5, <2>6
<1>6. P = Starts(ts)
  <2>1. P \in SUBSET Starts(ts)
    OBVIOUS
  <2> HIDE DEF P
  <2> QED
    BY <1>4, <1>5, <2>1, StartsBack
<1> QED
  BY <1>6

\* The items are cut from what is wanted.
LEMMA CutInPlace ==
  ASSUME NEW ts \in Seq(Types), NEW bs, Proper(ts, bs), NEW b, InPlace(ts, bs, b)
  PROVE  Cut(b, Wanted(ts, bs)) = bs
<1>1. PICK n \in Nat : n = Len(ts)
  OBVIOUS
<1>2. PICK w \in Seq(Pieces) : w = Wanted(ts, bs) /\ Len(w) = n + 1
  BY <1>1, WantedFacts
<1>3. /\ w[n + 1] = End(HeadAt(ts, n + 1))
      /\ \A i \in 1..n : w[i] = IF IsDynamic[ts[i]] THEN Start(TailAt(ts, bs, i)) ELSE Whole(bs[i])
  <2>1. n + 1 \in 1..(n + 1)
    OBVIOUS
  <2>2. \A i \in 1..n : i \in 1..(n + 1) /\ i # n + 1
    OBVIOUS
  <2> QED
    BY <1>1, <1>2, <2>1, <2>2 DEF Wanted
<1>4. Last(w) = End(HeadAt(ts, n + 1)) /\ Len(w) - 1 = n
  BY <1>2, <1>3 DEF Last
<1>5. \A i \in 1..n : IsDynamic[ts[i]] \in BOOLEAN
  BY <1>1, DynamicDef
<1>6. PICK dynamic : dynamic = {i \in 1..n : IsDynamic[ts[i]]}
  OBVIOUS
<1>7. dynamic = {i \in 1..(Len(w) - 1) : w[i].dynamic}
  <2>1. ASSUME NEW i \in 1..n PROVE w[i].dynamic = IsDynamic[ts[i]]
    <3>1. \A m : Start(m).dynamic = TRUE /\ Whole(m).dynamic = FALSE
      BY DEF Start, Whole
    <3>2. CASE IsDynamic[ts[i]]
      <4>1. w[i] = Start(TailAt(ts, bs, i)) /\ IsDynamic[ts[i]] = TRUE
        BY <1>3, <1>5, <3>2
      <4> QED
        BY <3>1, <4>1
    <3>3. CASE ~IsDynamic[ts[i]]
      <4>1. w[i] = Whole(bs[i]) /\ IsDynamic[ts[i]] = FALSE
        BY <1>3, <1>5, <3>3
      <4> QED
        BY <3>1, <4>1
    <3> QED
      BY <3>2, <3>3
  <2> QED
    BY <1>4, <1>6, <2>1
<1>8. /\ dynamic = {} => TailAt(ts, bs, n + 1) = HeadAt(ts, n + 1)
      /\ \A i \in dynamic :
           IF i = Max(dynamic) THEN TailAt(ts, bs, i + 1) = TailAt(ts, bs, n + 1)
           ELSE /\ Min({j \in dynamic : j > i}) \in dynamic
                /\ TailAt(ts, bs, Min({j \in dynamic : j > i})) = TailAt(ts, bs, i + 1)
  <2>1. AreDynamic(ts, dynamic)
    BY <1>1, <1>6 DEF AreDynamic
  <2>2. \A i \in dynamic : NextTail(ts, bs, dynamic, i)
    BY <2>1, StopFacts, Zenon
  <2>3. ASSUME NEW i \in dynamic
        PROVE  IF i = Max(dynamic) THEN TailAt(ts, bs, i + 1) = TailAt(ts, bs, n + 1)
               ELSE /\ Min({j \in dynamic : j > i}) \in dynamic
                    /\ TailAt(ts, bs, Min({j \in dynamic : j > i})) = TailAt(ts, bs, i + 1)
    BY <1>1, <2>2, Zenon DEF NextTail
  <2>4. TailAt(ts, bs, n + 1) = HeadAt(ts, n + 1) \/ dynamic # {}
    BY <1>1, <2>1, StopFacts
  <2> QED
    BY <2>3, <2>4, Zenon
<1>9. Len(b) = TailAt(ts, bs, n + 1) /\ b \in Seq(Byte)
  BY <1>1 DEF InPlace
<1>10. bs \in Seq(Seq(Byte)) /\ Len(bs) = n
  BY <1>1 DEF Proper
<1>11. ASSUME NEW i \in 1..n
       PROVE  bs[i] = IF i \notin dynamic THEN w[i].bytes
                      ELSE Slice(b, w[i].from, IF i = Max(dynamic) THEN Len(b)
                                               ELSE w[Min({j \in dynamic : j > i})].from)
  <2>1. CASE i \notin dynamic
    <3>1. w[i] = Whole(bs[i])
      BY <1>3, <1>6, <2>1
    <3> QED
      BY <2>1, <3>1 DEF Whole
  <2>2. CASE i \in dynamic
    <3>1. Slice(b, TailAt(ts, bs, i), TailAt(ts, bs, i + 1)) = bs[i]
      <4>1. TailOf(ts, bs)[i] = bs[i]
        BY <1>1, <1>6, <2>2 DEF TailOf
      <4> QED
        BY <1>1, <4>1 DEF InPlace
    <3>2. ASSUME NEW j \in dynamic PROVE w[j].from = TailAt(ts, bs, j)
      <4>1. w[j] = Start(TailAt(ts, bs, j))
        BY <1>3, <1>6
      <4>2. \A m : Start(m).from = m
        BY DEF Start
      <4> QED
        BY <4>1, <4>2
    <3>3. CASE i = Max(dynamic)
      BY <1>8, <1>9, <2>2, <3>1, <3>2, <3>3
    <3>4. CASE i # Max(dynamic)
      <4>1. PICK j \in dynamic : /\ j = Min({k \in dynamic : k > i})
                                 /\ TailAt(ts, bs, j) = TailAt(ts, bs, i + 1)
        BY <1>8, <2>2, <3>4
      <4> QED
        BY <2>2, <3>1, <3>2, <3>4, <4>1
    <3> QED
      BY <3>3, <3>4
  <2> QED
    BY <2>1, <2>2
<1>12. ~(Last(w).bytes = Poison \/ (dynamic = {} /\ Last(w).from < Len(b)))
  <2>1. Last(w).bytes = << >> /\ Last(w).from = HeadAt(ts, n + 1)
    BY <1>4 DEF End
  <2>2. << >> # Poison
    BY DEF Poison
  <2>3. HeadAt(ts, n + 1) \in Nat
    BY <1>1, HeadAtFacts
  <2> QED
    BY <1>8, <1>9, <2>1, <2>2, <2>3
<1>13. bs = [i \in 1..n |-> bs[i]]
  BY <1>10
<1>14. Cut(b, w) = [i \in 1..n |-> IF i \notin dynamic THEN w[i].bytes
                      ELSE Slice(b, w[i].from, IF i = Max(dynamic) THEN Len(b)
                                               ELSE w[Min({j \in dynamic : j > i})].from)]
  BY <1>4, <1>7, <1>12 DEF Cut
<1>15. Cut(b, w) = [i \in 1..n |-> bs[i]]
  BY <1>11, <1>14
<1> QED
  BY <1>2, <1>13, <1>15

\* Items in place are found, or cannot be read at all because the last takes no bytes.
LEMMA DecodeInPlace ==
  ASSUME NEW ts \in Seq(Types), NEW bs, Proper(ts, bs), NEW b, InPlace(ts, bs, b)
  PROVE  Decode(ts, b) = bs \/ (EndsEmpty(ts) /\ Decode(ts, b) = <<Poison>>)
<1>1. Alike(Homogeneous(ts), ts)
  BY AlikeFacts
<1>2. Homogeneous(ts) \in BOOLEAN /\ b \in Seq(Byte)
  BY <1>1 DEF Alike, InPlace
<1>3. PICK homogeneous \in BOOLEAN : homogeneous = Homogeneous(ts)
  BY <1>2
<1>4. PICK f : Reads(ts, b, homogeneous, f)
  BY <1>2, <1>3, ReadFromFacts
<1>5. PICK r \in Seq(Pieces) : r = f[1][0] /\ Decode(ts, b) = Cut(b, r)
  <2>1. 1 \in 1..(Len(ts) + 1) /\ 0 \in Nat
    OBVIOUS
  <2>2. f[1] \in [Nat -> Seq(Pieces)]
    BY <1>4, <2>1 DEF Reads
  <2>3. f[1][0] \in Seq(Pieces)
    BY <2>1, <2>2
  <2>4. ReadFrom(ts, b, Homogeneous(ts)) = f[1][0]
    BY <1>3, <1>4 DEF Reads
  <2> QED
    BY <2>3, <2>4 DEF Decode
<1>6. HeadAt(ts, 1) = 0
  BY HeadAtFacts
<1>7. ReadsOn(ts, bs, f, 1) \/ (EndsEmpty(ts) /\ Fails(f[1][HeadAt(ts, 1)]))
  BY <1>1, <1>3, <1>4, FirstStart, ReadInPlace
<1>8. CASE ReadsOn(ts, bs, f, 1)
  <2>1. r = SubSeq(Wanted(ts, bs), 1, Len(ts) + 1)
    BY <1>5, <1>6, <1>8 DEF ReadsOn
  <2>2. PICK w \in Seq(Pieces) : w = Wanted(ts, bs) /\ Len(w) = Len(ts) + 1
    BY WantedFacts
  <2>3. SubSeq(w, 1, Len(w)) = w
    BY <2>2
  <2>4. Cut(b, w) = bs
    BY <2>2, CutInPlace
  <2> QED
    BY <1>5, <2>1, <2>2, <2>3, <2>4
<1>9. CASE EndsEmpty(ts) /\ Fails(f[1][HeadAt(ts, 1)])
  <2>1. Fails(r)
    BY <1>5, <1>6, <1>9
  <2>2. Cut(b, r) = <<Poison>>
    <3>1. 0 \in Nat
      OBVIOUS
    <3> QED
      BY <1>2, <2>1, <3>1, CutFacts
  <2> QED
    BY <1>5, <1>9, <2>2
<1> QED
  BY <1>7, <1>8, <1>9
=============================================================================
