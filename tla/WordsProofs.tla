---------------------------- MODULE WordsProofs ----------------------------
(***************************************************************************)
(* What the arithmetic of Words computes, for every base and every length: *)
(* powers, digits and the number they stand for, bits and the number they  *)
(* make up; and the properties of the native values, for every width: of 8 *)
(* and 64 bits as of the small ones that can be enumerated.                *)
(***************************************************************************)
EXTENDS Words, SequenceTheorems, WellFoundedInduction, TLAPS

-----------------------------------------------------------------------------
(* Induction, with sets for predicates, and functions defined by it.       *)

\* Whatever holds of zero and of the successor of what it holds of holds of all.
LEMMA Induction ==
  ASSUME NEW P \in SUBSET Nat, 0 \in P, \A n \in P : n + 1 \in P
  PROVE  P = Nat
<1> SUFFICES ASSUME Nat \ P # {} PROVE FALSE
  OBVIOUS
<1>1. PICK n \in Nat \ P : \A m \in Nat \ P : ~(<<m, n>> \in OpToRel(<, Nat))
  BY WFMin, NatLessThanWellFounded
<1>2. n # 0 /\ n - 1 \in Nat /\ n - 1 \notin P
  OBVIOUS
<1>3. <<n - 1, n>> \in OpToRel(<, Nat)
  BY <1>2 DEF OpToRel
<1> QED
  BY <1>1, <1>2, <1>3

\* The first values, up to that of n, of the function a step defines.
Upto(S, base, step, n) ==
  {g \in [0..n -> S] :
     g[0] = base /\ \A k \in 0..n : k < n => g[k + 1] = step[k + 1][g[k]]}

\* The function a step from each value to the next defines.
Follows(f, base, step) ==
  f[0] = base /\ \A n \in Nat : f[n + 1] = step[n + 1][f[n]]

\* There is one, whatever the step.
LEMMA Recursion ==
  ASSUME NEW S, NEW base \in S, NEW step \in [Nat -> [S -> S]]
  PROVE  \E f \in [Nat -> S] : Follows(f, base, step)
<1> DEFINE To(n) == Upto(S, base, step, n)
<1>1. \A n \in Nat : To(n) # {}
  <2> DEFINE P == {n \in Nat : To(n) # {}}
  <2>1. 0 \in P
    <3>1. [k \in 0..0 |-> base] \in To(0)
      BY DEF Upto
    <3> QED
      BY <3>1
  <2>2. ASSUME NEW n \in P PROVE n + 1 \in P
    <3>1. PICK g : g \in To(n)
      OBVIOUS
    <3> DEFINE h == [k \in 0..(n + 1) |-> IF k <= n THEN g[k] ELSE step[n + 1][g[n]]]
    <3>2. g[n] \in S /\ step[n + 1][g[n]] \in S
      BY <3>1 DEF Upto
    <3>3. h \in [0..(n + 1) -> S] /\ h[0] = base
      BY <3>1, <3>2 DEF Upto
    <3>4. ASSUME NEW k \in 0..(n + 1), k < n + 1 PROVE h[k + 1] = step[k + 1][h[k]]
      <4>1. CASE k < n
        BY <4>1, <3>1 DEF Upto
      <4>2. CASE k = n
        BY <4>2
      <4> QED
        BY <3>4, <4>1, <4>2
    <3>5. h \in To(n + 1)
      <4> HIDE DEF h
      <4> QED
        BY <3>3, <3>4 DEF Upto
    <3>6. n + 1 \in Nat
      OBVIOUS
    <3> HIDE DEF h, To
    <3> QED
      BY <3>5, <3>6 DEF P
  <2>3. P = Nat
    <3> HIDE DEF P
    <3> QED
      BY <2>1, <2>2, Induction DEF P
  <2> QED
    BY <2>3
<1>2. \A n \in Nat : \A g \in To(n), h \in To(n + 1) : g[n] = h[n]
  <2> SUFFICES ASSUME NEW n \in Nat, NEW g \in To(n), NEW h \in To(n + 1)
               PROVE  g[n] = h[n]
    OBVIOUS
  <2> DEFINE P == {k \in Nat : k <= n => g[k] = h[k]}
  <2>1. 0 \in P
    BY DEF Upto
  <2>2. ASSUME NEW k \in P PROVE k + 1 \in P
    <3> SUFFICES ASSUME k + 1 <= n PROVE g[k + 1] = h[k + 1]
      OBVIOUS
    <3>1. g[k] = h[k] /\ k \in 0..n /\ k \in 0..(n + 1) /\ k < n /\ k < n + 1
      OBVIOUS
    <3>2. g[k + 1] = step[k + 1][g[k]]
      BY <3>1 DEF Upto
    <3>3. h[k + 1] = step[k + 1][h[k]]
      BY <3>1 DEF Upto
    <3> QED
      BY <3>1, <3>2, <3>3
  <2>3. P = Nat
    <3> HIDE DEF P
    <3> QED
      BY <2>1, <2>2, Induction DEF P
  <2> QED
    BY <2>3
<1> DEFINE last == [n \in Nat |-> CHOOSE g : g \in To(n)]
<1>3. \A n \in Nat : last[n] \in To(n)
  <2> SUFFICES ASSUME NEW n \in Nat PROVE last[n] \in To(n)
    OBVIOUS
  <2>1. PICK g : g \in To(n)
    BY <1>1
  <2> HIDE DEF To
  <2> QED
    BY <2>1
<1> DEFINE f == [n \in Nat |-> last[n][n]]
<1> HIDE DEF last
<1>4. f \in [Nat -> S] /\ f[0] = base
  BY <1>3 DEF Upto
<1>5. ASSUME NEW n \in Nat PROVE f[n + 1] = step[n + 1][f[n]]
  <2>1. last[n + 1] \in To(n + 1) /\ last[n] \in To(n) /\ n \in 0..(n + 1) /\ n < n + 1
    BY <1>3
  <2>2. last[n + 1][n + 1] = step[n + 1][last[n + 1][n]]
    BY <2>1 DEF Upto
  <2>3. last[n][n] = last[n + 1][n]
    BY <1>2, <2>1
  <2> QED
    BY <2>2, <2>3
<1> HIDE DEF f
<1> QED
  BY <1>4, <1>5 DEF Follows

-----------------------------------------------------------------------------
(* Powers.                                                                 *)

\* A power by its recursion.
LEMMA PowDef ==
  ASSUME NEW b \in Nat
  PROVE  /\ Pow(b, 0) = 1
         /\ \A n \in Nat : Pow(b, n) \in Nat /\ Pow(b, n + 1) = b * Pow(b, n)
<1> DEFINE Is(p) == p = [k \in Nat |-> IF k = 0 THEN 1 ELSE b * p[k - 1]]
<1>1. \E p : Is(p)
  <2>1. PICK step \in [Nat -> [Nat -> Nat]] : \A n, v \in Nat : step[n][v] = b * v
    <3>1. [n \in Nat |-> [v \in Nat |-> b * v]] \in [Nat -> [Nat -> Nat]]
      OBVIOUS
    <3> QED
      BY <3>1
  <2>2. PICK f \in [Nat -> Nat] : Follows(f, 1, step)
    <3>1. 1 \in Nat
      OBVIOUS
    <3> QED
      BY <3>1, Recursion
  <2>3. ASSUME NEW n \in Nat PROVE f[n + 1] = b * f[n]
    <3>1. n + 1 \in Nat /\ f[n] \in Nat
      OBVIOUS
    <3>2. f[n + 1] = step[n + 1][f[n]]
      BY <2>2 DEF Follows
    <3>3. step[n + 1][f[n]] = b * f[n]
      BY <2>1, <3>1, Zenon
    <3> QED
      BY <3>2, <3>3
  <2>4. \A n \in Nat : f[n] = IF n = 0 THEN 1 ELSE b * f[n - 1]
    <3> SUFFICES ASSUME NEW n \in Nat, n # 0 PROVE f[n] = b * f[n - 1]
      BY <2>2 DEF Follows
    <3>1. n - 1 \in Nat /\ (n - 1) + 1 = n
      OBVIOUS
    <3> QED
      BY <2>3, <3>1
  <2> QED
    BY <2>4
<1>2. PICK p : Is(p) /\ \A n : Pow(b, n) = p[n]
  BY <1>1 DEF Pow
<1>3. p[0] = 1 /\ \A n \in Nat : p[n + 1] = b * p[n]
  BY <1>2
<1> DEFINE P == {n \in Nat : p[n] \in Nat}
<1>4. 0 \in P /\ \A n \in P : n + 1 \in P
  BY <1>3
<1>5. P = Nat
  <2> HIDE DEF P
  <2> QED
    BY <1>4, Induction DEF P
<1>6. \A n \in Nat : p[n] \in Nat
  BY <1>5
<1>7. \A n : Pow(b, n) = p[n]
  BY <1>2
<1> HIDE DEF P, Is
<1> QED
  BY <1>3, <1>6, <1>7

\* A power of a positive base is positive, and powers of a base multiply.
LEMMA PowLaws ==
  ASSUME NEW b \in Nat \ {0}
  PROVE  /\ \A n \in Nat : Pow(b, n) \in Nat \ {0}
         /\ \A m, n \in Nat : Pow(b, m + n) = Pow(b, m) * Pow(b, n)
<1>1. Pow(b, 0) = 1 /\ \A n \in Nat : Pow(b, n) \in Nat /\ Pow(b, n + 1) = b * Pow(b, n)
  BY PowDef
<1>2. \A n \in Nat : Pow(b, n) \in Nat \ {0}
  <2> DEFINE P == {n \in Nat : Pow(b, n) # 0}
  <2>1. 0 \in P
    BY <1>1
  <2>2. ASSUME NEW n \in P PROVE n + 1 \in P
    <3>1. PICK p \in Nat \ {0} : p = Pow(b, n)
      BY <1>1
    <3>2. b * p # 0
      OBVIOUS
    <3> QED
      BY <1>1, <3>1, <3>2
  <2>3. P = Nat
    <3> HIDE DEF P
    <3> QED
      BY <2>1, <2>2, Induction DEF P
  <2> QED
    BY <1>1, <2>3
<1>3. ASSUME NEW m \in Nat, NEW n \in Nat PROVE Pow(b, m + n) = Pow(b, m) * Pow(b, n)
  <2> DEFINE P == {k \in Nat : Pow(b, m + k) = Pow(b, m) * Pow(b, k)}
  <2>1. 0 \in P
    BY <1>1
  <2>2. ASSUME NEW k \in P PROVE k + 1 \in P
    <3>1. Pow(b, m + k) = Pow(b, m) * Pow(b, k)
      OBVIOUS
    <3>2. Pow(b, (m + k) + 1) = b * Pow(b, m + k) /\ Pow(b, k + 1) = b * Pow(b, k)
      BY <1>1
    <3>3. b * (Pow(b, m) * Pow(b, k)) = Pow(b, m) * (b * Pow(b, k))
      <4>1. \A x, y, z \in Nat : x * (y * z) = y * (x * z)
        OBVIOUS
      <4> QED
        BY <1>1, <4>1
    <3>4. (m + k) + 1 = m + (k + 1)
      OBVIOUS
    <3> QED
      BY <3>1, <3>2, <3>3, <3>4
  <2>3. P = Nat
    <3> HIDE DEF P
    <3> QED
      BY <2>1, <2>2, Induction DEF P
  <2> QED
    BY <2>3
<1> QED
  BY <1>2, <1>3

\* A larger exponent makes no smaller power, and from base two on a larger one.
LEMMA PowGrows ==
  ASSUME NEW b \in Nat \ {0}, NEW m \in Nat, NEW n \in Nat
  PROVE  /\ m <= n => Pow(b, m) <= Pow(b, n)
         /\ b > 1 => n < Pow(b, n)
<1>1. ASSUME m <= n PROVE Pow(b, m) <= Pow(b, n)
  <2>1. n - m \in Nat /\ m + (n - m) = n
    BY <1>1
  <2>2. Pow(b, n) = Pow(b, m) * Pow(b, n - m)
    BY <2>1, PowLaws
  <2>3. \A x, y \in Nat \ {0} : x <= x * y
    OBVIOUS
  <2>4. Pow(b, m) \in Nat \ {0} /\ Pow(b, n - m) \in Nat \ {0}
    BY <2>1, PowLaws
  <2>5. Pow(b, m) <= Pow(b, m) * Pow(b, n - m)
    BY <2>3, <2>4
  <2> QED
    BY <2>2, <2>5
<1>2. ASSUME b > 1 PROVE n < Pow(b, n)
  <2> DEFINE P == {k \in Nat : k < Pow(b, k)}
  <2>1. 0 \in P
    BY PowDef
  <2>2. ASSUME NEW k \in P PROVE k + 1 \in P
    <3>1. Pow(b, k) \in Nat \ {0} /\ Pow(b, k + 1) = b * Pow(b, k) /\ k < Pow(b, k)
      BY PowDef, PowLaws
    <3>2. \A x \in Nat \ {0} : b * x >= x + 1
      BY <1>2
    <3>3. Pow(b, k + 1) >= Pow(b, k) + 1
      BY <3>1, <3>2
    <3> QED
      BY <3>1, <3>3
  <2>3. P = Nat
    <3> HIDE DEF P
    <3> QED
      BY <2>1, <2>2, Induction DEF P
  <2> QED
    BY <2>3
<1> QED
  BY <1>1, <1>2

\* A power of a power multiplies the exponents.
LEMMA PowOfPow ==
  ASSUME NEW b \in Nat \ {0}, NEW m \in Nat, NEW n \in Nat
  PROVE  Pow(Pow(b, m), n) = Pow(b, m * n)
<1> DEFINE P == {k \in Nat : Pow(Pow(b, m), k) = Pow(b, m * k)}
<1>1. Pow(b, m) \in Nat \ {0}
  BY PowLaws
<1>2. 0 \in P
  BY <1>1, PowDef
<1>3. ASSUME NEW k \in P PROVE k + 1 \in P
  <2>1. Pow(Pow(b, m), k + 1) = Pow(b, m) * Pow(b, m * k)
    BY <1>1, PowDef
  <2>2. m * k \in Nat /\ m * (k + 1) = m + m * k
    OBVIOUS
  <2> QED
    BY <2>1, <2>2, PowLaws
<1>4. P = Nat
  <2> HIDE DEF P
  <2> QED
    BY <1>2, <1>3, Induction DEF P
<1> QED
  BY <1>4

-----------------------------------------------------------------------------
(* Quotient and rest.                                                      *)

\* Quotient and remainder, as facts of their own: provers lose them inside larger goals.
LEMMA Division ==
  ASSUME NEW n \in Nat, NEW d \in Nat \ {0}
  PROVE  n \div d \in Nat /\ n % d \in 0..(d - 1) /\ n = d * (n \div d) + (n % d)
OBVIOUS

\* They are unique.
LEMMA DivisionOf ==
  ASSUME NEW d \in Nat \ {0}, NEW q \in Nat, NEW r \in 0..(d - 1)
  PROVE  (d * q + r) \div d = q /\ (d * q + r) % d = r
OBVIOUS

\* Dividing twice is dividing by the product.
LEMMA DivOfDiv ==
  ASSUME NEW n \in Nat, NEW c \in Nat \ {0}, NEW d \in Nat \ {0}
  PROVE  (n \div c) \div d = n \div (c * d)
<1>1. PICK q \in Nat, r \in 0..(c - 1) : q = n \div c /\ n = c * q + r
  BY Division
<1>2. PICK p \in Nat, s \in 0..(d - 1) : p = q \div d /\ q = d * p + s
  BY Division
<1>3. n = (c * d) * p + (c * s + r)
  <2>1. c * (d * p + s) = (c * d) * p + c * s
    OBVIOUS
  <2>2. n = c * (d * p + s) + r
    BY <1>1, <1>2
  <2>3. (c * d) * p \in Nat /\ c * s \in Nat
    OBVIOUS
  <2> QED
    BY <2>1, <2>2, <2>3
<1>4. c * s + r \in 0..(c * d - 1)
  <2>1. c * s <= c * (d - 1)
    BY <1>2
  <2>2. c * (d - 1) = c * d - c
    OBVIOUS
  <2>3. c * s \in Nat /\ c * d \in Nat
    BY <1>2
  <2> QED
    BY <1>1, <2>1, <2>2, <2>3
<1>5. c * d \in Nat \ {0}
  OBVIOUS
<1>6. n \div (c * d) = p
  BY <1>3, <1>4, <1>5, DivisionOf
<1> QED
  BY <1>1, <1>2, <1>6

-----------------------------------------------------------------------------
(* Digits, counted from the last one.                                      *)

Digit(b, n, i) == (n \div Pow(b, i)) % b

\* The digits of a number, the last one first, by dividing.
LEMMA DigitStep ==
  ASSUME NEW b \in Nat \ {0}, NEW n \in Nat
  PROVE  /\ Digit(b, n, 0) = n % b
         /\ \A i \in Nat : /\ Digit(b, n, i) \in 0..(b - 1)
                           /\ Digit(b, n, i + 1) = Digit(b, n \div b, i)
<1>1. Pow(b, 0) = 1 /\ n \div 1 = n
  BY PowDef
<1>2. ASSUME NEW i \in Nat
      PROVE  Digit(b, n, i) \in 0..(b - 1) /\ Digit(b, n, i + 1) = Digit(b, n \div b, i)
  <2>1. Pow(b, i) \in Nat \ {0} /\ Pow(b, i + 1) = b * Pow(b, i)
    BY PowDef, PowLaws
  <2>2. (n \div b) \div Pow(b, i) = n \div (b * Pow(b, i))
    BY <2>1, DivOfDiv
  <2>3. n \div Pow(b, i) \in Nat
    BY <2>1, Division
  <2>4. (n \div Pow(b, i)) % b \in 0..(b - 1)
    BY <2>3, Division
  <2> QED
    BY <2>1, <2>2, <2>4 DEF Digit
<1> QED
  BY <1>1, <1>2 DEF Digit

\* The quotient by the base is a digit shorter.
LEMMA DropDigit ==
  ASSUME NEW b \in Nat \ {0}, NEW k \in Nat, NEW n \in 0..(Pow(b, k + 1) - 1)
  PROVE  n \div b \in 0..(Pow(b, k) - 1)
<1>1. Pow(b, k + 1) = b * Pow(b, k) /\ Pow(b, k) \in Nat \ {0}
  BY PowDef, PowLaws
<1>2. n \in Nat
  BY <1>1
<1>3. PICK q \in Nat, r \in 0..(b - 1) : q = n \div b /\ n = b * q + r
  BY <1>2, Division
<1>4. ~(Pow(b, k) <= q)
  <2> SUFFICES ASSUME Pow(b, k) <= q PROVE FALSE
    OBVIOUS
  <2>1. \A x, y \in Nat : x <= y => b * x <= b * y
    OBVIOUS
  <2>2. b * Pow(b, k) <= b * q
    BY <1>1, <2>1
  <2>3. b * q \in Nat /\ b * Pow(b, k) \in Nat /\ n < b * Pow(b, k)
    BY <1>1
  <2> QED
    BY <1>3, <2>2, <2>3
<1> QED
  BY <1>1, <1>3, <1>4

\* The digits from the length on are zero.
LEMMA DigitBeyond ==
  ASSUME NEW b \in Nat \ {0}, NEW i \in Nat, NEW n \in Nat, n < Pow(b, i)
  PROVE  Digit(b, n, i) = 0
<1>1. Pow(b, i) \in Nat \ {0}
  BY PowLaws
<1>2. n \in 0..(Pow(b, i) - 1) /\ n = Pow(b, i) * 0 + n
  BY <1>1
<1>3. n \div Pow(b, i) = 0
  BY <1>1, <1>2, DivisionOf
<1>4. 0 % b = 0
  OBVIOUS
<1> QED
  BY <1>3, <1>4 DEF Digit

\* Numbers of a length with the same digits are the same.
LEMMA SameDigits ==
  ASSUME NEW b \in Nat \ {0}, NEW n \in Nat,
         NEW x \in 0..(Pow(b, n) - 1), NEW y \in 0..(Pow(b, n) - 1),
         \A i \in 0..(n - 1) : Digit(b, x, i) = Digit(b, y, i)
  PROVE  x = y
<1> DEFINE Same(k, u, v) == (\A i \in 0..(k - 1) : Digit(b, u, i) = Digit(b, v, i)) => u = v
<1> DEFINE P == {k \in Nat : \A u, v \in 0..(Pow(b, k) - 1) : Same(k, u, v)}
<1>1. 0 \in P
  BY PowDef
<1>2. ASSUME NEW k \in P PROVE k + 1 \in P
  <2> SUFFICES ASSUME NEW u \in 0..(Pow(b, k + 1) - 1), NEW v \in 0..(Pow(b, k + 1) - 1),
                      \A i \in 0..k : Digit(b, u, i) = Digit(b, v, i)
               PROVE  u = v
    OBVIOUS
  <2>1. Pow(b, k + 1) \in Nat
    BY PowDef
  <2>2. u \in Nat /\ v \in Nat
    BY <2>1
  <2>3. u % b = v % b
    <3>1. 0 \in 0..k
      OBVIOUS
    <3> QED
      BY <2>2, <3>1, DigitStep
  <2>4. u \div b \in 0..(Pow(b, k) - 1) /\ v \div b \in 0..(Pow(b, k) - 1)
    BY DropDigit
  <2>5. ASSUME NEW i \in 0..(k - 1) PROVE Digit(b, u \div b, i) = Digit(b, v \div b, i)
    <3>1. i + 1 \in 0..k /\ i \in Nat
      OBVIOUS
    <3> QED
      BY <2>2, <3>1, DigitStep
  <2>6. u \div b = v \div b
    BY <2>4, <2>5
  <2>7. u = b * (u \div b) + (u % b) /\ v = b * (v \div b) + (v % b)
    BY <2>2, Division
  <2> QED
    BY <2>3, <2>6, <2>7
<1>3. P = Nat
  <2> HIDE DEF P
  <2> QED
    BY <1>1, <1>2, Induction DEF P
<1> QED
  BY <1>3

-----------------------------------------------------------------------------
(* The number that digits stand for.                                       *)

\* Each prefix stands for a number, and one more digit for that times the base plus it.
LEMMA NumberDef ==
  ASSUME NEW b \in Nat, NEW s \in Seq(Nat)
  PROVE  \E v \in [0..Len(s) -> Nat] :
           /\ v[0] = 0 /\ Number(b, s) = v[Len(s)]
           /\ \A k \in 0..(Len(s) - 1) : v[k + 1] = b * v[k] + s[k + 1]
<1>1. Len(s) \in Nat /\ \A k \in 1..Len(s) : s[k] \in Nat
  OBVIOUS
<1> DEFINE Is(v) == v = [k \in 0..Len(s) |-> IF k = 0 THEN 0 ELSE b * v[k - 1] + s[k]]
<1>2. \E v \in [0..Len(s) -> Nat] : Is(v)
  <2>1. PICK step \in [Nat -> [Nat -> Nat]] :
          \A n \in 1..Len(s), v \in Nat : step[n][v] = b * v + s[n]
    <3> DEFINE step == [n \in Nat |-> [v \in Nat |->
                          IF n \in 1..Len(s) THEN b * v + s[n] ELSE 0]]
    <3>1. \A n \in 1..Len(s), v \in Nat : b * v + s[n] \in Nat /\ n \in Nat
      BY <1>1
    <3>2. step \in [Nat -> [Nat -> Nat]]
      BY <3>1
    <3>3. \A n \in 1..Len(s), v \in Nat : step[n][v] = b * v + s[n]
      BY <3>1
    <3> HIDE DEF step
    <3> QED
      BY <3>2, <3>3
  <2>2. PICK f \in [Nat -> Nat] : Follows(f, 0, step)
    <3>1. 0 \in Nat
      OBVIOUS
    <3> QED
      BY <3>1, Recursion
  <2> DEFINE v == [k \in 0..Len(s) |-> f[k]]
  <2>3. v \in [0..Len(s) -> Nat]
    OBVIOUS
  <2>4. ASSUME NEW k \in 0..Len(s) PROVE v[k] = IF k = 0 THEN 0 ELSE b * v[k - 1] + s[k]
    <3>1. f[0] = 0
      BY <2>2 DEF Follows
    <3>2. CASE k # 0
      <4>1. k - 1 \in Nat /\ (k - 1) + 1 = k /\ k \in 1..Len(s) /\ k - 1 \in 0..Len(s)
        BY <1>1, <3>2
      <4>2. f[k] = step[k][f[k - 1]]
        BY <2>2, <4>1 DEF Follows
      <4>3. f[k - 1] \in Nat
        BY <4>1
      <4>4. step[k][f[k - 1]] = b * f[k - 1] + s[k]
        BY <2>1, <4>1, <4>3
      <4> QED
        BY <3>2, <4>1, <4>2, <4>4
    <3> QED
      BY <3>1, <3>2
  <2>5. Is(v)
    <3> HIDE DEF v
    <3>1. v = [k \in 0..Len(s) |-> v[k]]
      BY <2>3
    <3> QED
      BY <2>4, <3>1
  <2> HIDE DEF v, Is
  <2> QED
    BY <2>3, <2>5
<1>3. \A u, v : Is(u) /\ Is(v) => u = v
  <2> SUFFICES ASSUME NEW u, NEW v, Is(u), Is(v) PROVE u = v
    OBVIOUS
  <2> DEFINE P == {k \in Nat : k <= Len(s) => u[k] = v[k]}
  <2>1. 0 \in P
    BY <1>1
  <2>2. ASSUME NEW k \in P PROVE k + 1 \in P
    <3> SUFFICES ASSUME k + 1 <= Len(s) PROVE u[k + 1] = v[k + 1]
      OBVIOUS
    <3>1. k + 1 \in 0..Len(s) /\ k + 1 # 0 /\ (k + 1) - 1 = k /\ u[k] = v[k]
      BY <1>1
    <3>2. u[k + 1] = b * u[k] + s[k + 1]
      BY <3>1
    <3>3. v[k + 1] = b * v[k] + s[k + 1]
      BY <3>1
    <3> QED
      BY <3>1, <3>2, <3>3
  <2>3. P = Nat
    <3> HIDE DEF P
    <3> QED
      BY <2>1, <2>2, Induction DEF P
  <2>4. \A k \in 0..Len(s) : u[k] = v[k]
    <3>1. \A k \in Nat : k <= Len(s) => u[k] = v[k]
      BY <2>3
    <3> HIDE DEF P, Is
    <3> QED
      BY <1>1, <3>1
  <2> QED
    BY <2>4
<1>4. PICK v \in [0..Len(s) -> Nat] : Is(v)
  BY <1>2
<1>5. (CHOOSE u : Is(u)) = v
  <2>1. Is(CHOOSE u : Is(u))
    BY <1>4
  <2> HIDE DEF Is
  <2> QED
    BY <1>3, <1>4, <2>1
<1>6. Number(b, s) = v[Len(s)]
  BY <1>5 DEF Number
<1>7. v[0] = 0 /\ \A k \in 0..(Len(s) - 1) : v[k + 1] = b * v[k] + s[k + 1]
  <2>1. v[0] = 0
    BY <1>1, <1>4
  <2>2. ASSUME NEW k \in 0..(Len(s) - 1) PROVE v[k + 1] = b * v[k] + s[k + 1]
    <3>1. k + 1 \in 0..Len(s) /\ k + 1 # 0 /\ (k + 1) - 1 = k
      BY <1>1
    <3> QED
      BY <1>4, <3>1
  <2> QED
    BY <2>1, <2>2
<1> HIDE DEF Is
<1> QED
  BY <1>6, <1>7

\* The number of digits of a base has them for its digits, and no others.
LEMMA NumberDigits ==
  ASSUME NEW b \in Nat \ {0}, NEW s \in Seq(0..(b - 1))
  PROVE  /\ Number(b, s) \in 0..(Pow(b, Len(s)) - 1)
         /\ \A i \in Nat :
              Digit(b, Number(b, s), i) = IF i < Len(s) THEN s[Len(s) - i] ELSE 0
<1>1. Len(s) \in Nat /\ s \in Seq(Nat) /\ \A k \in 1..Len(s) : s[k] \in 0..(b - 1)
  BY SeqMonotonic
<1>2. PICK v \in [0..Len(s) -> Nat] :
        /\ v[0] = 0 /\ Number(b, s) = v[Len(s)]
        /\ \A k \in 0..(Len(s) - 1) : v[k + 1] = b * v[k] + s[k + 1]
  BY <1>1, NumberDef
<1> DEFINE Good(k) == /\ v[k] < Pow(b, k)
                      /\ \A i \in 0..(k - 1) : Digit(b, v[k], i) = s[k - i]
<1> DEFINE P == {k \in Nat : k <= Len(s) => Good(k)}
<1>3. 0 \in P
  <2>1. v[0] = 0 /\ Pow(b, 0) = 1
    BY <1>2, PowDef
  <2> QED
    BY <2>1
<1>4. ASSUME NEW k \in P PROVE k + 1 \in P
  <2> SUFFICES ASSUME k + 1 <= Len(s) PROVE Good(k + 1)
    OBVIOUS
  <2>1. k \in 0..(Len(s) - 1) /\ k \in 0..Len(s) /\ k + 1 \in 0..Len(s) /\ k + 1 \in 1..Len(s)
    BY <1>1
  <2>2. Good(k)
    BY <2>1
  <2>3. PICK d \in 0..(b - 1) : d = s[k + 1] /\ v[k + 1] = b * v[k] + d
    BY <1>1, <1>2, <2>1
  <2>4. v[k] \in Nat /\ v[k + 1] \in Nat
    BY <2>1
  <2>5. v[k + 1] \div b = v[k] /\ v[k + 1] % b = d
    <3>1. \A q \in Nat : (b * q + d) \div b = q /\ (b * q + d) % b = d
      BY DivisionOf
    <3> QED
      BY <2>3, <2>4, <3>1
  <2>6. v[k + 1] < Pow(b, k + 1)
    <3>1. Pow(b, k + 1) = b * Pow(b, k) /\ Pow(b, k) \in Nat
      BY PowDef
    <3>2. \A x, y \in Nat : x < y => b * x + b <= b * y
      OBVIOUS
    <3>3. b * v[k] + b <= b * Pow(b, k)
      BY <2>2, <2>4, <3>1, <3>2
    <3>4. b * v[k] \in Nat /\ b * Pow(b, k) \in Nat
      BY <2>4, <3>1
    <3>5. PICK x \in Nat, y \in Nat : x = b * v[k] /\ y = b * Pow(b, k)
      BY <3>4
    <3>6. x + b <= y
      BY <3>3, <3>5
    <3>7. x + d < y
      BY <3>6
    <3>8. v[k + 1] = x + d /\ Pow(b, k + 1) = y
      BY <2>3, <3>1, <3>5, Zenon
    <3> QED
      BY <3>7, <3>8, Zenon
  <2>7. ASSUME NEW i \in 0..k PROVE Digit(b, v[k + 1], i) = s[(k + 1) - i]
    <3>1. CASE i = 0
      BY <2>3, <2>4, <2>5, <3>1, DigitStep
    <3>2. CASE i # 0
      <4>1. i - 1 \in 0..(k - 1) /\ i - 1 \in Nat /\ (i - 1) + 1 = i
        BY <3>2
      <4>2. \A j \in Nat : Digit(b, v[k + 1], j + 1) = Digit(b, v[k + 1] \div b, j)
        BY <2>4, DigitStep
      <4>4. Digit(b, v[k + 1], i) = Digit(b, v[k], i - 1)
        BY <2>5, <4>1, <4>2
      <4>3. k - (i - 1) = (k + 1) - i
        BY <4>1
      <4> QED
        BY <2>2, <4>1, <4>3, <4>4
    <3> QED
      BY <3>1, <3>2
  <2>8. \A i \in 0..((k + 1) - 1) : Digit(b, v[k + 1], i) = s[(k + 1) - i]
    BY <2>7
  <2> QED
    BY <2>6, <2>8
<1>5. P = Nat
  <2> HIDE DEF P
  <2> QED
    BY <1>3, <1>4, Induction DEF P
<1>6. Good(Len(s))
  <2>1. Len(s) \in P
    <3> HIDE DEF P
    <3> QED
      BY <1>1, <1>5
  <2>2. Len(s) <= Len(s)
    BY <1>1
  <2> HIDE DEF Good
  <2> QED
    BY <2>1, <2>2
<1>7. Number(b, s) \in 0..(Pow(b, Len(s)) - 1)
  <2>1. Pow(b, Len(s)) \in Nat /\ Len(s) \in 0..Len(s)
    <3>1. Pow(b, Len(s)) \in Nat
      BY <1>1, PowLaws
    <3> QED
      BY <1>1, <3>1
  <2>2. v[Len(s)] \in Nat /\ v[Len(s)] < Pow(b, Len(s))
    BY <1>6, <2>1
  <2> QED
    BY <1>2, <2>1, <2>2
<1>8. ASSUME NEW i \in Nat
      PROVE  Digit(b, Number(b, s), i) = IF i < Len(s) THEN s[Len(s) - i] ELSE 0
  <2>1. CASE i < Len(s)
    BY <1>1, <1>2, <1>6, <2>1
  <2>2. CASE Len(s) <= i
    <3>1. Pow(b, Len(s)) <= Pow(b, i) /\ Pow(b, i) \in Nat /\ Pow(b, Len(s)) \in Nat
      BY <1>1, <2>2, PowGrows, PowLaws
    <3>2. Number(b, s) \in Nat /\ Number(b, s) < Pow(b, i)
      BY <1>7, <3>1
    <3> QED
      BY <1>1, <2>2, <3>2, DigitBeyond
  <2> QED
    BY <1>1, <2>1, <2>2
<1> QED
  BY <1>7, <1>8

-----------------------------------------------------------------------------
(* Digits of a rest, of a quotient and of a digit of a larger base.        *)

\* The rest by a power of the base keeps the digits below it.
LEMMA DigitOfRest ==
  ASSUME NEW b \in Nat \ {0}, NEW n \in Nat, NEW k \in Nat, NEW i \in 0..(k - 1)
  PROVE  Digit(b, n % Pow(b, k), i) = Digit(b, n, i)
<1>1. PICK p \in Nat \ {0} : p = Pow(b, i)
  BY PowLaws
<1>2. PICK c \in Nat \ {0} : c = Pow(b, k - (i + 1))
  <2>1. k - (i + 1) \in Nat
    OBVIOUS
  <2> QED
    BY <2>1, PowLaws
<1>3. Pow(b, k) = p * (b * c)
  <2>1. i + ((k - (i + 1)) + 1) = k /\ k - (i + 1) \in Nat /\ (k - (i + 1)) + 1 \in Nat
    OBVIOUS
  <2>2. Pow(b, (k - (i + 1)) + 1) = b * c
    BY <1>2, <2>1, PowDef
  <2> QED
    BY <1>1, <2>1, <2>2, PowLaws
<1>4. b * c \in Nat \ {0} /\ p * (b * c) \in Nat \ {0}
  OBVIOUS
<1>5. PICK d \in Nat \ {0} : d = p * (b * c)
  BY <1>4
<1>6. PICK q \in Nat, r \in 0..(d - 1) : q = n \div d /\ r = n % d /\ n = d * q + r
  BY Division
<1>7. PICK t \in Nat, u \in 0..(p - 1) : t = r \div p /\ r = p * t + u
  BY Division
<1>8. PICK x \in Nat, y \in 0..(b - 1) : x = t \div b /\ y = t % b /\ t = b * x + y
  BY Division
<1>9. n \div p = b * (c * q + x) + y
  <2>1. PICK e \in Nat : e = b * (c * q)
    OBVIOUS
  <2>2. d * q = p * e
    BY <1>5, <2>1
  <2>3. p * (e + t) = p * e + p * t /\ p * e \in Nat /\ p * t \in Nat
    OBVIOUS
  <2>4. n = p * (e + t) + u
    <3>1. PICK v \in Nat : v = p * e
      BY <2>3
    <3>2. PICK w \in Nat : w = p * t
      BY <2>3
    <3>3. n = v + r
      BY <1>6, <2>2, <3>1
    <3>4. r = w + u
      BY <1>7, <3>2
    <3>5. p * (e + t) = v + w
      BY <2>3, <3>1, <3>2
    <3> QED
      BY <3>3, <3>4, <3>5
  <2>5. n \div p = e + t
    <3>1. \A z \in Nat : (p * z + u) \div p = z
      BY DivisionOf
    <3> QED
      BY <2>4, <3>1
  <2>6. b * (c * q + x) = e + b * x /\ b * x \in Nat
    BY <2>1
  <2> QED
    BY <1>8, <2>5, <2>6
<1>10. (n \div p) % b = y
  <2>1. c * q + x \in Nat
    OBVIOUS
  <2>2. \A z \in Nat : (b * z + y) % b = y
    BY DivisionOf
  <2> QED
    BY <1>9, <2>1, <2>2
<1> QED
  BY <1>1, <1>3, <1>5, <1>6, <1>7, <1>8, <1>10 DEF Digit

\* Dividing by a power drops that many digits.
LEMMA DigitOfQuotient ==
  ASSUME NEW b \in Nat \ {0}, NEW n \in Nat, NEW k \in Nat, NEW i \in Nat
  PROVE  Digit(b, n \div Pow(b, k), i) = Digit(b, n, k + i)
<1>1. Pow(b, k) \in Nat \ {0} /\ Pow(b, i) \in Nat \ {0}
  BY PowLaws
<1>2. Pow(b, k + i) = Pow(b, k) * Pow(b, i)
  BY PowLaws
<1>3. (n \div Pow(b, k)) \div Pow(b, i) = n \div (Pow(b, k) * Pow(b, i))
  BY <1>1, DivOfDiv
<1> QED
  BY <1>2, <1>3 DEF Digit

\* A digit of the base b^w is w digits of the base b.
LEMMA DigitOfDigit ==
  ASSUME NEW b \in Nat \ {0}, NEW w \in Nat, NEW n \in Nat, NEW i \in Nat, NEW j \in 0..(w - 1)
  PROVE  Digit(b, Digit(Pow(b, w), n, i), j) = Digit(b, n, w * i + j)
<1>1. Pow(Pow(b, w), i) = Pow(b, w * i)
  BY PowOfPow
<1>2. PICK m \in Nat : m = n \div Pow(b, w * i)
  <2>1. w * i \in Nat
    OBVIOUS
  <2>2. Pow(b, w * i) \in Nat \ {0}
    BY <2>1, PowLaws
  <2> QED
    BY <2>2, Division
<1>3. Digit(Pow(b, w), n, i) = m % Pow(b, w)
  BY <1>1, <1>2 DEF Digit
<1>4. Digit(b, m % Pow(b, w), j) = Digit(b, m, j)
  BY DigitOfRest
<1>5. Digit(b, m, j) = Digit(b, n, w * i + j)
  <2>1. w * i \in Nat /\ j \in Nat
    OBVIOUS
  <2> QED
    BY <1>2, <2>1, DigitOfQuotient
<1> QED
  BY <1>3, <1>4, <1>5

\* A number without digits from a length on is below the power of it.
LEMMA FewDigits ==
  ASSUME NEW b \in Nat \ {0}, NEW k \in Nat, NEW m \in Nat, k <= m,
         NEW n \in 0..(Pow(b, m) - 1), \A i \in k..(m - 1) : Digit(b, n, i) = 0
  PROVE  n < Pow(b, k)
<1>1. Pow(b, k) \in Nat \ {0} /\ Pow(b, m) \in Nat \ {0} /\ Pow(b, k) <= Pow(b, m)
  BY PowLaws, PowGrows
<1>2. n \in Nat
  BY <1>1
<1>3. PICK r \in 0..(Pow(b, k) - 1) : r = n % Pow(b, k)
  BY <1>1, <1>2, Division
<1>4. r \in Nat /\ r < Pow(b, k) /\ r \in 0..(Pow(b, m) - 1)
  BY <1>1
<1>5. ASSUME NEW i \in 0..(m - 1) PROVE Digit(b, n, i) = Digit(b, r, i)
  <2>1. CASE i < k
    <3>1. i \in 0..(k - 1)
      BY <2>1
    <3> QED
      BY <1>2, <1>3, <3>1, DigitOfRest
  <2>2. CASE k <= i
    <3>1. i \in k..(m - 1) /\ i \in Nat
      BY <2>2
    <3>2. Pow(b, k) <= Pow(b, i) /\ Pow(b, i) \in Nat
      BY <2>2, <3>1, PowGrows, PowLaws
    <3>3. r < Pow(b, i)
      BY <1>1, <1>4, <3>2
    <3> QED
      BY <1>4, <3>1, <3>3, DigitBeyond
  <2> QED
    BY <2>1, <2>2
<1>6. n = r
  BY <1>4, <1>5, SameDigits
<1> QED
  BY <1>4, <1>6

-----------------------------------------------------------------------------
(* Bits.                                                                   *)

\* Powers of two.
LEMMA PowOfTwo ==
  /\ \A k \in Nat : Pow(2, k) \in Nat \ {0}
  /\ \A k, m \in Nat : k <= m => Pow(2, k) <= Pow(2, m)
<1>1. 2 \in Nat \ {0}
  OBVIOUS
<1> QED
  BY <1>1, PowLaws, PowGrows

\* The sizes, in the form the provers take them.
LEMMA SizeFacts ==
  /\ ByteBits \in Nat \ {0} /\ WordBytes \in Nat \ {0} /\ BigBytes \in Nat \ {0}
  /\ MaxBytesSize \in Nat \ {0} /\ OperandBytes \in Nat \ {0}
  /\ WordBytes <= BigBytes /\ 2 * BigBytes <= MaxBytesSize /\ OperandBytes <= MaxBytesSize
BY WordsAssumption

\* Bases and limits are powers of two.
LEMMA BaseFacts ==
  /\ Base = Pow(2, ByteBits) /\ Base \in Nat \ {0} /\ Base > 1 /\ ByteBits < Base
  /\ \A k \in Nat : Pow(Base, k) = Pow(2, ByteBits * k)
  /\ WordBits = ByteBits * WordBytes /\ WordBits \in Nat \ {0} /\ WordBits < MaxBits
  /\ MaxBits \in Nat \ {0} /\ MaxBits - 1 = ByteBits * MaxBytesSize
  /\ MaxWord \in Nat /\ MaxWord > 0 /\ MaxWord + 1 = Pow(2, WordBits) /\ WordBits < MaxWord + 1
<1>1. Base = Pow(2, ByteBits) /\ Base \in Nat \ {0} /\ ByteBits < Base
  BY SizeFacts, PowLaws, PowGrows DEF Base
<1>2. \A k \in Nat : Pow(Base, k) = Pow(2, ByteBits * k)
  BY SizeFacts, <1>1, PowOfPow
<1>3. WordBits = ByteBits * WordBytes /\ WordBits \in Nat \ {0}
  BY SizeFacts DEF WordBits
<1>4. ByteBits * WordBytes <= ByteBits * MaxBytesSize
  <2>1. \A x, y \in Nat : x <= y => ByteBits * x <= ByteBits * y
    BY SizeFacts
  <2>2. WordBytes <= MaxBytesSize
    BY SizeFacts
  <2> QED
    BY SizeFacts, <2>1, <2>2
<1>5. ByteBits * MaxBytesSize \in Nat
  BY SizeFacts
<1>6. MaxBits \in Nat \ {0} /\ MaxBits - 1 = ByteBits * MaxBytesSize /\ WordBits < MaxBits
  BY <1>3, <1>4, <1>5 DEF MaxBits
<1>7. Pow(2, WordBits) \in Nat /\ WordBits < Pow(2, WordBits)
  BY <1>3, PowLaws, PowGrows
<1>8. MaxWord \in Nat /\ MaxWord > 0 /\ MaxWord + 1 = Pow(2, WordBits)
  BY <1>3, <1>7 DEF MaxWord
<1> QED
  BY SizeFacts, <1>1, <1>2, <1>3, <1>6, <1>7, <1>8

\* The bits of a number are its digits of base two.
LEMMA BitsAreDigits ==
  ASSUME NEW n \in Nat
  PROVE  /\ BitsOf(n) = {i \in 0..(MaxBits - 1) : Digit(2, n, i) = 1}
         /\ \A i \in Nat : Digit(2, n, i) \in {0, 1}
<1>1. \A i \in 0..(MaxBits - 1) : Bit[i] = Pow(2, i)
  BY DEF Bit
<1>2. \A i \in Nat : Digit(2, n, i) \in {0, 1}
  <2>1. 2 \in Nat \ {0}
    OBVIOUS
  <2>2. \A i \in Nat : Digit(2, n, i) \in 0..(2 - 1)
    BY <2>1, DigitStep
  <2> QED
    BY <2>2
<1> QED
  BY <1>1, <1>2 DEF BitsOf, Digit

\* What the bits make up has them for its bits.
LEMMA FromBitsHas ==
  ASSUME NEW S
  PROVE  /\ FromBits(S) \in 0..(Pow(2, MaxBits) - 1) /\ FromBits(S) \in Nat
         /\ BitsOf(FromBits(S)) = S \cap (0..(MaxBits - 1))
<1> DEFINE s == [k \in 1..MaxBits |-> IF MaxBits - k \in S THEN 1 ELSE 0]
<1>1. MaxBits \in Nat \ {0} /\ Pow(2, MaxBits) \in Nat
  BY BaseFacts, PowLaws
<1>2. s \in Seq(0..(2 - 1)) /\ Len(s) = MaxBits
  BY <1>1
<1>3. \A k \in 1..MaxBits : s[k] = IF MaxBits - k \in S THEN 1 ELSE 0
  OBVIOUS
<1>4. FromBits(S) = Number(2, s)
  BY DEF FromBits
<1> HIDE DEF s
<1>5. /\ Number(2, s) \in 0..(Pow(2, MaxBits) - 1)
      /\ \A i \in Nat : Digit(2, Number(2, s), i) = IF i < Len(s) THEN s[Len(s) - i] ELSE 0
  BY <1>2, NumberDigits
<1>6. FromBits(S) \in Nat
  BY <1>1, <1>4, <1>5
<1>7. ASSUME NEW i \in 0..(MaxBits - 1) PROVE i \in BitsOf(FromBits(S)) <=> i \in S
  <2>1. MaxBits - i \in 1..MaxBits /\ MaxBits - (MaxBits - i) = i /\ i \in Nat /\ i < MaxBits
    BY <1>1
  <2>2. Digit(2, FromBits(S), i) = IF i \in S THEN 1 ELSE 0
    BY <1>2, <1>3, <1>4, <1>5, <2>1
  <2> QED
    BY <1>6, <2>2, BitsAreDigits
<1>8. BitsOf(FromBits(S)) \subseteq 0..(MaxBits - 1)
  BY DEF BitsOf
<1> QED
  BY <1>4, <1>5, <1>6, <1>7, <1>8

\* Numbers with the same bits are the same, and the bits bound the number.
LEMMA SameBits ==
  ASSUME NEW x \in 0..(Pow(2, MaxBits) - 1), NEW y \in 0..(Pow(2, MaxBits) - 1),
         BitsOf(x) = BitsOf(y)
  PROVE  x = y
<1>1. MaxBits \in Nat /\ Pow(2, MaxBits) \in Nat
  BY BaseFacts, PowLaws
<1>2. x \in Nat /\ y \in Nat
  BY <1>1
<1>3. ASSUME NEW i \in 0..(MaxBits - 1) PROVE Digit(2, x, i) = Digit(2, y, i)
  <2>1. i \in Nat /\ (i \in BitsOf(x) <=> i \in BitsOf(y))
    OBVIOUS
  <2> QED
    BY <1>2, <2>1, BitsAreDigits
<1> QED
  BY <1>1, <1>3, SameDigits

\* A number below a power of two has its bits below the exponent.
LEMMA BitsBound ==
  ASSUME NEW k \in 0..MaxBits, NEW n \in 0..(Pow(2, MaxBits) - 1)
  PROVE  n < Pow(2, k) <=> BitsOf(n) \subseteq 0..(k - 1)
<1>1. MaxBits \in Nat /\ Pow(2, MaxBits) \in Nat /\ k \in Nat
  BY BaseFacts, PowLaws
<1>2. n \in Nat
  BY <1>1
<1>3. ASSUME n < Pow(2, k), NEW i \in BitsOf(n) PROVE i \in 0..(k - 1)
  <2>1. i \in Nat /\ Digit(2, n, i) = 1
    BY <1>2, BitsAreDigits
  <2> SUFFICES ASSUME k <= i PROVE FALSE
    BY <2>1, <1>1
  <2>2. Pow(2, k) <= Pow(2, i)
    BY <1>1, <2>1, PowOfTwo
  <2>3. Pow(2, k) \in Nat /\ Pow(2, i) \in Nat
    BY <1>1, <2>1, PowOfTwo
  <2>4. n < Pow(2, i)
    BY <1>2, <1>3, <2>2, <2>3
  <2>5. Digit(2, n, i) = 0
    BY <1>2, <2>1, <2>4, DigitBeyond
  <2> QED
    BY <2>1, <2>5
<1>4. ASSUME BitsOf(n) \subseteq 0..(k - 1) PROVE n < Pow(2, k)
  <2>1. ASSUME NEW i \in k..(MaxBits - 1) PROVE Digit(2, n, i) = 0
    <3>1. i \in Nat /\ i \in 0..(MaxBits - 1) /\ i \notin 0..(k - 1)
      BY <1>1
    <3> QED
      BY <1>2, <1>4, <3>1, BitsAreDigits
  <2> QED
    BY <1>1, <2>1, FewDigits
<1> QED
  BY <1>3, <1>4

\* What an operator does with the bits of two numbers.
Together(op, A, B) ==
  CASE op = "and" -> A \cap B [] op = "or" -> A \cup B [] op = "xor" -> SymDiff(A, B)

\* The operators on bit sets are together, bit for bit.
LEMMA TogetherIsBitwise ==
  ASSUME NEW op \in BitOps, NEW A, NEW B, NEW C, NEW D, NEW i, NEW j,
         i \in A <=> j \in C, i \in B <=> j \in D
  PROVE  i \in Together(op, A, B) <=> j \in Together(op, C, D)
BY DEF BitOps, Together, SymDiff

\* The bits of a combination, that is as long as its operands at most.
LEMMA CombineBits ==
  ASSUME NEW op \in BitOps, NEW x \in Nat, NEW y \in Nat
  PROVE  /\ Combine(op, x, y) \in 0..(Pow(2, MaxBits) - 1) /\ Combine(op, x, y) \in Nat
         /\ BitsOf(Combine(op, x, y)) = Together(op, BitsOf(x), BitsOf(y))
         /\ \A k \in 0..MaxBits :
              x < Pow(2, k) /\ y < Pow(2, k) => Combine(op, x, y) < Pow(2, k)
<1>1. Combine(op, x, y) = FromBits(Together(op, BitsOf(x), BitsOf(y)))
  BY DEF BitOps, Combine, Together, AndBits, OrBits, XorBits
<1>2. Together(op, BitsOf(x), BitsOf(y)) \subseteq BitsOf(x) \cup BitsOf(y)
  BY DEF BitOps, Together, SymDiff
<1>3. BitsOf(x) \cup BitsOf(y) \subseteq 0..(MaxBits - 1)
  BY DEF BitsOf
<1>4. /\ Combine(op, x, y) \in 0..(Pow(2, MaxBits) - 1) /\ Combine(op, x, y) \in Nat
      /\ BitsOf(Combine(op, x, y)) = Together(op, BitsOf(x), BitsOf(y))
  BY <1>1, <1>2, <1>3, FromBitsHas
<1>5. ASSUME NEW k \in 0..MaxBits, x < Pow(2, k), y < Pow(2, k)
      PROVE  Combine(op, x, y) < Pow(2, k)
  <2>1. MaxBits \in Nat /\ k \in Nat
    BY BaseFacts
  <2>2. Pow(2, k) <= Pow(2, MaxBits) /\ Pow(2, k) \in Nat /\ Pow(2, MaxBits) \in Nat
    BY <2>1, PowOfTwo
  <2>3. x \in 0..(Pow(2, MaxBits) - 1) /\ y \in 0..(Pow(2, MaxBits) - 1)
    BY <1>5, <2>2
  <2>4. BitsOf(x) \subseteq 0..(k - 1) /\ BitsOf(y) \subseteq 0..(k - 1)
    BY <1>5, <2>3, BitsBound
  <2>5. BitsOf(Combine(op, x, y)) \subseteq 0..(k - 1)
    BY <1>2, <1>4, <2>4
  <2> QED
    BY <1>4, <2>5, BitsBound
<1> QED
  BY <1>4, <1>5

-----------------------------------------------------------------------------
(* Byte strings and the numbers they stand for.                            *)

\* A position among the bits is a byte, from the last, and a place in it.
LEMMA BytePosition ==
  ASSUME NEW p \in Nat
  PROVE  /\ p \div ByteBits \in Nat /\ p % ByteBits \in 0..(ByteBits - 1)
         /\ p = ByteBits * (p \div ByteBits) + (p % ByteBits)
         /\ \A n \in Nat : p < ByteBits * n <=> p \div ByteBits < n
<1>1. PICK q \in Nat, r \in 0..(ByteBits - 1) :
        q = p \div ByteBits /\ r = p % ByteBits /\ p = ByteBits * q + r
  BY SizeFacts, Division
<1>2. ASSUME NEW n \in Nat PROVE p < ByteBits * n <=> q < n
  <2>1. ByteBits * q \in Nat /\ ByteBits * n \in Nat
    BY SizeFacts
  <2>2. ASSUME q < n PROVE p < ByteBits * n
    <3>1. \A x, y \in Nat : x < y => ByteBits * x + ByteBits <= ByteBits * y
      BY SizeFacts
    <3>2. ByteBits * q + ByteBits <= ByteBits * n
      BY <2>2, <3>1
    <3> QED
      BY SizeFacts, <1>1, <2>1, <3>2
  <2>3. ASSUME n <= q PROVE ByteBits * n <= p
    <3>1. \A x, y \in Nat : x <= y => ByteBits * x <= ByteBits * y
      BY SizeFacts
    <3>2. ByteBits * n <= ByteBits * q
      BY <2>3, <3>1
    <3> QED
      BY <1>1, <2>1, <3>2
  <2> QED
    BY <2>1, <2>2, <2>3
<1> QED
  BY <1>1, <1>2

\* The number of a byte string has its bytes as digits, and their bits as bits.
LEMMA IntOfFacts ==
  ASSUME NEW s \in Seq(Byte)
  PROVE  /\ IntOf(s) \in Nat /\ IntOf(s) < Pow(2, ByteBits * Len(s))
         /\ \A i \in Nat : Digit(Base, IntOf(s), i) = IF i < Len(s) THEN s[Len(s) - i] ELSE 0
         /\ \A i \in Nat : \A j \in 0..(ByteBits - 1) :
              Digit(2, IntOf(s), ByteBits * i + j) =
                IF i < Len(s) THEN Digit(2, s[Len(s) - i], j) ELSE 0
<1>1. Len(s) \in Nat /\ Base \in Nat \ {0} /\ s \in Seq(0..(Base - 1))
  BY BaseFacts DEF Byte
<1>2. /\ Number(Base, s) \in 0..(Pow(Base, Len(s)) - 1)
      /\ \A i \in Nat : Digit(Base, Number(Base, s), i) = IF i < Len(s) THEN s[Len(s) - i] ELSE 0
  BY <1>1, NumberDigits
<1>3. Pow(Base, Len(s)) = Pow(2, ByteBits * Len(s)) /\ Pow(Base, Len(s)) \in Nat
  BY <1>1, BaseFacts, PowLaws
<1>4. IntOf(s) \in Nat /\ IntOf(s) < Pow(2, ByteBits * Len(s))
  BY <1>2, <1>3 DEF IntOf
<1>5. \A i \in Nat : Digit(Base, IntOf(s), i) = IF i < Len(s) THEN s[Len(s) - i] ELSE 0
  BY <1>2 DEF IntOf
<1>6. ASSUME NEW i \in Nat, NEW j \in 0..(ByteBits - 1)
      PROVE  Digit(2, IntOf(s), ByteBits * i + j) =
               IF i < Len(s) THEN Digit(2, s[Len(s) - i], j) ELSE 0
  <2>1. 2 \in Nat \ {0} /\ ByteBits \in Nat /\ Base = Pow(2, ByteBits)
    BY SizeFacts, BaseFacts
  <2>2. Digit(2, Digit(Pow(2, ByteBits), IntOf(s), i), j) = Digit(2, IntOf(s), ByteBits * i + j)
    BY <1>4, <2>1, DigitOfDigit
  <2>3. Digit(2, 0, j) = 0
    <3>1. 0 < Pow(2, j) /\ j \in Nat
      BY PowOfTwo, <2>1
    <3> QED
      BY <2>1, <3>1, DigitBeyond
  <2> QED
    BY <1>5, <2>1, <2>2, <2>3
<1> QED
  BY <1>4, <1>5, <1>6

\* The largest of some bounded numbers.
LEMMA MaxIsLargest ==
  ASSUME NEW n \in Nat, NEW S \in SUBSET (0..n), S # {}
  PROVE  Max(S) \in S /\ \A x \in S : x <= Max(S)
<1> DEFINE T == {n - x : x \in S}
<1>1. T \subseteq Nat /\ T # {}
  <2>1. PICK x \in S : n - x \in T
    OBVIOUS
  <2>2. \A y \in S : n - y \in Nat
    OBVIOUS
  <2> QED
    BY <2>1, <2>2
<1>2. PICK t \in T : \A u \in T : ~(<<u, t>> \in OpToRel(<, Nat))
  BY <1>1, WFMin, NatLessThanWellFounded
<1>3. PICK m \in S : t = n - m
  OBVIOUS
<1>4. ASSUME NEW x \in S PROVE m >= x
  <2> SUFFICES ASSUME ~(m >= x) PROVE FALSE
    OBVIOUS
  <2>1. n - x \in T /\ n - x < t /\ n - x \in Nat /\ t \in Nat
    BY <1>3
  <2>2. <<n - x, t>> \in OpToRel(<, Nat)
    BY <2>1 DEF OpToRel
  <2> QED
    BY <1>2, <2>1, <2>2
<1>5. Max(S) \in S /\ \A x \in S : Max(S) >= x
  <2>1. \E y \in S : \A x \in S : y >= x
    BY <1>4
  <2> HIDE DEF T
  <2> QED
    BY <2>1 DEF Max
<1>6. S \subseteq Nat
  OBVIOUS
<1> QED
  BY <1>5, <1>6

\* The larger and the smaller of two.
LEMMA MaxMinOfTwo ==
  ASSUME NEW a \in Int, NEW b \in Int
  PROVE  /\ Max({a, b}) = IF a >= b THEN a ELSE b
         /\ Min({a, b}) = IF a <= b THEN a ELSE b
<1>1. Max({a, b}) = CHOOSE x \in {a, b} : \A y \in {a, b} : x >= y
  BY DEF Max
<1>2. Min({a, b}) = CHOOSE x \in {a, b} : \A y \in {a, b} : x <= y
  BY DEF Min
<1>3. (CHOOSE x \in {a, b} : \A y \in {a, b} : x >= y) = IF a >= b THEN a ELSE b
  OBVIOUS
<1>4. (CHOOSE x \in {a, b} : \A y \in {a, b} : x <= y) = IF a <= b THEN a ELSE b
  OBVIOUS
<1> QED
  BY <1>1, <1>2, <1>3, <1>4

\* The length of a number is the least in whose power of two it is.
LEMMA BitLengthFacts ==
  ASSUME NEW n \in 0..(Pow(2, MaxBits) - 1)
  PROVE  /\ BitLength(n) \in 0..MaxBits /\ n < Pow(2, BitLength(n))
         /\ \A k \in 0..MaxBits : n < Pow(2, k) => BitLength(n) <= k
<1>1. MaxBits \in Nat \ {0} /\ Pow(2, MaxBits) \in Nat /\ Pow(2, 0) = 1
  BY BaseFacts, PowOfTwo, PowDef
<1>2. CASE n = 0
  BY <1>1, <1>2 DEF BitLength
<1>3. CASE n # 0
  <2>1. BitsOf(n) # {}
    <3> SUFFICES ASSUME BitsOf(n) = {} PROVE FALSE
      OBVIOUS
    <3>1. n < Pow(2, 0)
      BY <1>1, BitsBound
    <3> QED
      BY <1>1, <1>3, <3>1
  <2>2. BitsOf(n) \subseteq 0..(MaxBits - 1) /\ MaxBits - 1 \in Nat
    BY <1>1 DEF BitsOf
  <2>3. Max(BitsOf(n)) \in BitsOf(n) /\ \A i \in BitsOf(n) : i <= Max(BitsOf(n))
    BY <2>1, <2>2, MaxIsLargest
  <2>4. PICK m \in 0..(MaxBits - 1) : m = Max(BitsOf(n)) /\ BitLength(n) = m + 1
    BY <1>3, <2>2, <2>3 DEF BitLength
  <2>5. BitsOf(n) \subseteq 0..((m + 1) - 1) /\ m + 1 \in 0..MaxBits
    BY <1>1, <2>2, <2>3, <2>4
  <2>6. n < Pow(2, m + 1)
    BY <2>5, BitsBound
  <2>7. ASSUME NEW k \in 0..MaxBits, n < Pow(2, k) PROVE m + 1 <= k
    <3>1. m \in 0..(k - 1)
      BY <2>3, <2>4, <2>7, BitsBound
    <3> QED
      BY <1>1, <3>1
  <2> QED
    BY <2>4, <2>5, <2>6, <2>7
<1> QED
  BY <1>2, <1>3

\* The digits of a number that fits stand for it.
LEMMA DigitsFacts ==
  ASSUME NEW n \in Nat, NEW size \in Nat
  PROVE  /\ Digits(n, size) \in Seq(Byte) /\ Len(Digits(n, size)) = size
         /\ \A i \in 0..(size - 1) : Digits(n, size)[size - i] = Digit(Base, n, i)
         /\ n < Pow(2, ByteBits * size) => IntOf(Digits(n, size)) = n
<1>1. Base \in Nat \ {0} /\ Byte = 0..(Base - 1)
  BY BaseFacts DEF Byte
<1>2. \A i \in 1..size : Digits(n, size)[i] = Digit(Base, n, size - i)
  BY DEF Digits, Digit
<1>3. \A i \in 1..size : Digits(n, size)[i] \in Byte
  <2>1. \A i \in 1..size : size - i \in Nat
    OBVIOUS
  <2> QED
    BY <1>1, <1>2, <2>1, DigitStep
<1>4. Digits(n, size) \in [1..size -> Byte]
  <2>1. Digits(n, size) = [i \in 1..size |-> Digits(n, size)[i]]
    BY DEF Digits
  <2> QED
    BY <1>3, <2>1
<1>5. Digits(n, size) \in Seq(Byte) /\ Len(Digits(n, size)) = size
  BY <1>4
<1>6. \A i \in 0..(size - 1) : Digits(n, size)[size - i] = Digit(Base, n, i)
  <2>1. \A i \in 0..(size - 1) : size - i \in 1..size /\ size - (size - i) = i
    OBVIOUS
  <2> QED
    BY <1>2, <2>1
<1>7. ASSUME n < Pow(2, ByteBits * size) PROVE IntOf(Digits(n, size)) = n
  <2>1. PICK m \in Nat : m = IntOf(Digits(n, size))
    BY <1>5, IntOfFacts
  <2>2. Pow(Base, size) = Pow(2, ByteBits * size) /\ Pow(Base, size) \in Nat
    BY <1>1, BaseFacts, PowLaws
  <2>3. m \in 0..(Pow(Base, size) - 1) /\ n \in 0..(Pow(Base, size) - 1)
    BY <1>5, <1>7, <2>1, <2>2, IntOfFacts
  <2>4. ASSUME NEW i \in 0..(size - 1) PROVE Digit(Base, m, i) = Digit(Base, n, i)
    <3>1. Digit(Base, m, i) = Digits(n, size)[size - i]
      BY <1>5, <2>1, IntOfFacts
    <3> QED
      BY <1>6, <3>1
  <2> QED
    BY <1>1, <2>1, <2>3, <2>4, SameDigits
<1> QED
  BY <1>5, <1>6, <1>7

\* How many bytes some bits take.
BytesFor(bits) == (bits + ByteBits - 1) \div ByteBits

\* It is the least number of bytes.
LEMMA BytesForFacts ==
  ASSUME NEW bits \in Nat
  PROVE  /\ BytesFor(bits) \in Nat /\ bits <= ByteBits * BytesFor(bits)
         /\ \A k \in Nat : bits <= ByteBits * k => BytesFor(bits) <= k
<1>1. bits + ByteBits - 1 \in Nat /\ ByteBits \in Nat \ {0}
  BY SizeFacts
<1>2. PICK q \in Nat, r \in 0..(ByteBits - 1) :
        /\ q = (bits + ByteBits - 1) \div ByteBits /\ r = (bits + ByteBits - 1) % ByteBits
        /\ bits + ByteBits - 1 = ByteBits * q + r
  BY <1>1, Division
<1>3. ByteBits * q \in Nat /\ bits <= ByteBits * q
  BY <1>1, <1>2
<1>4. ASSUME NEW k \in Nat, bits <= ByteBits * k PROVE q <= k
  <2> SUFFICES ASSUME k < q PROVE FALSE
    OBVIOUS
  <2>1. \A x, y \in Nat : x < y => ByteBits * x + ByteBits <= ByteBits * y
    BY <1>1
  <2>2. ByteBits * k + ByteBits <= ByteBits * q /\ ByteBits * k \in Nat
    BY <1>1, <2>1
  <2> QED
    BY <1>1, <1>2, <1>3, <1>4, <2>2
<1> QED
  BY <1>2, <1>3, <1>4 DEF BytesFor

\* int_to_bytes makes bytes that stand for the number, as few as do and as are asked for.
LEMMA IntToBytesFacts ==
  ASSUME NEW n \in 0..(Pow(2, MaxBits) - 1), NEW pad_to \in Nat
  PROVE  /\ IntToBytes(n, pad_to) \in Seq(Byte) /\ IntOf(IntToBytes(n, pad_to)) = n
         /\ pad_to <= Len(IntToBytes(n, pad_to))
         /\ \A k \in 0..MaxBytesSize :
              pad_to <= k /\ n < Pow(2, ByteBits * k) => Len(IntToBytes(n, pad_to)) <= k
<1>1. MaxBits \in Nat \ {0} /\ Pow(2, MaxBits) \in Nat /\ n \in Nat
  BY BaseFacts, PowOfTwo
<1>2. PICK bits \in 0..MaxBits : bits = BitLength(n)
  BY BitLengthFacts
<1>3. n < Pow(2, bits) /\ bits \in Nat
  BY <1>1, <1>2, BitLengthFacts
<1>10. PICK l \in Nat : l = BytesFor(bits)
  BY <1>3, BytesForFacts
<1>11. Max({pad_to, l}) = IF pad_to >= l THEN pad_to ELSE l
  BY MaxMinOfTwo
<1>4. PICK size \in Nat : size = Max({pad_to, BytesFor(bits)})
  BY <1>10, <1>11
<1>5. pad_to <= size /\ BytesFor(bits) <= size /\ BytesFor(bits) \in Nat
  <2>1. size = Max({pad_to, l})
    BY <1>4, <1>10, Zenon
  <2>2. pad_to <= size /\ l <= size
    BY <1>11, <2>1
  <2> QED
    BY <1>10, <2>2
<1>6. IntToBytes(n, pad_to) = Digits(n, size)
  BY <1>2, <1>4 DEF IntToBytes, BytesFor
<1>7. n < Pow(2, ByteBits * size)
  <2>1. bits <= ByteBits * BytesFor(bits)
    BY <1>3, BytesForFacts
  <2>2. ByteBits * BytesFor(bits) <= ByteBits * size
    BY <1>5, SizeFacts
  <2>3. bits <= ByteBits * size /\ ByteBits * size \in Nat
    BY <1>3, <1>5, <2>1, <2>2, SizeFacts
  <2>4. Pow(2, bits) <= Pow(2, ByteBits * size)
    BY <1>3, <2>3, PowOfTwo
  <2>5. Pow(2, bits) \in Nat /\ Pow(2, ByteBits * size) \in Nat
    BY <1>3, <2>3, PowOfTwo
  <2> QED
    BY <1>1, <1>3, <2>4, <2>5
<1>8. ASSUME NEW k \in 0..MaxBytesSize, pad_to <= k, n < Pow(2, ByteBits * k) PROVE size <= k
  <2>1. MaxBytesSize \in Nat /\ ByteBits \in Nat /\ MaxBits = ByteBits * MaxBytesSize + 1
    BY SizeFacts DEF MaxBits
  <2>2. ByteBits * k \in 0..MaxBits
    <3>1. ByteBits * k <= ByteBits * MaxBytesSize
      BY <2>1
    <3>2. ByteBits * k \in Nat /\ ByteBits * MaxBytesSize \in Nat
      BY <2>1
    <3> QED
      BY <2>1, <3>1, <3>2
  <2>3. bits <= ByteBits * k
    BY <1>2, <1>8, <2>2, BitLengthFacts
  <2>4. BytesFor(bits) <= k
    BY <1>3, <2>1, <2>3, BytesForFacts
  <2>5. PICK m \in Nat : m = BytesFor(bits) /\ m <= k
    BY <1>5, <2>4
  <2>6. size = Max({pad_to, m})
    BY <1>4, <2>5, Zenon
  <2>7. size = IF pad_to >= m THEN pad_to ELSE m
    BY <2>6, MaxMinOfTwo
  <2> QED
    BY <1>8, <2>5, <2>7
<1>9. Digits(n, size) \in Seq(Byte) /\ Len(Digits(n, size)) = size /\ IntOf(Digits(n, size)) = n
  BY <1>1, <1>7, DigitsFacts
<1> QED
  BY <1>5, <1>6, <1>8, <1>9

\* A byte string of Bytes, as a sequence.
LEMMA TextsFacts ==
  ASSUME NEW n \in Nat
  PROVE  \A s : s \in Texts(n) <=> s \in Seq(Byte) /\ Len(s) <= n
<1>1. ASSUME NEW s \in Texts(n) PROVE s \in Seq(Byte) /\ Len(s) <= n
  <2>1. PICK k \in 0..n : s \in [1..k -> Byte]
    BY DEF Texts
  <2>2. k \in Nat /\ k <= n
    OBVIOUS
  <2>3. s \in Seq(Byte) /\ Len(s) = k
    BY <2>1, <2>2
  <2> QED
    BY <2>2, <2>3
<1>2. ASSUME NEW s \in Seq(Byte), Len(s) <= n PROVE s \in Texts(n)
  <2>1. Len(s) \in 0..n /\ s \in [1..Len(s) -> Byte]
    BY <1>2, LenProperties
  <2> QED
    BY <2>1 DEF Texts
<1> QED
  BY <1>1, <1>2

\* A byte is a small number.
LEMMA ByteFacts ==
  /\ \A x \in Byte : x \in Nat /\ x < Pow(2, ByteBits) /\ x \in 0..(Pow(2, MaxBits) - 1)
  /\ 0 \in Byte /\ Base - 1 \in Byte /\ ByteBits \in 0..MaxBits
<1>1. MaxBits - 1 = ByteBits * MaxBytesSize /\ ByteBits \in Nat \ {0} /\ MaxBytesSize \in Nat \ {0}
  BY SizeFacts, BaseFacts
<1>2. ByteBits <= ByteBits * MaxBytesSize /\ ByteBits * MaxBytesSize \in Nat
  BY <1>1
<1>3. MaxBits \in Nat /\ ByteBits <= MaxBits
  BY <1>1, <1>2, BaseFacts
<1>4. Pow(2, ByteBits) <= Pow(2, MaxBits) /\ Pow(2, MaxBits) \in Nat /\ Pow(2, ByteBits) \in Nat
  BY <1>1, <1>3, PowOfTwo
<1>5. Base = Pow(2, ByteBits) /\ Base \in Nat \ {0}
  BY BaseFacts
<1> QED
  BY <1>1, <1>3, <1>4, <1>5 DEF Byte

\* Zeros before a byte string.
LEMMA PaddedFacts ==
  ASSUME NEW s \in Seq(Byte), NEW n \in Nat, Len(s) <= n
  PROVE  \A i \in 0..(n - 1) : Padded(s, n)[n - i] = IF i < Len(s) THEN s[Len(s) - i] ELSE 0
<1>1. Len(s) \in Nat
  OBVIOUS
<1> SUFFICES ASSUME NEW i \in 0..(n - 1)
             PROVE  Padded(s, n)[n - i] = IF i < Len(s) THEN s[Len(s) - i] ELSE 0
  OBVIOUS
<1>2. n - i \in 1..n /\ (n - i) - (n - Len(s)) = Len(s) - i
  BY <1>1
<1>3. Padded(s, n)[n - i] =
        IF n - i <= n - Len(s) THEN 0 ELSE s[(n - i) - (n - Len(s))]
  BY <1>2 DEF Padded
<1> QED
  BY <1>1, <1>2, <1>3

\* What is padded has bytes.
LEMMA PaddedByte ==
  ASSUME NEW s \in Seq(Byte), NEW n \in Nat, Len(s) <= n, NEW i \in 1..n
  PROVE  Padded(s, n)[i] \in Byte
<1>1. n - i \in 0..(n - 1) /\ n - (n - i) = i /\ Len(s) \in Nat
  OBVIOUS
<1>2. Padded(s, n)[i] = IF n - i < Len(s) THEN s[Len(s) - (n - i)] ELSE 0
  BY <1>1, PaddedFacts
<1>3. n - i < Len(s) => Len(s) - (n - i) \in 1..Len(s)
  BY <1>1
<1> QED
  BY <1>2, <1>3, ByteFacts

\* The longer operand's length, and byte by byte from the last one.
LEMMA BitwiseFacts ==
  ASSUME NEW op \in BitOps, NEW s \in Seq(Byte), NEW t \in Seq(Byte)
  PROVE  /\ Bitwise(op, s, t) \in Seq(Byte)
         /\ Len(Bitwise(op, s, t)) = IF Len(s) >= Len(t) THEN Len(s) ELSE Len(t)
         /\ \A i \in 0..(Len(Bitwise(op, s, t)) - 1) :
              Bitwise(op, s, t)[Len(Bitwise(op, s, t)) - i]
                = Combine(op, IF i < Len(s) THEN s[Len(s) - i] ELSE 0,
                              IF i < Len(t) THEN t[Len(t) - i] ELSE 0)
<1>1. Len(s) \in Nat /\ Len(t) \in Nat
  OBVIOUS
<1>2. PICK n \in Nat : /\ n = Max({Len(s), Len(t)})
                       /\ n = (IF Len(s) >= Len(t) THEN Len(s) ELSE Len(t))
  BY <1>1, MaxMinOfTwo
<1>3. Len(s) <= n /\ Len(t) <= n
  BY <1>1, <1>2
<1>4. Bitwise(op, s, t) = [i \in 1..n |-> Combine(op, Padded(s, n)[i], Padded(t, n)[i])]
  BY <1>2 DEF Bitwise
<1>5. ASSUME NEW i \in 1..n PROVE Combine(op, Padded(s, n)[i], Padded(t, n)[i]) \in Byte
  <2>1. Padded(s, n)[i] \in Byte /\ Padded(t, n)[i] \in Byte
    BY <1>3, PaddedByte
  <2>2. PICK x \in Nat, y \in Nat : x = Padded(s, n)[i] /\ y = Padded(t, n)[i]
    BY <2>1, ByteFacts
  <2>3. x < Pow(2, ByteBits) /\ y < Pow(2, ByteBits)
    BY <2>1, <2>2, ByteFacts
  <2>4. Combine(op, x, y) \in Nat /\ Combine(op, x, y) < Pow(2, ByteBits)
    BY <2>3, ByteFacts, CombineBits
  <2> QED
    BY <2>2, <2>4, BaseFacts DEF Byte
<1>6. Bitwise(op, s, t) \in [1..n -> Byte]
  BY <1>4, <1>5
<1>7. Bitwise(op, s, t) \in Seq(Byte) /\ Len(Bitwise(op, s, t)) = n
  BY <1>6
<1>8. ASSUME NEW i \in 0..(n - 1)
      PROVE  Bitwise(op, s, t)[n - i] = Combine(op, IF i < Len(s) THEN s[Len(s) - i] ELSE 0,
                                                    IF i < Len(t) THEN t[Len(t) - i] ELSE 0)
  <2>1. n - i \in 1..n
    OBVIOUS
  <2>2. Bitwise(op, s, t)[n - i] = Combine(op, Padded(s, n)[n - i], Padded(t, n)[n - i])
    BY <1>4, <2>1
  <2> QED
    BY <1>3, <2>2, PaddedFacts
<1> QED
  BY <1>2, <1>7, <1>8

\* A byte string has no more bits than there are.
LEMMA IntOfBound ==
  ASSUME NEW s \in Seq(Byte), Len(s) <= MaxBytesSize
  PROVE  /\ ByteBits * Len(s) \in 0..MaxBits
         /\ IntOf(s) \in 0..(Pow(2, MaxBits) - 1)
<1>1. Len(s) \in Nat /\ ByteBits \in Nat /\ MaxBytesSize \in Nat
  BY SizeFacts
<1>2. ByteBits * Len(s) \in 0..MaxBits /\ MaxBits \in Nat
  <2>1. ByteBits * Len(s) <= ByteBits * MaxBytesSize
    BY <1>1
  <2>2. ByteBits * Len(s) \in Nat /\ ByteBits * MaxBytesSize \in Nat
    BY <1>1
  <2> QED
    BY <2>1, <2>2 DEF MaxBits
<1>3. ByteBits * Len(s) \in Nat /\ ByteBits * Len(s) <= MaxBits
  BY <1>2
<1>4. Pow(2, ByteBits * Len(s)) <= Pow(2, MaxBits)
  BY <1>2, <1>3, PowOfTwo
<1>5. Pow(2, ByteBits * Len(s)) \in Nat /\ Pow(2, MaxBits) \in Nat
  BY <1>2, <1>3, PowOfTwo
<1>6. IntOf(s) \in Nat /\ IntOf(s) < Pow(2, ByteBits * Len(s))
  BY IntOfFacts
<1> QED
  BY <1>2, <1>4, <1>5, <1>6

\* Zero has no bit set.
LEMMA NoBitsInZero == BitsOf(0) = {}
<1>1. ASSUME NEW i \in Nat PROVE Digit(2, 0, i) = 0
  <2>1. 2 \in Nat \ {0} /\ 0 < Pow(2, i)
    BY PowOfTwo
  <2> QED
    BY <2>1, DigitBeyond
<1> QED
  BY <1>1, BitsAreDigits

\* The byte so far from the end, zero before the first one.
FromEnd(s, i) == IF i < Len(s) THEN s[Len(s) - i] ELSE 0

\* A bit of the number is one of the byte it is in.
LEMMA IntOfBit ==
  ASSUME NEW s \in Seq(Byte), NEW p \in 0..(MaxBits - 1)
  PROVE  /\ FromEnd(s, p \div ByteBits) \in Byte
         /\ p \in BitsOf(IntOf(s)) <=> p % ByteBits \in BitsOf(FromEnd(s, p \div ByteBits))
<1>1. PICK i \in Nat, j \in 0..(ByteBits - 1) :
        i = p \div ByteBits /\ j = p % ByteBits /\ p = ByteBits * i + j
  BY BytePosition
<1>2. FromEnd(s, i) \in Byte
  <2>1. Len(s) \in Nat /\ (i < Len(s) => Len(s) - i \in 1..Len(s))
    OBVIOUS
  <2> QED
    BY <2>1, ByteFacts DEF FromEnd
<1>3. IntOf(s) \in Nat /\ FromEnd(s, i) \in Nat
  BY <1>2, IntOfFacts, ByteFacts
<1>4. j \in 0..(MaxBits - 1)
  BY SizeFacts, ByteFacts, BaseFacts
<1>5. Digit(2, FromEnd(s, i), j) = Digit(2, IntOf(s), ByteBits * i + j)
  <2>1. Digit(2, 0, j) = 0
    <3>1. 2 \in Nat \ {0} /\ j \in Nat
      OBVIOUS
    <3>2. 0 < Pow(2, j)
      BY <3>1, PowOfTwo
    <3> QED
      BY <3>1, <3>2, DigitBeyond
  <2> QED
    BY <2>1, IntOfFacts DEF FromEnd
<1>6. j \in BitsOf(FromEnd(s, i)) <=> Digit(2, FromEnd(s, i), j) = 1
  BY <1>3, <1>4, BitsAreDigits
<1>7. p \in BitsOf(IntOf(s)) <=> Digit(2, IntOf(s), p) = 1
  BY <1>3, BitsAreDigits
<1> QED
  BY <1>1, <1>2, <1>5, <1>6, <1>7

\* The bitwise operators on byte strings are those on the numbers they stand for.
THEOREM BitwiseOnNumbers ==
  ASSUME NEW op \in BitOps, NEW s \in Texts(MaxBytesSize), NEW t \in Texts(MaxBytesSize)
  PROVE  IntOf(Bitwise(op, s, t)) = Combine(op, IntOf(s), IntOf(t))
<1>1. /\ s \in Seq(Byte) /\ t \in Seq(Byte) /\ Len(s) <= MaxBytesSize /\ Len(t) <= MaxBytesSize
      /\ MaxBytesSize \in Nat
  BY SizeFacts, TextsFacts
<1>2. PICK r \in Seq(Byte) :
        /\ r = Bitwise(op, s, t)
        /\ Len(r) = IF Len(s) >= Len(t) THEN Len(s) ELSE Len(t)
        /\ \A i \in 0..(Len(r) - 1) : FromEnd(r, i) = Combine(op, FromEnd(s, i), FromEnd(t, i))
  <2>1. \A i \in 0..(Len(Bitwise(op, s, t)) - 1) : i < Len(Bitwise(op, s, t))
    <3>1. Len(Bitwise(op, s, t)) \in Nat
      BY <1>1, BitwiseFacts
    <3> QED
      BY <3>1
  <2> QED
    BY <1>1, <2>1, BitwiseFacts DEF FromEnd
<1>3. Len(r) <= MaxBytesSize /\ Len(r) \in Nat /\ Len(s) \in Nat /\ Len(t) \in Nat
  BY <1>1, <1>2
<1>4. PICK x \in Nat, y \in Nat : x = IntOf(s) /\ y = IntOf(t)
  BY <1>1, IntOfFacts
<1>5. ASSUME NEW p \in 0..(MaxBits - 1)
      PROVE  p \in BitsOf(IntOf(r)) <=> p \in Together(op, BitsOf(x), BitsOf(y))
  <2>1. PICK i \in Nat, j \in Nat : i = p \div ByteBits /\ j = p % ByteBits
    BY BytePosition
  <2>2. FromEnd(s, i) \in Nat /\ FromEnd(t, i) \in Nat
    BY <1>1, <2>1, IntOfBit, ByteFacts
  <2>3. /\ p \in BitsOf(x) <=> j \in BitsOf(FromEnd(s, i))
        /\ p \in BitsOf(y) <=> j \in BitsOf(FromEnd(t, i))
        /\ p \in BitsOf(IntOf(r)) <=> j \in BitsOf(FromEnd(r, i))
    BY <1>1, <1>4, <2>1, IntOfBit
  <2>4. CASE i < Len(r)
    <3>1. FromEnd(r, i) = Combine(op, FromEnd(s, i), FromEnd(t, i))
      BY <1>2, <1>3, <2>4
    <3>2. BitsOf(FromEnd(r, i)) = Together(op, BitsOf(FromEnd(s, i)), BitsOf(FromEnd(t, i)))
      BY <2>2, <3>1, CombineBits
    <3> QED
      BY <2>3, <3>2, TogetherIsBitwise
  <2>5. CASE ~(i < Len(r))
    <3>1. FromEnd(r, i) = 0 /\ FromEnd(s, i) = 0 /\ FromEnd(t, i) = 0
      BY <1>2, <1>3, <2>5 DEF FromEnd
    <3>2. p \notin BitsOf(x) /\ p \notin BitsOf(y) /\ p \notin BitsOf(IntOf(r))
      BY <2>3, <3>1, NoBitsInZero
    <3> QED
      BY <3>2 DEF BitOps, Together, SymDiff
  <2> QED
    BY <2>4, <2>5
<1>6. BitsOf(IntOf(r)) = Together(op, BitsOf(x), BitsOf(y))
  <2>1. BitsOf(IntOf(r)) \subseteq 0..(MaxBits - 1)
    BY DEF BitsOf
  <2>2. Together(op, BitsOf(x), BitsOf(y)) \subseteq 0..(MaxBits - 1)
    BY DEF BitsOf, BitOps, Together, SymDiff
  <2> QED
    BY <1>5, <2>1, <2>2
<1>7. IntOf(r) \in 0..(Pow(2, MaxBits) - 1)
  BY <1>3, IntOfBound
<1>8. /\ Combine(op, x, y) \in 0..(Pow(2, MaxBits) - 1)
      /\ BitsOf(Combine(op, x, y)) = BitsOf(IntOf(r))
  BY <1>6, CombineBits
<1> QED
  BY <1>2, <1>4, <1>7, <1>8, SameBits

-----------------------------------------------------------------------------
(* Slices and what else makes byte strings of byte strings.                *)

\* A bound is counted from the start, or from the end, and is one of the string.
LEMMA BoundFacts ==
  ASSUME NEW s \in Seq(Byte), NEW i \in Int
  PROVE  /\ Bound(s, i) \in 0..Len(s)
         /\ i \in 0..Len(s) => Bound(s, i) = i
         /\ i > Len(s) => Bound(s, i) = Len(s)
<1>1. Len(s) \in Nat /\ Len(s) + i \in Int
  OBVIOUS
<1>2. Max({0, Len(s) + i}) = (IF 0 >= Len(s) + i THEN 0 ELSE Len(s) + i)
  BY <1>1, MaxMinOfTwo
<1>3. Min({i, Len(s)}) = (IF i <= Len(s) THEN i ELSE Len(s))
  <2>1. Len(s) \in Int
    BY <1>1
  <2> QED
    BY <2>1, MaxMinOfTwo
<1> QED
  BY <1>1, <1>2, <1>3 DEF Bound

\* A part of a byte string.
LEMMA SubSeqFacts ==
  ASSUME NEW s \in Seq(Byte), NEW m \in 0..Len(s), NEW n \in 0..Len(s)
  PROVE  /\ SubSeq(s, m + 1, n) \in Seq(Byte)
         /\ Len(SubSeq(s, m + 1, n)) = IF m <= n THEN n - m ELSE 0
         /\ \A k \in 1..(n - m) : SubSeq(s, m + 1, n)[k] = s[m + k]
<1>1. Len(s) \in Nat /\ m \in Nat /\ n \in Nat /\ m + 1 \in Int
  OBVIOUS
<1>2. \A i \in (m + 1)..n : s[i] \in Byte
  BY <1>1
<1>3. /\ SubSeq(s, m + 1, n) \in Seq(Byte)
      /\ Len(SubSeq(s, m + 1, n)) = IF m + 1 <= n THEN n - (m + 1) + 1 ELSE 0
      /\ \A i \in 1..(n - (m + 1) + 1) : SubSeq(s, m + 1, n)[i] = s[(m + 1) + i - 1]
  BY <1>1, <1>2, SubSeqProperties
<1>4. n - (m + 1) + 1 = n - m /\ \A i \in Int : (m + 1) + i - 1 = m + i
  BY <1>1
<1> QED
  BY <1>1, <1>3, <1>4

\* A slice is a byte string no longer than the one it is of.
LEMMA SliceFacts ==
  ASSUME NEW s \in Seq(Byte), NEW i \in Int, NEW j \in Int
  PROVE  /\ Slice(s, i, j) \in Seq(Byte) /\ Len(Slice(s, i, j)) <= Len(s)
         /\ i \in 0..Len(s) /\ j \in i..Len(s) =>
              /\ Len(Slice(s, i, j)) = j - i
              /\ \A k \in 1..(j - i) : Slice(s, i, j)[k] = s[i + k]
<1>1. PICK m \in 0..Len(s), n \in 0..Len(s) : m = Bound(s, i) /\ n = Bound(s, j)
  BY BoundFacts
<1>2. Slice(s, i, j) = SubSeq(s, m + 1, n)
  BY <1>1 DEF Slice
<1>3. Len(s) \in Nat
  OBVIOUS
<1>4. Slice(s, i, j) \in Seq(Byte) /\ Len(Slice(s, i, j)) <= Len(s)
  BY <1>2, <1>3, SubSeqFacts
<1>5. ASSUME i \in 0..Len(s), j \in i..Len(s)
      PROVE  /\ Len(Slice(s, i, j)) = j - i
             /\ \A k \in 1..(j - i) : Slice(s, i, j)[k] = s[i + k]
  <2>1. m = i /\ n = j /\ i <= j
    BY <1>1, <1>3, <1>5, BoundFacts
  <2> QED
    BY <1>2, <2>1, SubSeqFacts
<1> QED
  BY <1>4, <1>5

\* A byte string turned round.
LEMMA ReverseFacts ==
  ASSUME NEW s \in Seq(Byte)
  PROVE  /\ Reverse(s) \in Seq(Byte) /\ Len(Reverse(s)) = Len(s)
         /\ \A i \in 1..Len(s) : Reverse(s)[i] = s[Len(s) - i + 1]
<1>1. Len(s) \in Nat
  OBVIOUS
<1>2. Reverse(s) = [i \in 1..Len(s) |-> s[(Len(s) - i) + 1]]
  BY DEF Reverse
<1>3. \A i \in 1..Len(s) : (Len(s) - i) + 1 \in 1..Len(s)
  BY <1>1
<1>4. Reverse(s) \in [1..Len(s) -> Byte]
  BY <1>2, <1>3
<1> QED
  BY <1>1, <1>2, <1>4

\* An index gives a byte string no longer than the one it is taken from.
LEMMA ItemFacts ==
  ASSUME NEW s \in Seq(Byte), NEW i \in Int
  PROVE  Item(s, i) \in Seq(Byte) /\ Len(Item(s, i)) <= Len(s)
<1>1. Len(s) \in Nat /\ Len(s) + i \in Int
  OBVIOUS
<1>2. PICK j \in Int : j = IF i < 0 THEN Len(s) + i ELSE i
  BY <1>1
<1> QED
  BY <1>2, SliceFacts DEF Item

\* A concatenation is checked for its length.
LEMMA ConcatFacts ==
  ASSUME NEW s \in Seq(Byte), NEW t \in Seq(Byte)
  PROVE  Concat(s, t) \subseteq Texts(MaxBytesSize) /\ Concat(s, t) \subseteq {s \o t}
<1>1. s \o t \in Seq(Byte)
  OBVIOUS
<1> QED
  BY <1>1, SizeFacts, TextsFacts DEF Concat, AsBytes

\* Inverting keeps the length.
LEMMA InvertBytesFacts ==
  ASSUME NEW s \in Seq(Byte)
  PROVE  InvertBytes(s) \in Seq(Byte) /\ Len(InvertBytes(s)) = Len(s)
<1>1. \A i \in 1..Len(s) : Base - 1 - s[i] \in Byte
  <2>1. \A x \in Byte : Base - 1 - x \in Byte
    BY BaseFacts DEF Byte
  <2> QED
    BY <2>1
<1>2. InvertBytes(s) \in [1..Len(s) -> Byte] /\ Len(s) \in Nat
  BY <1>1 DEF InvertBytes
<1> QED
  BY <1>2

\* extract, substring and replace of what is inside, and of what is not.
LEMMA ExtractFacts ==
  ASSUME NEW s \in Seq(Byte), NEW i \in Nat, NEW n \in Nat, NEW literal \in BOOLEAN
  PROVE  extract(s, i, n, literal) =
           IF i > Len(s) \/ (i + n > Len(s) /\ ~(literal /\ n = 0)) THEN {}
           ELSE {Slice(s, i, IF literal /\ n = 0 THEN Len(s) ELSE i + n)}
<1>1. Len(s) \in Nat
  OBVIOUS
<1> QED
  BY <1>1 DEF extract

\* What substring returns, and when it raises.
LEMMA SubstringFacts ==
  ASSUME NEW s \in Seq(Byte), NEW i \in Nat, NEW j \in Nat
  PROVE  substring(s, i, j) = IF i <= j /\ j <= Len(s) THEN {Slice(s, i, j)} ELSE {}
<1>1. Len(s) \in Nat
  OBVIOUS
<1>2. AsInt(i, j) = (IF i <= j THEN {i} ELSE {})
  BY DEF AsInt
<1>3. AsInt(j, Len(s)) = (IF j <= Len(s) THEN {j} ELSE {})
  BY <1>1 DEF AsInt
<1> QED
  BY <1>2, <1>3 DEF substring

\* What replace returns is as long, and has the new bytes where they were put.
LEMMA ReplaceFacts ==
  ASSUME NEW s \in Texts(MaxBytesSize), NEW i \in Nat, NEW t \in Seq(Byte)
  PROVE  /\ i + Len(t) > Len(s) => replace(s, i, t) = {}
         /\ i + Len(t) <= Len(s) => \E r \in Seq(Byte) :
              /\ replace(s, i, t) = {r} /\ Len(r) = Len(s)
              /\ \A k \in 1..Len(s) :
                   r[k] = IF k \in (i + 1)..(i + Len(t)) THEN t[k - i] ELSE s[k]
<1>1. s \in Seq(Byte) /\ Len(s) <= MaxBytesSize /\ Len(s) \in Nat /\ Len(t) \in Nat
  BY SizeFacts, TextsFacts
<1>2. ASSUME i + Len(t) > Len(s) PROVE replace(s, i, t) = {}
  BY <1>2 DEF replace
<1>3. ASSUME i + Len(t) <= Len(s)
      PROVE  \E r \in Seq(Byte) :
               /\ replace(s, i, t) = {r} /\ Len(r) = Len(s)
               /\ \A k \in 1..Len(s) :
                    r[k] = IF k \in (i + 1)..(i + Len(t)) THEN t[k - i] ELSE s[k]
  <2>1. i \in 0..Len(s) /\ i + Len(t) \in 0..Len(s) /\ 0 \in 0..Len(s)
    BY <1>1, <1>3
  <2>2. PICK u \in Seq(Byte) : /\ u = Slice(s, 0, i) /\ Len(u) = i
                               /\ \A k \in 1..i : u[k] = s[k]
    <3>1. i \in 0..Len(s) /\ i - 0 = i /\ \A k \in Int : 0 + k = k
      BY <2>1
    <3> QED
      BY <1>1, <2>1, <3>1, SliceFacts
  <2>3. PICK v \in Seq(Byte) :
          /\ v = Slice(s, i + Len(t), Len(s)) /\ Len(v) = Len(s) - (i + Len(t))
          /\ \A k \in 1..(Len(s) - (i + Len(t))) : v[k] = s[(i + Len(t)) + k]
    <3>1. i + Len(t) \in 0..Len(s) /\ Len(s) \in (i + Len(t))..Len(s)
      BY <1>1, <2>1
    <3> QED
      BY <1>1, <3>1, SliceFacts
  <2>4. PICK x \in Seq(Byte) :
          /\ x = u \o t /\ Len(x) = i + Len(t)
          /\ \A k \in 1..(i + Len(t)) : x[k] = IF k <= i THEN u[k] ELSE t[k - i]
    <3>1. /\ u \o t \in Seq(Byte) /\ Len(u \o t) = Len(u) + Len(t)
          /\ \A k \in 1..(Len(u) + Len(t)) :
               (u \o t)[k] = IF k <= Len(u) THEN u[k] ELSE t[k - Len(u)]
      BY ConcatProperties
    <3>2. Len(u) = i
      BY <2>2
    <3> QED
      BY <3>1, <3>2
  <2>5. PICK r \in Seq(Byte) :
          /\ r = x \o v /\ Len(r) = Len(s)
          /\ \A k \in 1..Len(s) : r[k] = IF k <= i + Len(t) THEN x[k] ELSE v[k - (i + Len(t))]
    <3>1. /\ x \o v \in Seq(Byte) /\ Len(x \o v) = Len(x) + Len(v)
          /\ \A k \in 1..(Len(x) + Len(v)) :
               (x \o v)[k] = IF k <= Len(x) THEN x[k] ELSE v[k - Len(x)]
      BY ConcatProperties
    <3>2. Len(x) = i + Len(t) /\ Len(x) + Len(v) = Len(s)
      BY <1>1, <2>3, <2>4
    <3> QED
      BY <3>1, <3>2
  <2>6. replace(s, i, t) = {r}
    <3>1. ~(i + Len(t) > Len(s))
      BY <1>1, <1>3
    <3>2. replace(s, i, t) = Concat(Slice(s, 0, i) \o t, Slice(s, i + Len(t), Len(s)))
      BY <3>1 DEF replace
    <3>3. replace(s, i, t) = AsBytes(r)
      BY <2>2, <2>3, <2>4, <2>5, <3>2 DEF Concat
    <3> QED
      BY <1>1, <2>5, <3>3 DEF AsBytes
  <2>7. ASSUME NEW k \in 1..Len(s)
        PROVE  r[k] = IF k \in (i + 1)..(i + Len(t)) THEN t[k - i] ELSE s[k]
    <3>1. CASE k <= i
      BY <1>1, <2>2, <2>4, <2>5, <3>1
    <3>2. CASE k > i /\ k <= i + Len(t)
      BY <1>1, <2>4, <2>5, <3>2
    <3>3. CASE k > i + Len(t)
      <4>1. k - (i + Len(t)) \in 1..(Len(s) - (i + Len(t))) /\ (i + Len(t)) + (k - (i + Len(t))) = k
        BY <1>1, <3>3
      <4> QED
        BY <1>1, <2>3, <2>5, <3>3, <4>1
    <3> QED
      BY <1>1, <3>1, <3>2, <3>3
  <2> QED
    BY <2>5, <2>6, <2>7
<1> QED
  BY <1>2, <1>3

-----------------------------------------------------------------------------
(* Bits of byte strings. Counted from the last one, bit by bit, they are   *)
(* those of the number the byte string stands for.                         *)

\* The address of a bit, counted from the last bit of the byte string.
Address(s, i, big) == IF big THEN ByteBits * Len(s) - 1 - i ELSE i

\* The byte a bit is in, from the end, and its place there.
LEMMA AddressFacts ==
  ASSUME NEW s \in Seq(Byte), Len(s) <= MaxBytesSize, NEW big \in BOOLEAN,
         NEW i \in Nat, i < ByteBits * Len(s)
  PROVE  /\ Address(s, i, big) \in 0..(ByteBits * Len(s) - 1)
         /\ Address(s, i, big) \in 0..(MaxBits - 1)
         /\ i \div ByteBits \in 0..(Len(s) - 1)
         /\ Address(s, i, big) % ByteBits = BitIndex(i, big)
         /\ Address(s, i, big) \div ByteBits =
              IF big THEN Len(s) - 1 - (i \div ByteBits) ELSE i \div ByteBits
<1>1. Len(s) \in Nat /\ ByteBits \in Nat \ {0} /\ MaxBits \in Nat /\ ByteBits * Len(s) \in Nat
  <2>1. ByteBits \in Nat \ {0} /\ MaxBits \in Nat
    BY SizeFacts, BaseFacts
  <2> QED
    BY <2>1
<1>2. ByteBits * Len(s) <= ByteBits * MaxBytesSize /\ MaxBits - 1 = ByteBits * MaxBytesSize
  <2>1. \A x, y \in Nat : x <= y => ByteBits * x <= ByteBits * y
    BY <1>1
  <2> QED
    BY <1>1, <2>1, SizeFacts, BaseFacts
<1>3. PICK q \in Nat, r \in 0..(ByteBits - 1) :
        q = i \div ByteBits /\ r = i % ByteBits /\ i = ByteBits * q + r /\ q < Len(s)
  BY <1>1, BytePosition
<1>4. CASE big
  <2>1. PICK m \in Nat, t \in 0..(ByteBits - 1) : m = Len(s) - 1 - q /\ t = ByteBits - 1 - r
    BY <1>1, <1>3
  <2>2. ByteBits * Len(s) - 1 - i = ByteBits * m + t
    <3>1. Len(s) = m + q + 1
      BY <1>1, <2>1
    <3>2. ByteBits * (m + q + 1) = ByteBits * m + ByteBits * q + ByteBits
      BY <1>1
    <3>3. PICK x \in Nat : x = ByteBits * m
      BY <1>1
    <3>4. PICK y \in Nat : y = ByteBits * q
      BY <1>1
    <3>5. ByteBits * Len(s) = x + y + ByteBits
      BY <3>1, <3>2, <3>3, <3>4
    <3>6. i = y + r
      BY <1>3, <3>4
    <3> QED
      BY <1>1, <2>1, <3>3, <3>5, <3>6
  <2>3. (ByteBits * m + t) \div ByteBits = m /\ (ByteBits * m + t) % ByteBits = t
    BY <1>1, DivisionOf
  <2>4. BitIndex(i, big) = t
    BY <1>3, <1>4, <2>1 DEF BitIndex
  <2>5. Address(s, i, big) = ByteBits * Len(s) - 1 - i
    BY <1>4 DEF Address
  <2>6. Address(s, i, big) \in 0..(ByteBits * Len(s) - 1)
    BY <1>1, <2>5
  <2>7. Address(s, i, big) \in 0..(MaxBits - 1)
    BY <1>1, <1>2, <2>6
  <2>8. Address(s, i, big) % ByteBits = BitIndex(i, big) /\ Address(s, i, big) \div ByteBits = m
    BY <2>2, <2>3, <2>4, <2>5
  <2>9. m = Len(s) - 1 - (i \div ByteBits) /\ i \div ByteBits \in 0..(Len(s) - 1)
    BY <1>1, <1>3, <2>1
  <2> QED
    BY <1>4, <2>6, <2>7, <2>8, <2>9
<1>5. CASE ~big
  BY <1>1, <1>2, <1>3, <1>5 DEF Address, BitIndex
<1> QED
  BY <1>4, <1>5

\* The byte a bit is in, as the code finds it: in the string or in the reversed one.
LEMMA AddressedByte ==
  ASSUME NEW s \in Seq(Byte), Len(s) <= MaxBytesSize, NEW big \in BOOLEAN,
         NEW i \in Nat, i < ByteBits * Len(s)
  PROVE  (IF big THEN s ELSE Reverse(s))[i \div ByteBits + 1]
           = FromEnd(s, Address(s, i, big) \div ByteBits)
<1>1. Len(s) \in Nat
  OBVIOUS
<1>2. PICK q \in 0..(Len(s) - 1) : q = i \div ByteBits
  BY AddressFacts
<1>3. Address(s, i, big) \div ByteBits = IF big THEN Len(s) - 1 - q ELSE q
  BY <1>2, AddressFacts
<1>4. CASE big
  <2>1. Len(s) - 1 - q < Len(s) /\ Len(s) - (Len(s) - 1 - q) = q + 1
    BY <1>1
  <2> QED
    BY <1>2, <1>3, <1>4, <2>1 DEF FromEnd
<1>5. CASE ~big
  <2>1. q + 1 \in 1..Len(s) /\ Len(s) - (q + 1) + 1 = Len(s) - q /\ q < Len(s)
    BY <1>1
  <2>2. Reverse(s)[q + 1] = s[Len(s) - q]
    BY <2>1, ReverseFacts
  <2> QED
    BY <1>2, <1>3, <1>5, <2>1, <2>2 DEF FromEnd
<1> QED
  BY <1>4, <1>5

\* What getbit reads is a bit of the number the byte string stands for.
LEMMA GetBitFacts ==
  ASSUME NEW s \in Seq(Byte), Len(s) <= MaxBytesSize, NEW big \in BOOLEAN, NEW i \in Nat
  PROVE  GetBit(s, i, big) =
           IF i < ByteBits * Len(s) THEN {(Address(s, i, big) \in BitsOf(IntOf(s)))} ELSE {}
<1>1. Len(s) \in Nat /\ Len(s) * ByteBits = ByteBits * Len(s) /\ ByteBits * Len(s) \in Nat
  BY SizeFacts
<1>2. AsInt(i, Len(s) * ByteBits - 1) = (IF i < ByteBits * Len(s) THEN {i} ELSE {})
  BY <1>1 DEF AsInt
<1>3. CASE ~(i < ByteBits * Len(s))
  BY <1>2, <1>3 DEF GetBit
<1>4. CASE i < ByteBits * Len(s)
  <2>1. (IF big THEN s ELSE Reverse(s))[i \div ByteBits + 1]
          = FromEnd(s, Address(s, i, big) \div ByteBits)
    BY <1>4, AddressedByte
  <2>2. Address(s, i, big) \in BitsOf(IntOf(s))
          <=> BitIndex(i, big) \in BitsOf(FromEnd(s, Address(s, i, big) \div ByteBits))
    BY <1>4, AddressFacts, IntOfBit
  <2>3. GetBit(s, i, big) =
          {(BitIndex(i, big) \in BitsOf((IF big THEN s ELSE Reverse(s))[i \div ByteBits + 1]))}
    <3>1. AsInt(i, Len(s) * ByteBits - 1) = {i}
      BY <1>2, <1>4
    <3> QED
      BY <3>1 DEF GetBit
  <2> QED
    BY <1>4, <2>1, <2>2, <2>3
<1> QED
  BY <1>3, <1>4

\* Setting a bit of one byte.
LEMMA SetBitInFacts ==
  ASSUME NEW v \in Byte, NEW j \in 0..(ByteBits - 1), NEW x \in BOOLEAN
  PROVE  /\ SetBitIn(v, j, x) \in Byte
         /\ BitsOf(SetBitIn(v, j, x)) = IF x THEN BitsOf(v) \cup {j} ELSE BitsOf(v) \ {j}
<1>1. /\ v \in 0..(Pow(2, MaxBits) - 1) /\ v < Pow(2, ByteBits) /\ ByteBits \in 0..MaxBits
      /\ ByteBits \in Nat /\ MaxBits \in Nat
  <2>1. ByteBits \in Nat /\ MaxBits \in Nat
    BY SizeFacts, BaseFacts
  <2> QED
    BY <2>1, ByteFacts
<1>2. BitsOf(v) \subseteq 0..(ByteBits - 1)
  BY <1>1, BitsBound
<1>3. PICK S : S = IF x THEN BitsOf(v) \cup {j} ELSE BitsOf(v) \ {j}
  OBVIOUS
<1>4. S \subseteq 0..(ByteBits - 1) /\ SetBitIn(v, j, x) = FromBits(S)
  BY <1>2, <1>3 DEF SetBitIn
<1>5. S \cap (0..(MaxBits - 1)) = S
  <2>1. \A k \in 0..(ByteBits - 1) : k \in 0..(MaxBits - 1)
    BY <1>1
  <2> QED
    BY <1>4, <2>1
<1>6. /\ FromBits(S) \in 0..(Pow(2, MaxBits) - 1) /\ FromBits(S) \in Nat
      /\ BitsOf(FromBits(S)) = S
  BY <1>5, FromBitsHas
<1>7. FromBits(S) < Pow(2, ByteBits)
  BY <1>1, <1>4, <1>6, BitsBound
<1>8. FromBits(S) \in Byte
  <2>1. Byte = 0..(Base - 1) /\ Base = Pow(2, ByteBits) /\ Base \in Nat
    BY BaseFacts DEF Byte
  <2> QED
    BY <1>6, <1>7, <2>1
<1> QED
  BY <1>3, <1>4, <1>6, <1>8

\* What setbit returns differs in the byte the bit is in, and there in that bit.
LEMMA SetBitBytes ==
  ASSUME NEW s \in Seq(Byte), Len(s) <= MaxBytesSize, NEW big \in BOOLEAN,
         NEW i \in Nat, i < ByteBits * Len(s), NEW x \in BOOLEAN
  PROVE  \E r \in Seq(Byte) :
           /\ SetBit(s, i, x, big) = {r} /\ Len(r) = Len(s)
           /\ \A q \in Nat :
                FromEnd(r, q) = IF q = Address(s, i, big) \div ByteBits
                                THEN SetBitIn(FromEnd(s, q), BitIndex(i, big), x)
                                ELSE FromEnd(s, q)
<1>1. Len(s) \in Nat
  OBVIOUS
<1>2. PICK t \in Seq(Byte) : t = (IF big THEN s ELSE Reverse(s)) /\ Len(t) = Len(s)
  BY ReverseFacts
<1>3. PICK c \in 1..Len(s) : c = i \div ByteBits + 1
  BY <1>1, AddressFacts
<1>4. PICK j \in 0..(ByteBits - 1) : j = BitIndex(i, big)
  <2>1. i % ByteBits \in 0..(ByteBits - 1)
    BY BytePosition
  <2>2. ByteBits - 1 - (i % ByteBits) \in 0..(ByteBits - 1)
    BY <2>1, SizeFacts
  <2> QED
    BY <2>1, <2>2 DEF BitIndex
<1>5. PICK v \in Byte : v = SetBitIn(t[c], j, x)
  <2>1. t[c] \in Byte
    BY <1>2
  <2> QED
    BY <2>1, SetBitInFacts
<1>6. PICK u \in Seq(Byte) :
        /\ u = [t EXCEPT ![c] = v] /\ Len(u) = Len(s)
        /\ \A k \in 1..Len(s) : u[k] = IF k = c THEN v ELSE t[k]
  <2>1. c \in 1..Len(t)
    BY <1>2
  <2>2. /\ [t EXCEPT ![c] = v] \in Seq(Byte) /\ Len([t EXCEPT ![c] = v]) = Len(t)
        /\ \A k \in 1..Len(t) : [t EXCEPT ![c] = v][k] = IF k = c THEN v ELSE t[k]
    BY <2>1, ExceptSeq
  <2> QED
    BY <1>2, <2>2
<1>7. SetBit(s, i, x, big) = {IF big THEN u ELSE Reverse(u)}
  <2>1. AsInt(i, Len(s) * ByteBits - 1) = {i}
    <3>1. Len(s) * ByteBits = ByteBits * Len(s) /\ ByteBits * Len(s) \in Nat
      BY <1>1, SizeFacts
    <3> QED
      BY <3>1 DEF AsInt
  <2>2. u = [t EXCEPT ![i \div ByteBits + 1] = SetBitIn(@, BitIndex(i, big), x)]
    BY <1>2, <1>3, <1>4, <1>5, <1>6
  <2>3. CASE big
    BY <1>2, <2>1, <2>2, <2>3 DEF SetBit
  <2>4. CASE ~big
    BY <1>2, <2>1, <2>2, <2>4 DEF SetBit
  <2> QED
    BY <2>3, <2>4
<1>8. PICK r \in Seq(Byte) : r = (IF big THEN u ELSE Reverse(u)) /\ Len(r) = Len(s)
  BY <1>6, ReverseFacts
<1>9. PICK a \in 0..(Len(s) - 1) :
        /\ a = Address(s, i, big) \div ByteBits
        /\ a = IF big THEN Len(s) - c ELSE c - 1
  <2>1. i \div ByteBits \in Nat
    BY BytePosition
  <2>2. Address(s, i, big) \div ByteBits = IF big THEN Len(s) - c ELSE c - 1
    <3>1. i \div ByteBits = c - 1
      BY <1>3, <2>1
    <3>2. Len(s) - 1 - (c - 1) = Len(s) - c
      BY <1>1, <1>3
    <3> QED
      BY <3>1, <3>2, AddressFacts
  <2> QED
    BY <1>1, <2>2
<1>10. ASSUME NEW q \in Nat
       PROVE  FromEnd(r, q) = IF q = a THEN SetBitIn(FromEnd(s, q), j, x) ELSE FromEnd(s, q)
  <2>1. CASE ~(q < Len(s))
    <3>1. q # a
      BY <1>1, <1>9, <2>1
    <3>2. FromEnd(r, q) = 0 /\ FromEnd(s, q) = 0
      BY <1>8, <2>1 DEF FromEnd
    <3> QED
      BY <3>1, <3>2
  <2>2. CASE q < Len(s)
    <3>1. FromEnd(r, q) = r[Len(s) - q] /\ FromEnd(s, q) = s[Len(s) - q]
      BY <1>8, <2>2 DEF FromEnd
    <3>2. Len(s) - q \in 1..Len(s) /\ q + 1 \in 1..Len(s)
      BY <1>1, <2>2
    <3>3. CASE big
      <4>1. r[Len(s) - q] = (IF Len(s) - q = c THEN v ELSE s[Len(s) - q])
        BY <1>2, <1>6, <1>8, <3>2, <3>3
      <4>2. Len(s) - q = c <=> q = a
        <5>1. a = Len(s) - c
          BY <1>9, <3>3, Zenon
        <5> QED
          BY <1>1, <5>1
      <4>3. t[c] = s[c]
        BY <1>2, <3>3
      <4> QED
        BY <1>5, <3>1, <4>1, <4>2, <4>3
    <3>4. CASE ~big
      <4>1. r[Len(s) - q] = u[q + 1] /\ t[q + 1] = s[Len(s) - q]
        <5>1. Len(s) - (Len(s) - q) + 1 = q + 1 /\ Len(s) - (q + 1) + 1 = Len(s) - q
          BY <1>1
        <5>2. \A k \in 1..Len(s) : Reverse(u)[k] = u[Len(s) - k + 1]
          <6>1. u \in Seq(Byte) /\ Len(u) = Len(s)
            BY <1>6, Zenon
          <6>2. \A k \in 1..Len(u) : Reverse(u)[k] = u[Len(u) - k + 1]
            BY <6>1, ReverseFacts, Zenon
          <6> QED
            BY <6>1, <6>2, Zenon
        <5>3. \A k \in 1..Len(s) : Reverse(s)[k] = s[Len(s) - k + 1]
          BY ReverseFacts
        <5> QED
          BY <1>2, <1>6, <1>8, <3>2, <3>4, <5>1, <5>2, <5>3
      <4> QED
        BY <1>1, <1>5, <1>6, <1>9, <3>1, <3>2, <3>4, <4>1
    <3> QED
      BY <3>3, <3>4
  <2> QED
    BY <2>1, <2>2
<1> QED
  BY <1>4, <1>7, <1>8, <1>9, <1>10

\* setbit changes the bit that is addressed and no other, and raises where there is none.
LEMMA SetBitFacts ==
  ASSUME NEW s \in Seq(Byte), Len(s) <= MaxBytesSize, NEW big \in BOOLEAN,
         NEW i \in Nat, NEW x \in BOOLEAN
  PROVE  /\ ~(i < ByteBits * Len(s)) => SetBit(s, i, x, big) = {}
         /\ i < ByteBits * Len(s) => \E r \in Seq(Byte) :
              /\ SetBit(s, i, x, big) = {r} /\ Len(r) = Len(s)
              /\ BitsOf(IntOf(r)) = IF x THEN BitsOf(IntOf(s)) \cup {Address(s, i, big)}
                                         ELSE BitsOf(IntOf(s)) \ {Address(s, i, big)}
<1>1. Len(s) \in Nat /\ Len(s) * ByteBits = ByteBits * Len(s) /\ ByteBits * Len(s) \in Nat
  BY SizeFacts
<1>2. ASSUME ~(i < ByteBits * Len(s)) PROVE SetBit(s, i, x, big) = {}
  <2>1. AsInt(i, Len(s) * ByteBits - 1) = {}
    BY <1>1, <1>2 DEF AsInt
  <2> QED
    BY <2>1 DEF SetBit
<1>3. ASSUME i < ByteBits * Len(s)
      PROVE  \E r \in Seq(Byte) :
               /\ SetBit(s, i, x, big) = {r} /\ Len(r) = Len(s)
               /\ BitsOf(IntOf(r)) = IF x THEN BitsOf(IntOf(s)) \cup {Address(s, i, big)}
                                          ELSE BitsOf(IntOf(s)) \ {Address(s, i, big)}
  <2>1. PICK a \in 0..(MaxBits - 1) : a = Address(s, i, big)
    BY <1>3, AddressFacts
  <2>2. a \in Nat
    BY <2>1
  <2>3. PICK c \in Nat, j \in 0..(ByteBits - 1) :
          c = a \div ByteBits /\ j = a % ByteBits /\ a = ByteBits * c + j
    BY <2>2, BytePosition
  <2>4. j = BitIndex(i, big)
    BY <1>3, <2>1, <2>3, AddressFacts
  <2>5. PICK r \in Seq(Byte) :
          /\ SetBit(s, i, x, big) = {r} /\ Len(r) = Len(s)
          /\ \A q \in Nat : FromEnd(r, q) = IF q = c THEN SetBitIn(FromEnd(s, q), j, x)
                                            ELSE FromEnd(s, q)
    <3>1. \E r \in Seq(Byte) :
            /\ SetBit(s, i, x, big) = {r} /\ Len(r) = Len(s)
            /\ \A q \in Nat :
                 FromEnd(r, q) = IF q = Address(s, i, big) \div ByteBits
                                 THEN SetBitIn(FromEnd(s, q), BitIndex(i, big), x)
                                 ELSE FromEnd(s, q)
      BY <1>3, SetBitBytes
    <3> QED
      BY <2>1, <2>3, <2>4, <3>1
  <2>6. ASSUME NEW p \in 0..(MaxBits - 1)
        PROVE  p \in BitsOf(IntOf(r)) <=> IF p = a THEN x ELSE p \in BitsOf(IntOf(s))
    <3>1. PICK q \in Nat, k \in 0..(ByteBits - 1) :
            q = p \div ByteBits /\ k = p % ByteBits /\ p = ByteBits * q + k
      <4>1. p \in Nat
        OBVIOUS
      <4>2. /\ p \div ByteBits \in Nat /\ p % ByteBits \in 0..(ByteBits - 1)
            /\ p = ByteBits * (p \div ByteBits) + (p % ByteBits)
        BY <4>1, BytePosition
      <4> QED
        BY <4>2
    <3>2. p = a <=> q = c /\ k = j
      BY <2>3, <3>1
    <3>3. FromEnd(s, q) \in Byte
      BY <3>1, IntOfBit
    <3>4. p \in BitsOf(IntOf(r)) <=> k \in BitsOf(FromEnd(r, q))
      BY <3>1, IntOfBit
    <3>5. p \in BitsOf(IntOf(s)) <=> k \in BitsOf(FromEnd(s, q))
      BY <3>1, IntOfBit
    <3>6. CASE q # c
      BY <2>5, <3>2, <3>4, <3>5, <3>6
    <3>7. CASE q = c
      <4>1. FromEnd(r, q) = SetBitIn(FromEnd(s, q), j, x)
        BY <2>5, <3>7
      <4>2. BitsOf(FromEnd(r, q)) = IF x THEN BitsOf(FromEnd(s, q)) \cup {j}
                                         ELSE BitsOf(FromEnd(s, q)) \ {j}
        BY <3>3, <4>1, SetBitInFacts
      <4> QED
        BY <3>2, <3>4, <3>5, <3>7, <4>2
    <3> QED
      BY <3>6, <3>7
  <2>7. BitsOf(IntOf(r)) \subseteq 0..(MaxBits - 1) /\ BitsOf(IntOf(s)) \subseteq 0..(MaxBits - 1)
    BY DEF BitsOf
  <2>8. BitsOf(IntOf(r)) = IF x THEN BitsOf(IntOf(s)) \cup {a} ELSE BitsOf(IntOf(s)) \ {a}
    BY <2>6, <2>7
  <2> QED
    BY <2>1, <2>5, <2>8
<1> QED
  BY <1>2, <1>3

-----------------------------------------------------------------------------
(* Words: what the operators of UInt64 and the op functions of it return.  *)

\* What a word is.
LEMMA WordFacts ==
  /\ 0 \in Word /\ MaxWord \in Word /\ WordBits \in Word /\ WordBits \in 0..MaxBits
  /\ \A a : a \in Word <=> a \in Nat /\ a <= MaxWord
  /\ \A a \in Word : a < Pow(2, WordBits) /\ a \in 0..(Pow(2, MaxBits) - 1)
<1>1. /\ MaxWord \in Nat /\ MaxWord + 1 = Pow(2, WordBits) /\ WordBits < MaxWord + 1
      /\ WordBits \in Nat /\ MaxBits \in Nat /\ WordBits < MaxBits
  BY BaseFacts
<1>2. Pow(2, WordBits) <= Pow(2, MaxBits) /\ Pow(2, MaxBits) \in Nat
  BY <1>1, PowOfTwo
<1> QED
  BY <1>1, <1>2 DEF Word

\* base**exp, that stops where it is more than two words.
LEMMA RaiseFacts ==
  ASSUME NEW a \in Nat, NEW b \in Nat
  PROVE  /\ Raise(a, b) \in Nat /\ Pow(a, b) \in Nat
         /\ Raise(a, b) # Pow(a, b) => Raise(a, b) > Wide /\ Pow(a, b) > Wide
<1> DEFINE Next(q) == IF q > Wide THEN q ELSE a * q
<1> DEFINE Is(p) == p = [k \in Nat |-> IF k = 0 THEN 1 ELSE Next(p[k - 1])]
<1>1. Wide \in Nat /\ Wide > 1
  <2>1. MaxWord + 1 \in Nat /\ MaxWord + 1 > 1
    BY BaseFacts
  <2>2. \A x \in Nat : x > 1 => x * x \in Nat /\ x * x > 1
    <3> SUFFICES ASSUME NEW x \in Nat, x > 1 PROVE x * x \in Nat /\ x * x > 1
      OBVIOUS
    <3>1. x * x >= x * 1
      OBVIOUS
    <3> QED
      BY <3>1
  <2> QED
    BY <2>1, <2>2 DEF Wide
<1>2. \A q \in Nat : Next(q) \in Nat
  OBVIOUS
<1>3. \E p : Is(p)
  <2> HIDE DEF Next
  <2>1. PICK step \in [Nat -> [Nat -> Nat]] : \A n, v \in Nat : step[n][v] = Next(v)
    <3>1. [n \in Nat |-> [v \in Nat |-> Next(v)]] \in [Nat -> [Nat -> Nat]]
      BY <1>2
    <3> QED
      BY <3>1
  <2>2. PICK f \in [Nat -> Nat] : Follows(f, 1, step)
    <3>1. 1 \in Nat
      OBVIOUS
    <3> QED
      BY <3>1, Recursion
  <2>3. ASSUME NEW n \in Nat PROVE f[n] = IF n = 0 THEN 1 ELSE Next(f[n - 1])
    <3>1. CASE n = 0
      BY <2>2, <3>1 DEF Follows
    <3>2. CASE n # 0
      <4>1. n - 1 \in Nat /\ (n - 1) + 1 = n /\ f[n - 1] \in Nat
        BY <3>2
      <4>2. f[n] = step[n][f[n - 1]]
        BY <2>2, <4>1 DEF Follows
      <4> QED
        BY <2>1, <3>2, <4>1, <4>2
    <3> QED
      BY <3>1, <3>2
  <2>4. f = [n \in Nat |-> f[n]]
    OBVIOUS
  <2> QED
    BY <2>3, <2>4
<1>4. PICK p : Is(p) /\ Raise(a, b) = p[b]
  BY <1>3 DEF Raise
<1>5. p[0] = 1 /\ \A k \in Nat : p[k + 1] = Next(p[k])
  <2> HIDE DEF Next
  <2> QED
    BY <1>4
<1>6. Pow(a, 0) = 1 /\ \A k \in Nat : Pow(a, k) \in Nat /\ Pow(a, k + 1) = a * Pow(a, k)
  BY PowDef
<1> DEFINE Good(k) ==
      /\ p[k] \in Nat
      /\ \/ p[k] = Pow(a, k) /\ (a > 0 \/ p[k] <= 1)
         \/ p[k] > Wide /\ Pow(a, k) > Wide /\ a > 0
<1> DEFINE P == {k \in Nat : Good(k)}
<1>7. 0 \in P
  BY <1>5, <1>6
<1>8. ASSUME NEW k \in P PROVE k + 1 \in P
  <2>1. Good(k) /\ p[k + 1] = Next(p[k]) /\ Pow(a, k + 1) = a * Pow(a, k) /\ Pow(a, k) \in Nat
    BY <1>5, <1>6
  <2>2. PICK q \in Nat, w \in Nat : q = p[k] /\ w = Pow(a, k)
    BY <2>1
  <2>3. CASE q > Wide
    <3>1. w > Wide /\ a > 0
      BY <1>1, <2>1, <2>2, <2>3
    <3>2. a * w >= w
      BY <3>1
    <3>3. p[k + 1] = q /\ Pow(a, k + 1) = a * w /\ a * w \in Nat
      BY <2>1, <2>2, <2>3
    <3> QED
      BY <1>1, <2>3, <3>1, <3>2, <3>3
  <2>4. CASE ~(q > Wide)
    <3>1. q = w /\ p[k + 1] = a * q /\ Pow(a, k + 1) = a * q
      BY <2>1, <2>2, <2>4
    <3>2. a = 0 => a * q = 0
      OBVIOUS
    <3> QED
      BY <3>1, <3>2
  <2> QED
    BY <2>3, <2>4
<1>9. P = Nat
  <2> HIDE DEF P
  <2> QED
    BY <1>7, <1>8, Induction DEF P
<1>10. Good(b)
  BY <1>9
<1> QED
  BY <1>4, <1>6, <1>10

\* The root is the largest whose square is not above the number.
LEMMA RootFacts ==
  ASSUME NEW n \in Nat
  PROVE  /\ Root(n) \in 0..n /\ Root(n) * Root(n) <= n
         /\ (Root(n) + 1) * (Root(n) + 1) > n
<1> DEFINE S == {r \in 0..n : r * r <= n}
<1>1. 0 \in S
  OBVIOUS
<1>2. Max(S) \in S /\ \A x \in S : x <= Max(S)
  <2>1. S \in SUBSET (0..n) /\ S # {}
    BY <1>1
  <2> HIDE DEF S
  <2> QED
    BY <2>1, MaxIsLargest
<1>3. PICK r \in 0..n : r = Root(n) /\ r * r <= n /\ \A x \in S : x <= r
  BY <1>2 DEF Root
<1>4. (r + 1) * (r + 1) > n
  <2> SUFFICES ASSUME (r + 1) * (r + 1) <= n PROVE FALSE
    <3>1. (r + 1) * (r + 1) \in Nat
      OBVIOUS
    <3> QED
      BY <3>1
  <2>1. r + 1 <= (r + 1) * (r + 1)
    OBVIOUS
  <2>2. (r + 1) * (r + 1) \in Nat
    OBVIOUS
  <2>3. r + 1 \in S
    BY <2>1, <2>2
  <2> QED
    BY <1>3, <2>3
<1> QED
  BY <1>3, <1>4

\* A bitwise operator on words gives a word.
LEMMA CombineWords ==
  ASSUME NEW op \in BitOps, NEW a \in Word, NEW b \in Word
  PROVE  Combine(op, a, b) \in Word
<1>1. a \in Nat /\ b \in Nat /\ a < Pow(2, WordBits) /\ b < Pow(2, WordBits)
  BY WordFacts
<1>2. Combine(op, a, b) \in Nat /\ Combine(op, a, b) < Pow(2, WordBits)
  BY <1>1, WordFacts, CombineBits
<1> QED
  BY <1>2, WordFacts, BaseFacts

\* A checked result is a word.
LEMMA CheckedFacts ==
  ASSUME NEW n
  PROVE  Checked(n) \subseteq Word /\ Checked(n) = IF n \in Word THEN {n} ELSE {}
BY DEF Checked

\* Quotient and remainder are not above the dividend and the divisor.
LEMMA DivisionBound ==
  ASSUME NEW n \in Nat, NEW d \in Nat \ {0}
  PROVE  n \div d \in 0..n /\ n % d \in 0..(d - 1)
<1>1. PICK q \in Nat, r \in 0..(d - 1) : q = n \div d /\ r = n % d /\ n = d * q + r
  BY Division
<1>2. d * q >= q /\ d * q \in Nat
  OBVIOUS
<1> QED
  BY <1>1, <1>2

\* Shifts give words.
LEMMA ShiftFacts ==
  ASSUME NEW a \in Word, NEW k \in Nat
  PROVE  (a * Pow(2, k)) % (MaxWord + 1) \in Word /\ a \div Pow(2, k) \in Word
<1>1. a \in Nat /\ Pow(2, k) \in Nat \ {0} /\ MaxWord + 1 \in Nat \ {0}
  BY WordFacts, PowOfTwo, BaseFacts
<1>2. a * Pow(2, k) \in Nat
  BY <1>1
<1>3. (a * Pow(2, k)) % (MaxWord + 1) \in 0..((MaxWord + 1) - 1)
  BY <1>1, <1>2, DivisionBound
<1>4. a \div Pow(2, k) \in 0..a
  BY <1>1, DivisionBound
<1> QED
  BY <1>1, <1>3, <1>4, WordFacts, BaseFacts DEF Word

\* itob and btoi, and a bit set in a word.
LEMMA ItobFacts ==
  ASSUME NEW a \in Word
  PROVE  /\ itob(a) \in Seq(Byte) /\ Len(itob(a)) = WordBytes /\ IntOf(itob(a)) = a
         /\ itob(a) \in Texts(MaxBytesSize)
<1>1. /\ a \in Nat /\ WordBytes \in Nat /\ WordBytes <= MaxBytesSize /\ MaxBytesSize \in Nat
      /\ a < Pow(2, ByteBits * WordBytes)
  BY SizeFacts, WordFacts, BaseFacts
<1> QED
  BY <1>1, DigitsFacts, TextsFacts DEF itob

\* As many bytes as a word has make a word.
LEMMA WordOfBytes ==
  ASSUME NEW s \in Seq(Byte), Len(s) <= WordBytes
  PROVE  IntOf(s) \in Word
<1>1. Len(s) \in Nat /\ ByteBits \in Nat /\ WordBytes \in Nat
  BY SizeFacts
<1>2. ByteBits * Len(s) <= ByteBits * WordBytes /\ ByteBits * Len(s) \in Nat
  BY <1>1
<1>3. Pow(2, ByteBits * Len(s)) <= Pow(2, WordBits) /\ Pow(2, WordBits) = MaxWord + 1
  BY <1>2, BaseFacts, PowOfTwo
<1>4. Pow(2, ByteBits * Len(s)) \in Nat /\ MaxWord \in Nat
  BY <1>2, BaseFacts, PowOfTwo
<1>5. IntOf(s) \in Nat /\ IntOf(s) < Pow(2, ByteBits * Len(s))
  BY IntOfFacts
<1> QED
  BY <1>3, <1>4, <1>5, WordFacts

\* Setting a bit of a word gives the word with that bit set or cleared.
LEMMA SetBitWords ==
  ASSUME NEW a \in Word, NEW i \in Nat, NEW x \in BOOLEAN
  PROVE  /\ setbit_uint64(a, i, x) \subseteq Word
         /\ i >= WordBits => setbit_uint64(a, i, x) = {}
         /\ i < WordBits => \E w \in Word :
              /\ setbit_uint64(a, i, x) = {w}
              /\ BitsOf(w) = IF x THEN BitsOf(a) \cup {i} ELSE BitsOf(a) \ {i}
<1>1. PICK s \in Seq(Byte) : s = itob(a) /\ Len(s) = WordBytes /\ IntOf(s) = a
  BY ItobFacts
<1>2. Len(s) <= MaxBytesSize /\ ByteBits * Len(s) = WordBits /\ WordBits \in Nat
  BY <1>1, SizeFacts, BaseFacts
<1>3. setbit_uint64(a, i, x) = {IntOf(r) : r \in SetBit(s, i, x, FALSE)}
  BY <1>1 DEF setbit_uint64
<1>4. ASSUME i >= WordBits PROVE setbit_uint64(a, i, x) = {}
  <2>1. ~(i < ByteBits * Len(s))
    BY <1>2, <1>4
  <2>2. SetBit(s, i, x, FALSE) = {}
    BY <1>2, <2>1, SetBitFacts
  <2> QED
    BY <1>3, <2>2
<1>5. ASSUME i < WordBits
      PROVE  \E w \in Word :
               /\ setbit_uint64(a, i, x) = {w}
               /\ BitsOf(w) = IF x THEN BitsOf(a) \cup {i} ELSE BitsOf(a) \ {i}
  <2>1. PICK big \in BOOLEAN : big = FALSE
    OBVIOUS
  <2>2. Address(s, i, big) = i
    BY <2>1 DEF Address
  <2>3. \E r \in Seq(Byte) :
          /\ SetBit(s, i, x, big) = {r} /\ Len(r) = Len(s)
          /\ BitsOf(IntOf(r)) = IF x THEN BitsOf(IntOf(s)) \cup {Address(s, i, big)}
                                     ELSE BitsOf(IntOf(s)) \ {Address(s, i, big)}
    BY <1>2, <1>5, SetBitFacts
  <2>4. PICK r \in Seq(Byte) :
          /\ SetBit(s, i, x, big) = {r} /\ Len(r) = Len(s)
          /\ BitsOf(IntOf(r)) = IF x THEN BitsOf(a) \cup {i} ELSE BitsOf(a) \ {i}
    BY <1>1, <2>2, <2>3
  <2>5. setbit_uint64(a, i, x) = {IntOf(r)}
    BY <1>3, <2>1, <2>4
  <2>6. IntOf(r) \in Word
    BY <1>1, <2>4, SizeFacts, WordOfBytes
  <2> QED
    BY <2>4, <2>5, <2>6
<1>6. i < WordBits \/ i >= WordBits
  BY <1>2
<1> QED
  BY <1>4, <1>5, <1>6

\* A length in bits is a word.
LEMMA BitlenFacts ==
  ASSUME NEW a \in Word
  PROVE  bitlen(a) \in 0..WordBits /\ bitlen(a) \in Word
<1>1. /\ a \in 0..(Pow(2, MaxBits) - 1) /\ a < Pow(2, WordBits) /\ WordBits \in 0..MaxBits
      /\ WordBits \in Word /\ WordBits \in Nat
  BY WordFacts, BaseFacts
<1>2. BitLength(a) \in 0..MaxBits /\ BitLength(a) <= WordBits
  BY <1>1, BitLengthFacts
<1>3. \A x \in Nat : x <= WordBits => x \in Word
  BY <1>1, WordFacts, BaseFacts
<1> QED
  BY <1>1, <1>2, <1>3 DEF bitlen

\* Whatever UInt64 and the op functions of it compute is a UInt64.
LEMMA UInt64ResultsAreWords ==
  ASSUME NEW a \in Word, NEW b \in Word
  PROVE  UInt64Results(a, b) \subseteq Word /\ OpResults(a, b) \subseteq Word
<1>1. a \in Nat /\ b \in Nat /\ a <= MaxWord /\ MaxWord \in Nat
  BY WordFacts, BaseFacts
<1>2. UNION {Plus(a, b), Minus(a, b), Times(a, b)} \subseteq Word
  BY CheckedFacts DEF Plus, Minus, Times
<1>3. UNION {FloorDiv(a, b), Modulo(a, b), Power(a, b), exp(a, b)} \subseteq Word
  BY CheckedFacts DEF FloorDiv, Modulo, Power, exp
<1>4. UNION {And(a, b), Or(a, b), Xor(a, b)} \subseteq Word
  <2>1. {"and", "or", "xor"} = BitOps
    BY DEF BitOps
  <2>2. /\ Combine("and", a, b) = AndBits(a, b) /\ Combine("or", a, b) = OrBits(a, b)
        /\ Combine("xor", a, b) = XorBits(a, b)
    BY DEF Combine
  <2>3. AndBits(a, b) \in Word /\ OrBits(a, b) \in Word /\ XorBits(a, b) \in Word
    BY <2>1, <2>2, CombineWords
  <2> QED
    BY <2>3 DEF And, Or, Xor
<1>5. LShift(a, b) \subseteq Word /\ RShift(a, b) \subseteq Word
  BY <1>1, ShiftFacts DEF LShift, RShift
<1>6. shl(a, b) \subseteq Word /\ shr(a, b) \subseteq Word
  <2>1. AsInt(b, WordBits - 1) \subseteq Nat
    BY <1>1 DEF AsInt
  <2> QED
    BY <2>1, ShiftFacts DEF shl, shr
<1>7. Invert(a) \in Word
  BY <1>1, WordFacts DEF Invert
<1>8. sqrt(a) \in Word
  <2>1. Root(a) \in 0..a
    BY <1>1, RootFacts
  <2> QED
    BY <1>1, <2>1, WordFacts DEF sqrt
<1>9. select(a, b, b) \in Word
  BY DEF select
<1>10. bitlen(a) \in Word
  BY BitlenFacts
<1>11. setbit_uint64(a, b, TRUE) \subseteq Word /\ setbit_uint64(a, b, FALSE) \subseteq Word
  <2>1. \A x \in BOOLEAN : setbit_uint64(a, b, x) \subseteq Word
    BY <1>1, SetBitWords
  <2> QED
    BY <2>1
<1>12. UInt64Results(a, b) \subseteq Word
  BY <1>2, <1>3, <1>4, <1>5, <1>7 DEF UInt64Results
<1>13. OpResults(a, b) \subseteq Word
  BY <1>3, <1>6, <1>8, <1>9, <1>10, <1>11 DEF OpResults
<1> QED
  BY <1>12, <1>13

\* A bitwise result is as long as the longer operand.
LEMMA BitwiseTexts ==
  ASSUME NEW op \in BitOps, NEW s \in Texts(MaxBytesSize), NEW t \in Texts(MaxBytesSize)
  PROVE  /\ Bitwise(op, s, t) \in Texts(MaxBytesSize)
         /\ Len(Bitwise(op, s, t)) = IF Len(s) >= Len(t) THEN Len(s) ELSE Len(t)
<1>1. s \in Seq(Byte) /\ t \in Seq(Byte) /\ Len(s) <= MaxBytesSize /\ Len(t) <= MaxBytesSize
  BY SizeFacts, TextsFacts
<1>2. /\ Bitwise(op, s, t) \in Seq(Byte)
      /\ Len(Bitwise(op, s, t)) = IF Len(s) >= Len(t) THEN Len(s) ELSE Len(t)
  BY <1>1, BitwiseFacts
<1> QED
  BY <1>1, <1>2, SizeFacts, TextsFacts

\* The other operand of a step is one of Bytes.
LEMMA OperandsAreTexts ==
  \A t \in Operands : t \in Texts(MaxBytesSize) /\ t \in Seq(Byte) /\ Len(t) <= OperandBytes
<1> SUFFICES ASSUME NEW t \in Operands
             PROVE  t \in Texts(MaxBytesSize) /\ t \in Seq(Byte) /\ Len(t) <= OperandBytes
  OBVIOUS
<1>1. OperandBytes \in Nat /\ MaxBytesSize \in Nat /\ OperandBytes <= MaxBytesSize
  BY SizeFacts
<1>2. t \in Seq(Byte) /\ Len(t) <= OperandBytes /\ Len(t) \in Nat
  BY <1>1, TextsFacts DEF Operands
<1> QED
  BY <1>1, <1>2, TextsFacts

\* Whatever the operators of Bytes and the op functions of it compute is one of Bytes.
LEMMA BytesResultsAreTexts ==
  ASSUME NEW s \in Texts(MaxBytesSize), NEW t \in Operands, NEW i \in Nat
  PROVE  BytesResults(s, t, i) \subseteq Texts(MaxBytesSize)
<1>1. /\ s \in Seq(Byte) /\ Len(s) <= MaxBytesSize /\ Len(s) \in Nat /\ MaxBytesSize \in Nat
      /\ t \in Seq(Byte) /\ t \in Texts(MaxBytesSize) /\ Len(t) \in Nat
  BY SizeFacts, TextsFacts, OperandsAreTexts
<1>2. \A r \in Seq(Byte) : Len(r) <= Len(s) => r \in Texts(MaxBytesSize)
  <2>1. \A r \in Seq(Byte) : Len(r) \in Nat
    OBVIOUS
  <2> QED
    BY <1>1, <2>1, TextsFacts
<1>3. Concat(s, t) \subseteq Texts(MaxBytesSize)
  BY <1>1, ConcatFacts
<1>4. Bitwises(s, t) \subseteq Texts(MaxBytesSize)
  BY <1>1, BitwiseTexts DEF Bitwises
<1>5. InvertBytes(s) \in Texts(MaxBytesSize) /\ Item(s, i) \in Texts(MaxBytesSize)
  <2>1. InvertBytes(s) \in Seq(Byte) /\ Len(InvertBytes(s)) <= Len(s)
    BY <1>1, InvertBytesFacts
  <2>2. Item(s, i) \in Seq(Byte) /\ Len(Item(s, i)) <= Len(s)
    BY <1>1, ItemFacts
  <2> QED
    BY <1>2, <2>1, <2>2
<1>6. replace(s, i, t) \subseteq Texts(MaxBytesSize)
  <2>1. CASE i + Len(t) > Len(s)
    BY <1>1, <2>1, ReplaceFacts
  <2>2. CASE i + Len(t) <= Len(s)
    <3>1. PICK r \in Seq(Byte) : replace(s, i, t) = {r} /\ Len(r) = Len(s)
      BY <1>1, <2>2, ReplaceFacts
    <3> QED
      BY <1>1, <1>2, <3>1
  <2> QED
    BY <1>1, <2>1, <2>2
<1>7. \A m, n \in Nat : Slice(s, m, n) \in Texts(MaxBytesSize)
  <2> SUFFICES ASSUME NEW m \in Nat, NEW n \in Nat PROVE Slice(s, m, n) \in Texts(MaxBytesSize)
    OBVIOUS
  <2>1. Slice(s, m, n) \in Seq(Byte) /\ Len(Slice(s, m, n)) <= Len(s)
    BY <1>1, SliceFacts
  <2> QED
    BY <1>2, <2>1
<1>8. extract(s, i, Len(t), FALSE) \subseteq Texts(MaxBytesSize)
  <2>1. i + Len(t) \in Nat
    BY <1>1
  <2>2. extract(s, i, Len(t), FALSE) \subseteq {Slice(s, i, i + Len(t))}
    BY DEF extract
  <2> QED
    BY <1>7, <2>1, <2>2
<1>9. substring(s, i, Len(s)) \subseteq Texts(MaxBytesSize)
  <2>1. substring(s, i, Len(s)) \subseteq {Slice(s, i, Len(s))}
    BY <1>1, SubstringFacts
  <2> QED
    BY <1>1, <1>7, <2>1
<1>10. setbyte(s, i, Base - 1) \subseteq Texts(MaxBytesSize)
  <2>1. CASE i \in 0..(Len(s) - 1)
    <3>1. i + 1 \in 1..Len(s) /\ Base - 1 \in Byte
      BY <1>1, <2>1, ByteFacts
    <3>2. /\ [s EXCEPT ![i + 1] = Base - 1] \in Seq(Byte)
          /\ Len([s EXCEPT ![i + 1] = Base - 1]) = Len(s)
      BY <1>1, <3>1, ExceptSeq
    <3>3. setbyte(s, i, Base - 1) = {[s EXCEPT ![i + 1] = Base - 1]}
      BY <2>1 DEF setbyte, AsInt
    <3> QED
      BY <1>1, <1>2, <3>2, <3>3
  <2>2. CASE i \notin 0..(Len(s) - 1)
    BY <2>2 DEF setbyte, AsInt
  <2> QED
    BY <2>1, <2>2
<1>11. \A x \in BOOLEAN : setbit_bytes(s, i, x) \subseteq Texts(MaxBytesSize)
  <2> SUFFICES ASSUME NEW x \in BOOLEAN, NEW big \in BOOLEAN, big = TRUE
               PROVE  SetBit(s, i, x, big) \subseteq Texts(MaxBytesSize)
    BY DEF setbit_bytes
  <2>1. CASE ~(i < ByteBits * Len(s))
    BY <1>1, <2>1, SetBitFacts
  <2>2. CASE i < ByteBits * Len(s)
    <3>1. PICK r \in Seq(Byte) : SetBit(s, i, x, big) = {r} /\ Len(r) = Len(s)
      BY <1>1, <2>2, SetBitFacts
    <3> QED
      BY <1>1, <1>2, <3>1
  <2> QED
    BY <2>1, <2>2
<1> QED
  BY <1>3, <1>4, <1>5, <1>6, <1>8, <1>9, <1>10, <1>11 DEF BytesResults
-----------------------------------------------------------------------------
(* BigUInt.                                                                *)

\* What a BigUInt makes of a number is one of Bytes, and stands for it.
LEMMA BigUIntFacts ==
  ASSUME NEW n \in Nat, n < Pow(2, ByteBits * MaxBytesSize)
  PROVE  BigUInt(n) \in Texts(MaxBytesSize) /\ IntOf(BigUInt(n)) = n
<1>1. /\ MaxBytesSize \in Nat /\ ByteBits * MaxBytesSize \in Nat /\ MaxBits \in Nat
      /\ ByteBits * MaxBytesSize <= MaxBits
  BY SizeFacts, BaseFacts
<1>2. /\ Pow(2, ByteBits * MaxBytesSize) \in Nat /\ Pow(2, MaxBits) \in Nat
      /\ Pow(2, ByteBits * MaxBytesSize) <= Pow(2, MaxBits)
  BY <1>1, PowOfTwo
<1>3. n \in 0..(Pow(2, MaxBits) - 1) /\ 0 \in Nat
  BY <1>2
<1>4. /\ IntToBytes(n, 0) \in Seq(Byte) /\ IntOf(IntToBytes(n, 0)) = n
      /\ \A k \in 0..MaxBytesSize :
           0 <= k /\ n < Pow(2, ByteBits * k) => Len(IntToBytes(n, 0)) <= k
  BY <1>3, IntToBytesFacts
<1>5. Len(IntToBytes(n, 0)) <= MaxBytesSize
  BY <1>1, <1>4
<1> QED
  BY <1>1, <1>4, <1>5, TextsFacts DEF BigUInt

\* The operands of BigUInt are so small that a sum and a product of two are one of Bytes.
LEMMA BigBounds ==
  /\ MaxBig \in Nat
  /\ \A x, y \in 0..MaxBig : /\ x + y < Pow(2, ByteBits * MaxBytesSize)
                             /\ x * y < Pow(2, ByteBits * MaxBytesSize)
<1> DEFINE e == ByteBits * BigBytes
<1>1. e \in Nat \ {0} /\ ByteBits * MaxBytesSize \in Nat /\ e + e <= ByteBits * MaxBytesSize
  <2>1. \A a, b, c \in Nat \ {0} : 2 * b <= c => a * b \in Nat \ {0} /\ a * b + a * b <= a * c
    <3> SUFFICES ASSUME NEW a \in Nat \ {0}, NEW b \in Nat \ {0}, NEW c \in Nat \ {0}, 2 * b <= c
                 PROVE  a * b \in Nat \ {0} /\ a * b + a * b <= a * c
      OBVIOUS
    <3>1. a * (2 * b) <= a * c
      OBVIOUS
    <3>2. a * (2 * b) = a * b + a * b /\ a * b \in Nat \ {0}
      OBVIOUS
    <3> QED
      BY <3>1, <3>2
  <2> QED
    BY <2>1, SizeFacts
<1>2. PICK p \in Nat \ {0} : p = Pow(2, e)
  BY <1>1, PowOfTwo
<1> HIDE DEF e
<1>3. Pow(2, e + e) = p * p
  BY <1>1, <1>2, PowLaws
<1>4. /\ e + e \in Nat
      /\ Pow(2, e + e) <= Pow(2, ByteBits * MaxBytesSize)
      /\ Pow(2, ByteBits * MaxBytesSize) \in Nat
  BY <1>1, PowOfTwo
<1>5. MaxBig = p - 1
  BY <1>2 DEF MaxBig, e
<1>6. p >= 2
  <2>1. Pow(2, 1) = 2 /\ Pow(2, 1) <= Pow(2, e)
    <3>1. Pow(2, 0) = 1 /\ Pow(2, 0 + 1) = 2 * Pow(2, 0)
      BY PowDef
    <3> QED
      BY <1>1, <3>1, PowOfTwo
  <2> QED
    BY <1>2, <2>1
<1>7. \A x, y \in 0..(p - 1) : x + y < p * p /\ x * y < p * p
  <2> SUFFICES ASSUME NEW x \in 0..(p - 1), NEW y \in 0..(p - 1)
               PROVE  x + y < p * p /\ x * y < p * p
    OBVIOUS
  <2>1. x + y < 2 * p /\ 2 * p <= p * p
    BY <1>6
  <2>2. x * y <= (p - 1) * p
    <3>1. \A a, b, c, d \in Nat : a <= c /\ b <= d => a * b <= c * d
      <4> SUFFICES ASSUME NEW a \in Nat, NEW b \in Nat, NEW c \in Nat, NEW d \in Nat,
                          a <= c, b <= d
                   PROVE  a * b <= c * d
        OBVIOUS
      <4>1. a * b <= c * b /\ c * b <= c * d
        OBVIOUS
      <4> QED
        BY <4>1
    <3> QED
      BY <3>1
  <2>3. (p - 1) * p = p * p - p
    OBVIOUS
  <2> QED
    BY <2>1, <2>2, <2>3
<1>8. p * p \in Nat /\ p * p <= Pow(2, ByteBits * MaxBytesSize)
  BY <1>3, <1>4
<1>9. \A x, y \in 0..(p - 1) : x + y \in Nat /\ x * y \in Nat
  OBVIOUS
<1> QED
  BY <1>4, <1>5, <1>7, <1>8, <1>9

\* A result of BigUInt is what the integer is, when it is one of Bytes.
LEMMA BigCheckedFacts ==
  ASSUME NEW n \in Nat, n < Pow(2, ByteBits * MaxBytesSize)
  PROVE  \E r \in Texts(MaxBytesSize) : BigChecked(n) = {r} /\ IntOf(r) = n
<1>1. BigChecked(n) = {BigUInt(n)}
  BY DEF BigChecked
<1> QED
  BY <1>1, BigUIntFacts

\* The operators of BigUInt raise for an operand above MaxBig.
LEMMA BigUIntRaises ==
  ASSUME NEW s \in Texts(MaxBytesSize), NEW t \in Texts(MaxBytesSize),
         IntOf(s) > MaxBig \/ IntOf(t) > MaxBig
  PROVE  /\ BigPlus(s, t) = {} /\ BigMinus(s, t) = {} /\ BigTimes(s, t) = {}
         /\ BigFloorDiv(s, t) = {} /\ BigModulo(s, t) = {}
<1>1. MaxBig \in Nat /\ IntOf(s) \in Nat /\ IntOf(t) \in Nat
  BY BigBounds, SizeFacts, TextsFacts, IntOfFacts
<1>2. ~BigOperands(s, t)
  BY <1>1 DEF BigOperands
<1> QED
  BY <1>2 DEF BigPlus, BigMinus, BigTimes, BigFloorDiv, BigModulo

\* Otherwise +, - and * are those of integers, but for a negative difference, that raises.
THEOREM BigUIntIsExact ==
  ASSUME NEW s \in Texts(MaxBytesSize), NEW t \in Texts(MaxBytesSize),
         NEW x \in 0..MaxBig, x = IntOf(s), NEW y \in 0..MaxBig, y = IntOf(t)
  PROVE  /\ \E r \in Texts(MaxBytesSize) : BigPlus(s, t) = {r} /\ IntOf(r) = x + y
         /\ \E r \in Texts(MaxBytesSize) : BigTimes(s, t) = {r} /\ IntOf(r) = x * y
         /\ x < y => BigMinus(s, t) = {}
         /\ x >= y =>
              \E r \in Texts(MaxBytesSize) : BigMinus(s, t) = {r} /\ IntOf(r) = x - y
<1>1. MaxBig \in Nat /\ Pow(2, ByteBits * MaxBytesSize) \in Nat
  <2>1. ByteBits * MaxBytesSize \in Nat
    BY SizeFacts
  <2> QED
    BY <2>1, BigBounds, PowOfTwo
<1>2. BigOperands(s, t) /\ x \in Nat /\ y \in Nat
  BY <1>1 DEF BigOperands
<1>3. /\ x + y \in Nat /\ x * y \in Nat
      /\ x + y < Pow(2, ByteBits * MaxBytesSize) /\ x * y < Pow(2, ByteBits * MaxBytesSize)
  BY <1>2, BigBounds
<1>4. \E r \in Texts(MaxBytesSize) : BigPlus(s, t) = {r} /\ IntOf(r) = x + y
  <2>1. BigPlus(s, t) = BigChecked(x + y)
    BY <1>2 DEF BigPlus
  <2> QED
    BY <1>3, <2>1, BigCheckedFacts
<1>5. \E r \in Texts(MaxBytesSize) : BigTimes(s, t) = {r} /\ IntOf(r) = x * y
  <2>1. BigTimes(s, t) = BigChecked(x * y)
    BY <1>2 DEF BigTimes
  <2> QED
    BY <1>3, <2>1, BigCheckedFacts
<1>6. BigMinus(s, t) = BigChecked(x - y)
  BY <1>2 DEF BigMinus
<1>7. x < y => BigMinus(s, t) = {}
  BY <1>2, <1>6 DEF BigChecked
<1>8. ASSUME x >= y
      PROVE  \E r \in Texts(MaxBytesSize) : BigMinus(s, t) = {r} /\ IntOf(r) = x - y
  <2>1. x - y \in Nat /\ x - y <= x + y
    BY <1>2, <1>8
  <2>2. x - y < Pow(2, ByteBits * MaxBytesSize)
    BY <1>1, <1>3, <2>1
  <2> QED
    BY <1>6, <2>1, <2>2, BigCheckedFacts
<1> QED
  BY <1>4, <1>5, <1>7, <1>8

\* So are // and %, but for a division by zero, that raises.
THEOREM BigDivisionIsExact ==
  ASSUME NEW s \in Texts(MaxBytesSize), NEW t \in Texts(MaxBytesSize),
         NEW x \in 0..MaxBig, x = IntOf(s), NEW y \in 0..MaxBig, y = IntOf(t)
  PROVE  /\ y = 0 => BigFloorDiv(s, t) = {} /\ BigModulo(s, t) = {}
         /\ y # 0 => \E q \in Texts(MaxBytesSize), r \in Texts(MaxBytesSize) :
              /\ BigFloorDiv(s, t) = {q} /\ BigModulo(s, t) = {r}
              /\ y * IntOf(q) + IntOf(r) = x /\ IntOf(r) < y
<1>1. MaxBig \in Nat /\ Pow(2, ByteBits * MaxBytesSize) \in Nat
  <2>1. ByteBits * MaxBytesSize \in Nat
    BY SizeFacts
  <2> QED
    BY <2>1, BigBounds, PowOfTwo
<1>2. BigOperands(s, t) /\ x \in Nat /\ y \in Nat
  BY <1>1 DEF BigOperands
<1>3. y = 0 => BigFloorDiv(s, t) = {} /\ BigModulo(s, t) = {}
  BY DEF BigFloorDiv, BigModulo
<1>4. ASSUME y # 0
      PROVE  \E q \in Texts(MaxBytesSize), r \in Texts(MaxBytesSize) :
               /\ BigFloorDiv(s, t) = {q} /\ BigModulo(s, t) = {r}
               /\ y * IntOf(q) + IntOf(r) = x /\ IntOf(r) < y
  <2>1. PICK q \in Nat, r \in 0..(y - 1) : q = x \div y /\ r = x % y /\ x = y * q + r
    BY <1>2, <1>4, Division
  <2>2. q <= x
    <3>1. \A a \in Nat, b \in Nat \ {0} : a <= b * a /\ b * a \in Nat
      OBVIOUS
    <3>2. q <= y * q /\ y * q \in Nat
      BY <1>2, <1>4, <3>1
    <3> QED
      BY <2>1, <3>2
  <2>3. BigFloorDiv(s, t) = BigChecked(q) /\ BigModulo(s, t) = BigChecked(r)
    BY <1>2, <1>4, <2>1 DEF BigFloorDiv, BigModulo
  <2>4. \A n \in 0..MaxBig : n \in Nat /\ n < Pow(2, ByteBits * MaxBytesSize)
    <3> SUFFICES ASSUME NEW n \in 0..MaxBig
                 PROVE  n \in Nat /\ n < Pow(2, ByteBits * MaxBytesSize)
      OBVIOUS
    <3>1. 0 \in 0..MaxBig /\ n + 0 = n
      BY <1>1
    <3>2. n + 0 < Pow(2, ByteBits * MaxBytesSize)
      BY <3>1, BigBounds
    <3> QED
      BY <3>1, <3>2
  <2>5. q \in 0..MaxBig /\ r \in 0..MaxBig /\ r < y
    <3>1. \A a, b, c, d, e \in Nat : a <= b /\ b <= c /\ e <= c /\ d < e => a <= c /\ d <= c
      OBVIOUS
    <3>2. x <= MaxBig /\ y <= MaxBig /\ q \in Nat /\ r \in Nat /\ r < y
      BY <1>1, <1>2
    <3>3. q <= MaxBig /\ r <= MaxBig
      BY <1>1, <1>2, <2>2, <3>1, <3>2
    <3> QED
      BY <3>2, <3>3
  <2>6. PICK u \in Texts(MaxBytesSize) : BigChecked(q) = {u} /\ IntOf(u) = q
    BY <2>4, <2>5, BigCheckedFacts
  <2>7. PICK v \in Texts(MaxBytesSize) : BigChecked(r) = {v} /\ IntOf(v) = r
    BY <2>4, <2>5, BigCheckedFacts
  <2>8. BigFloorDiv(s, t) = {u} /\ BigModulo(s, t) = {v}
    BY <2>3, <2>6, <2>7
  <2>9. y * IntOf(u) + IntOf(v) = x /\ IntOf(v) < y
    BY <2>1, <2>5, <2>6, <2>7
  <2> QED
    BY <2>8, <2>9
<1> QED
  BY <1>3, <1>4

\* bsqrt is the root of the number, and raises for one above MaxBig.
THEOREM BigRootIsFloor ==
  ASSUME NEW s \in Texts(MaxBytesSize), NEW x \in Nat, x = IntOf(s)
  PROVE  /\ x > MaxBig => bsqrt(s) = {}
         /\ x <= MaxBig => \E r \in Texts(MaxBytesSize), n \in Nat :
              bsqrt(s) = {r} /\ IntOf(r) = n /\ n * n <= x /\ x < (n + 1) * (n + 1)
<1>1. MaxBig \in Nat
  BY BigBounds
<1>2. CASE x > MaxBig
  BY <1>1, <1>2 DEF bsqrt, AsInt
<1>3. CASE x <= MaxBig
  <2>1. PICK n \in 0..x : n = Root(x) /\ n * n <= x /\ (n + 1) * (n + 1) > x
    BY RootFacts
  <2>2. bsqrt(s) = {BigUInt(Root(x))}
    <3>1. x \in 0..MaxBig
      BY <1>1, <1>3
    <3> QED
      BY <3>1 DEF bsqrt, AsInt
  <2>3. n \in Nat /\ n < Pow(2, ByteBits * MaxBytesSize)
    <3>1. n \in 0..MaxBig /\ 0 \in 0..MaxBig
      BY <1>1, <1>3
    <3>2. n + 0 < Pow(2, ByteBits * MaxBytesSize)
      BY <3>1, BigBounds
    <3> QED
      BY <3>1, <3>2
  <2>4. x < (n + 1) * (n + 1)
    BY <2>1
  <2>5. BigUInt(n) \in Texts(MaxBytesSize) /\ IntOf(BigUInt(n)) = n
    BY <2>3, BigUIntFacts
  <2> QED
    BY <1>1, <1>3, <2>1, <2>2, <2>3, <2>4, <2>5
<1> QED
  BY <1>1, <1>2, <1>3

\* A bitwise operator of BigUInt gives one of Bytes, and the bits are those of the numbers.
LEMMA BigBitwiseFacts ==
  ASSUME NEW op \in BitOps, NEW s \in Texts(MaxBytesSize), NEW t \in Texts(MaxBytesSize)
  PROVE  \A r \in BigBitwise(op, s, t) :
           r \in Texts(MaxBytesSize) /\ IntOf(r) = Combine(op, IntOf(s), IntOf(t))
<1> SUFFICES ASSUME NEW r \in BigBitwise(op, s, t)
             PROVE  r \in Texts(MaxBytesSize) /\ IntOf(r) = Combine(op, IntOf(s), IntOf(t))
  OBVIOUS
<1>1. BigOperands(s, t) /\ r = Bitwise(op, s, BigUInt(IntOf(t)))
  BY DEF BigBitwise, AsBytes
<1>2. /\ MaxBytesSize \in Nat /\ s \in Seq(Byte) /\ t \in Seq(Byte)
      /\ IntOf(t) \in Nat /\ IntOf(s) \in Nat
  BY SizeFacts, TextsFacts, IntOfFacts
<1>3. IntOf(t) \in 0..MaxBig /\ 0 \in 0..MaxBig
  BY <1>1, <1>2, BigBounds DEF BigOperands
<1>4. IntOf(t) + 0 < Pow(2, ByteBits * MaxBytesSize)
  BY <1>3, BigBounds
<1>5. IntOf(t) < Pow(2, ByteBits * MaxBytesSize)
  BY <1>2, <1>4
<1>6. PICK u \in Texts(MaxBytesSize) : u = BigUInt(IntOf(t)) /\ IntOf(u) = IntOf(t)
  BY <1>2, <1>5, BigUIntFacts
<1>7. Bitwise(op, s, u) \in Texts(MaxBytesSize)
  BY BitwiseTexts
<1>8. IntOf(Bitwise(op, s, u)) = Combine(op, IntOf(s), IntOf(u))
  BY BitwiseOnNumbers
<1> QED
  BY <1>1, <1>6, <1>7, <1>8

\* Whatever the operators of BigUInt and bsqrt compute is one of Bytes.
LEMMA BigUIntResultsAreTexts ==
  ASSUME NEW s \in Texts(MaxBytesSize), NEW t \in Texts(MaxBytesSize)
  PROVE  BigUIntResults(s, t) \subseteq Texts(MaxBytesSize)
<1>1. MaxBytesSize \in Nat /\ MaxBig \in Nat
  BY SizeFacts, BigBounds
<1>2. PICK x \in Nat, y \in Nat : x = IntOf(s) /\ y = IntOf(t)
  BY <1>1, TextsFacts, IntOfFacts
<1>3. /\ BigPlus(s, t) \subseteq Texts(MaxBytesSize)
      /\ BigMinus(s, t) \subseteq Texts(MaxBytesSize)
      /\ BigTimes(s, t) \subseteq Texts(MaxBytesSize)
      /\ BigFloorDiv(s, t) \subseteq Texts(MaxBytesSize)
      /\ BigModulo(s, t) \subseteq Texts(MaxBytesSize)
  <2>1. CASE x > MaxBig \/ y > MaxBig
    BY <1>2, <2>1, BigUIntRaises
  <2>2. CASE x <= MaxBig /\ y <= MaxBig
    <3>1. x \in 0..MaxBig /\ y \in 0..MaxBig
      BY <1>1, <2>2
    <3>2. \E r \in Texts(MaxBytesSize) : BigPlus(s, t) = {r} /\ IntOf(r) = x + y
      BY <1>2, <3>1, BigUIntIsExact, SMTT(30)
    <3>3. \E r \in Texts(MaxBytesSize) : BigTimes(s, t) = {r} /\ IntOf(r) = x * y
      BY <1>2, <3>1, BigUIntIsExact, SMTT(30)
    <3>4. /\ x < y => BigMinus(s, t) = {}
          /\ x >= y => \E r \in Texts(MaxBytesSize) : BigMinus(s, t) = {r} /\ IntOf(r) = x - y
      BY <1>2, <3>1, BigUIntIsExact
    <3>5. /\ y = 0 => BigFloorDiv(s, t) = {} /\ BigModulo(s, t) = {}
          /\ y # 0 => \E q \in Texts(MaxBytesSize), r \in Texts(MaxBytesSize) :
               /\ BigFloorDiv(s, t) = {q} /\ BigModulo(s, t) = {r}
               /\ y * IntOf(q) + IntOf(r) = x /\ IntOf(r) < y
      BY <1>2, <3>1, BigDivisionIsExact
    <3>6. BigMinus(s, t) \subseteq Texts(MaxBytesSize)
      BY <3>4
    <3>7. /\ BigFloorDiv(s, t) \subseteq Texts(MaxBytesSize)
          /\ BigModulo(s, t) \subseteq Texts(MaxBytesSize)
      <4>1. CASE y = 0
        BY <3>5, <4>1
      <4>2. CASE y # 0
        <5>1. PICK q \in Texts(MaxBytesSize), r \in Texts(MaxBytesSize) :
                BigFloorDiv(s, t) = {q} /\ BigModulo(s, t) = {r}
          BY <3>5, <4>2
        <5> QED
          BY <5>1
      <4> QED
        BY <4>1, <4>2
    <3> QED
      BY <3>2, <3>3, <3>6, <3>7
  <2> QED
    BY <1>1, <2>1, <2>2
<1>4. bsqrt(s) \subseteq Texts(MaxBytesSize)
  <2>1. CASE x > MaxBig
    BY <1>2, <2>1, BigRootIsFloor
  <2>2. CASE x <= MaxBig
    BY <1>2, <2>2, BigRootIsFloor
  <2> QED
    BY <1>1, <2>1, <2>2
<1>5. \A op \in BitOps : BigBitwise(op, s, t) \subseteq Texts(MaxBytesSize)
  BY BigBitwiseFacts
<1> QED
  BY <1>3, <1>4, <1>5 DEF BigUIntResults

-----------------------------------------------------------------------------
(* FixedBytes.                                                             *)

\* The empty byte string is one of Bytes.
LEMMA EmptyText == \A n \in Nat : << >> \in Texts(n)
<1> SUFFICES ASSUME NEW n \in Nat PROVE << >> \in Texts(n)
  OBVIOUS
<1>1. PICK s \in Seq(Byte) : s = << >> /\ Len(s) = 0
  <2>1. << >> \in Seq(Byte) /\ Len(<< >>) = 0
    OBVIOUS
  <2> QED
    BY <2>1
<1>2. Len(s) <= n
  BY <1>1
<1> QED
  BY <1>1, <1>2, TextsFacts

\* A value as a contract holds it.
ValueOK(v) ==
  /\ v.kind \in {"uint64", "bytes", "biguint", "fixed"}
  /\ v.num \in Nat /\ v.str \in Texts(MaxBytesSize)
  /\ v.kind = "uint64" => v.num \in Word
  /\ v.kind = "fixed" => v.num <= MaxBytesSize

\* The values an operation builds.
LEMMA ValuesOK ==
  /\ \A n \in Word : ValueOK(UInt64Of(n))
  /\ \A s \in Texts(MaxBytesSize) : ValueOK(BytesOf(s)) /\ ValueOK(BigUIntOf(s))
  /\ \A n \in 0..MaxBytesSize, s \in Texts(MaxBytesSize) : ValueOK(FixedBytesOf(n, s))
<1>1. MaxBytesSize \in Nat /\ MaxWord \in Nat
  BY SizeFacts, BaseFacts
<1>2. << >> \in Texts(MaxBytesSize)
  BY <1>1, EmptyText
<1>3. \A n \in Word : n \in Nat
  BY WordFacts
<1>4. \A n \in Word : ValueOK(UInt64Of(n))
  BY <1>2, <1>3 DEF ValueOK, UInt64Of
<1>5. \A s \in Texts(MaxBytesSize) : ValueOK(BytesOf(s)) /\ ValueOK(BigUIntOf(s))
  BY DEF ValueOK, BytesOf, BigUIntOf
<1>6. \A n \in 0..MaxBytesSize, s \in Texts(MaxBytesSize) : ValueOK(FixedBytesOf(n, s))
  BY <1>1 DEF ValueOK, FixedBytesOf
<1> QED
  BY <1>4, <1>5, <1>6

\* A bitwise result is FixedBytes of the type of the left operand, or Bytes; as it is for
\* the operand of the right length, the length stays.
LEMMA FixedBitwiseFacts ==
  ASSUME NEW f, ValueOK(f), f.kind = "fixed", NEW other, other.str \in Texts(MaxBytesSize),
         NEW op \in BitOps, NEW r, r = FixedBitwise(op, f, other)
  PROVE  /\ ValueOK(r)
         /\ r.kind = "fixed" => /\ r.num = f.num /\ Len(r.str) = Len(f.str)
                                /\ other.kind = "fixed" /\ Len(other.str) = Len(f.str)
<1>1. PICK s \in Texts(MaxBytesSize), t \in Texts(MaxBytesSize), n \in 0..MaxBytesSize :
        s = f.str /\ t = other.str /\ n = f.num
  <2>1. MaxBytesSize \in Nat
    BY SizeFacts
  <2> QED
    BY <2>1 DEF ValueOK
<1>2. PICK b \in Texts(MaxBytesSize) :
        b = Bitwise(op, s, t) /\ Len(b) = IF Len(s) >= Len(t) THEN Len(s) ELSE Len(t)
  BY BitwiseTexts
<1>3. r = Typed(f, other, b)
  BY <1>1, <1>2 DEF FixedBitwise
<1>4. CASE other.kind = "fixed" /\ Len(other.str) = Len(f.str)
  <2>1. r = FixedBytesOf(n, b)
    BY <1>1, <1>3, <1>4 DEF Typed, FixedFromBytes
  <2>2. Len(s) \in Nat /\ Len(b) = Len(s)
    <3>1. Len(s) \in Nat /\ Len(t) = Len(s)
      BY <1>1, <1>4, SizeFacts, TextsFacts
    <3> QED
      BY <1>2, <3>1
  <2>3. r.num = n /\ r.str = b
    BY <2>1 DEF FixedBytesOf
  <2> QED
    BY <1>1, <1>4, <2>1, <2>2, <2>3, ValuesOK
<1>5. CASE ~(other.kind = "fixed" /\ Len(other.str) = Len(f.str))
  <2>1. r = BytesOf(b)
    BY <1>3, <1>5 DEF Typed
  <2>2. r.kind # "fixed"
    BY <2>1 DEF BytesOf
  <2> QED
    BY <2>1, <2>2, ValuesOK
<1> QED
  BY <1>4, <1>5
\* What FixedBytes computes is a value, and one of its type and length or Bytes.
LEMMA FixedResultsFacts ==
  ASSUME NEW f, ValueOK(f), f.kind = "fixed", NEW other, other.str \in Texts(MaxBytesSize),
         NEW r \in FixedResults(f, other)
  PROVE  ValueOK(r) /\ (r.kind = "fixed" => r.num = f.num /\ Len(r.str) = Len(f.str))
<1>1. PICK s \in Texts(MaxBytesSize), t \in Texts(MaxBytesSize), n \in 0..MaxBytesSize :
        s = f.str /\ t = other.str /\ n = f.num
  <2>1. MaxBytesSize \in Nat
    BY SizeFacts
  <2> QED
    BY <2>1 DEF ValueOK
<1>2. /\ MaxBytesSize \in Nat /\ s \in Seq(Byte) /\ Len(s) <= MaxBytesSize /\ Len(s) \in Nat
      /\ t \in Seq(Byte) /\ Len(t) \in Nat
  BY SizeFacts, TextsFacts
<1>3. \A v \in Seq(Byte) : Len(v) <= Len(s) => v \in Texts(MaxBytesSize)
  <2>1. \A v \in Seq(Byte) : Len(v) \in Nat
    OBVIOUS
  <2> QED
    BY <1>2, <2>1, TextsFacts
<1>4. \A v \in Texts(MaxBytesSize) : ValueOK(BytesOf(v)) /\ BytesOf(v).kind # "fixed"
  <2>1. \A v : BytesOf(v).kind # "fixed"
    BY DEF BytesOf
  <2> QED
    BY <2>1, ValuesOK
<1>5. CASE \E op \in BitOps : r = FixedBitwise(op, f, other)
  BY <1>5, FixedBitwiseFacts
<1>6. CASE \E op \in BitOps : r \in FixedInPlace(op, f, other.str)
  <2>1. PICK op \in BitOps : r \in FixedInPlace(op, f, other.str)
    BY <1>6
  <2>2. PICK g \in FixedNew(f.num, other.str) : r = FixedBitwise(op, f, g)
    BY <2>1 DEF FixedInPlace
  <2>3. g.str = other.str
    BY <2>2 DEF FixedNew, FixedBytesOf
  <2> QED
    BY <2>2, <2>3, FixedBitwiseFacts
<1>7. CASE r = FixedInvert(f)
  <2>1. r = FixedBytesOf(n, InvertBytes(s))
    BY <1>1, <1>7 DEF FixedInvert, FixedFromBytes
  <2>2. InvertBytes(s) \in Seq(Byte) /\ Len(InvertBytes(s)) = Len(s)
    BY <1>2, InvertBytesFacts
  <2>3. InvertBytes(s) \in Texts(MaxBytesSize)
    BY <1>2, <1>3, <2>2
  <2>4. r.num = n /\ r.str = InvertBytes(s)
    BY <2>1 DEF FixedBytesOf
  <2> QED
    BY <1>1, <2>1, <2>2, <2>3, <2>4, ValuesOK
<1>8. CASE r = BytesOf(f.str)
  BY <1>1, <1>4, <1>8
<1>9. CASE \E v \in Concat(f.str, other.str) : r = BytesOf(v)
  <2>1. Concat(s, t) \subseteq Texts(MaxBytesSize)
    BY <1>2, ConcatFacts
  <2> QED
    BY <1>1, <1>4, <1>9, <2>1
<1>10. CASE \E v \in FixedItem(f, Len(other.str)) : r = BytesOf(v)
  <2>1. PICK v \in FixedItem(f, Len(other.str)) : r = BytesOf(v)
    BY <1>10
  <2>2. PICK i \in Nat : v = Slice(Slice(s, 0, n), i, i + 1)
    <3>1. ~(Len(t) < 0)
      BY <1>2
    <3>2. v = Slice(Slice(f.str, 0, f.num), Len(t), Len(t) + 1)
      BY <1>1, <2>1, <3>1 DEF FixedItem
    <3> QED
      BY <1>1, <1>2, <3>2
  <2>3. PICK u \in Seq(Byte) : u = Slice(s, 0, n) /\ Len(u) <= Len(s)
    <3>1. 0 \in Int /\ n \in Int
      BY <1>2
    <3> QED
      BY <1>2, <3>1, SliceFacts
  <2>4. Slice(u, i, i + 1) \in Seq(Byte) /\ Len(Slice(u, i, i + 1)) <= Len(u)
    <3>1. i \in Int /\ i + 1 \in Int
      OBVIOUS
    <3> QED
      BY <3>1, SliceFacts
  <2>5. v \in Texts(MaxBytesSize)
    <3>1. \A a, b, c \in Nat : a <= b /\ b <= c => a <= c
      OBVIOUS
    <3>2. v \in Seq(Byte) /\ Len(v) \in Nat /\ Len(u) \in Nat
      BY <2>2, <2>3, <2>4
    <3>3. Len(v) <= Len(s)
      BY <1>2, <2>2, <2>3, <2>4, <3>1, <3>2
    <3> QED
      BY <1>3, <3>2, <3>3
  <2> QED
    BY <1>4, <2>1, <2>5
<1> QED
  BY <1>5, <1>6, <1>7, <1>8, <1>9, <1>10 DEF FixedResults
-----------------------------------------------------------------------------
(* The walk of an iterator, and the inductive invariant.                   *)

\* How many bytes the iterator was made for.
WalkLength(it) == IF it.step > 0 THEN it.end + 1 ELSE it.current + 1 + Len(it.yielded)

\* An iterator is where its history says: it yielded the first bytes of the walk, in the
\* order of the walk, and not more than there are.
WalkIsOn(it) ==
  LET n == Len(it.yielded) IN
  /\ it \in [over : Texts(MaxBytesSize), current : Int, step : {1, -1}, end : Int,
             yielded : Seq(Seq(Byte))]
  /\ WalkLength(it) \in 0..MaxBytesSize /\ n <= WalkLength(it)
  /\ IF it.step > 0 THEN it.current = n ELSE it.end = 0
  /\ \A k \in 1..n : LET at == IF it.step > 0 THEN k - 1 ELSE WalkLength(it) - k IN
                     it.yielded[k] = Slice(it.over, at, at + 1)

\* The value at hand does not change while the iterator walks over it.
WordsInv ==
  /\ ValueOK(value)
  /\ WalkIsOn(iter)
  /\ iter # NoIter =>
       /\ value.kind \in {"bytes", "fixed"} /\ iter.over = value.str
       /\ WalkLength(iter) = IF value.kind = "fixed" THEN value.num ELSE Len(value.str)

\* A walk starts with nothing yielded, its length that of the value.
LEMMA WalkStarts ==
  ASSUME NEW s \in Texts(MaxBytesSize), NEW n \in 0..MaxBytesSize, NEW step \in {1, -1}
  PROVE  /\ WalkIsOn(IterOf(s, n, step)) /\ WalkLength(IterOf(s, n, step)) = n
         /\ IterOf(s, n, step).over = s /\ IterOf(s, n, step).yielded = << >>
<1> DEFINE it == IterOf(s, n, step)
<1>1. MaxBytesSize \in Nat /\ n \in Int /\ n - 1 \in Int
  BY SizeFacts
<1>2. /\ it.over = s /\ it.step = step /\ it.yielded = << >>
      /\ it.current = IF step > 0 THEN 0 ELSE n - 1
      /\ it.end = IF step > 0 THEN n - 1 ELSE 0
      /\ it = [over |-> s, current |-> it.current, step |-> step, end |-> it.end,
               yielded |-> << >>]
  BY DEF IterOf
<1>3. << >> \in Seq(Seq(Byte)) /\ Len(<< >>) = 0
  OBVIOUS
<1> HIDE DEF it
<1>4. WalkLength(it) = n
  BY <1>1, <1>2, <1>3 DEF WalkLength
<1>5. WalkIsOn(it)
  <2>1. 0 <= n /\ \A k \in 1..0 : FALSE
    OBVIOUS
  <2>2. it \in [over : Texts(MaxBytesSize), current : Int, step : {1, -1}, end : Int,
                yielded : Seq(Seq(Byte))]
    <3>1. it.current \in Int /\ it.end \in Int
      BY <1>1, <1>2
    <3> QED
      BY <1>2, <1>3, <3>1
  <2>3. IF it.step > 0 THEN it.current = 0 ELSE it.end = 0
    BY <1>2
  <2> QED
    BY <1>1, <1>2, <1>3, <1>4, <2>1, <2>2, <2>3 DEF WalkIsOn
<1> QED
  BY <1>2, <1>4, <1>5 DEF it

\* A walk that does not stop has a byte left, and yields the next one.
LEMMA WalkGoesOn ==
  ASSUME NEW it, WalkIsOn(it), ~IterStops(it)
  PROVE  /\ WalkIsOn(IterNext(it)) /\ WalkLength(IterNext(it)) = WalkLength(it)
         /\ IterNext(it).over = it.over
<1> DEFINE next == IterNext(it)
           n == Len(it.yielded)
           m == WalkLength(it)
<1>1. /\ it \in [over : Texts(MaxBytesSize), current : Int, step : {1, -1}, end : Int,
                 yielded : Seq(Seq(Byte))]
      /\ m \in Nat /\ m \in 0..MaxBytesSize /\ n \in Nat /\ n <= m
      /\ IF it.step > 0 THEN it.current = n ELSE it.end = 0
      /\ \A k \in 1..n : LET at == IF it.step > 0 THEN k - 1 ELSE m - k IN
                         it.yielded[k] = Slice(it.over, at, at + 1)
  <2>1. \A q \in Seq(Seq(Byte)) : Len(q) \in Nat
    OBVIOUS
  <2> QED
    BY <2>1, SizeFacts DEF WalkIsOn
<1>2. PICK b \in Seq(Byte) : b = Slice(it.over, it.current, it.current + 1)
  <2>1. it.over \in Seq(Byte) /\ it.current \in Int /\ it.current + 1 \in Int
    BY <1>1, SizeFacts, TextsFacts
  <2> QED
    BY <2>1, SliceFacts
<1>3. /\ next.over = it.over /\ next.step = it.step /\ next.end = it.end
      /\ next.current = it.current + it.step /\ next.yielded = Append(it.yielded, b)
      /\ next = [over |-> it.over, current |-> it.current + it.step, step |-> it.step,
                 end |-> it.end, yielded |-> Append(it.yielded, b)]
  <2>1. it = [over |-> it.over, current |-> it.current, step |-> it.step, end |-> it.end,
              yielded |-> it.yielded]
    BY <1>1
  <2>2. next = [it EXCEPT !.current = it.current + it.step, !.yielded = Append(it.yielded, b)]
    BY <1>1, <1>2 DEF IterNext
  <2>3. next = [over |-> it.over, current |-> it.current + it.step, step |-> it.step,
                end |-> it.end, yielded |-> Append(it.yielded, b)]
    BY <1>1, <2>1, <2>2
  <2> QED
    BY <2>3
<1>4. /\ Append(it.yielded, b) \in Seq(Seq(Byte)) /\ Len(Append(it.yielded, b)) = n + 1
      /\ Append(it.yielded, b)[n + 1] = b
      /\ \A k \in 1..n : Append(it.yielded, b)[k] = it.yielded[k]
  <2>1. \A q \in Seq(Seq(Byte)), c \in Seq(Byte) :
          /\ Append(q, c) \in Seq(Seq(Byte)) /\ Len(Append(q, c)) = Len(q) + 1
          /\ Append(q, c)[Len(q) + 1] = c
          /\ \A k \in 1..Len(q) : Append(q, c)[k] = q[k]
    BY AppendProperties
  <2> QED
    BY <1>1, <2>1
<1>5. next \in [over : Texts(MaxBytesSize), current : Int, step : {1, -1}, end : Int,
                yielded : Seq(Seq(Byte))]
  BY <1>1, <1>3, <1>4
<1>6. /\ m = IF it.step > 0 THEN it.end + 1 ELSE it.current + 1 + n
      /\ WalkLength(next) = IF next.step > 0 THEN next.end + 1
                            ELSE next.current + 1 + Len(next.yielded)
      /\ it.current # it.end + it.step
  BY DEF WalkLength, IterStops
<1> HIDE DEF next, m, n
<1>7. WalkLength(next) = m /\ n + 1 <= m
  <2>1. CASE it.step = 1
    BY <1>1, <1>3, <1>6, <2>1
  <2>2. CASE it.step = -1
    BY <1>1, <1>3, <1>4, <1>6, <2>2
  <2> QED
    BY <1>1, <2>1, <2>2
<1>8. IF next.step > 0 THEN next.current = n + 1 ELSE next.end = 0
  BY <1>1, <1>3
<1>9. ASSUME NEW k \in 1..(n + 1)
      PROVE  LET at == IF next.step > 0 THEN k - 1 ELSE m - k IN
             next.yielded[k] = Slice(next.over, at, at + 1)
  <2>1. CASE k \in 1..n
    BY <1>1, <1>3, <1>4, <2>1
  <2>2. CASE k = n + 1
    <3>1. it.current = IF it.step > 0 THEN k - 1 ELSE m - k
      BY <1>1, <1>6, <2>2
    <3>2. next.yielded[k] = b
      BY <1>3, <1>4, <2>2
    <3> QED
      BY <1>2, <1>3, <3>1, <3>2
  <2> QED
    BY <1>1, <2>1, <2>2
<1>10. Len(next.yielded) = n + 1
  BY <1>3, <1>4
<1>11. WalkIsOn(next)
  BY <1>1, <1>5, <1>7, <1>8, <1>9, <1>10 DEF WalkIsOn
<1> QED
  BY <1>3, <1>7, <1>11 DEF next, m
\* Outside a walk the invariant is that the value is one.
LEMMA NoWalk ==
  /\ WalkIsOn(NoIter) /\ WalkLength(NoIter) = 0 /\ IterStops(NoIter)
  /\ NoIter.over = << >> /\ NoIter.yielded = << >>
<1>1. << >> \in Texts(MaxBytesSize) /\ 0 \in 0..MaxBytesSize
  BY EmptyText, SizeFacts
<1>2. IterStops(NoIter)
  BY DEF IterStops, NoIter, IterOf
<1>3. PICK s \in Texts(MaxBytesSize), step \in {1, -1} : s = << >> /\ step = 1
  BY <1>1
<1> QED
  BY <1>1, <1>2, <1>3, WalkStarts DEF NoIter

\* The invariant at the start.
LEMMA InvInit == WordsInit => WordsInv
<1> SUFFICES ASSUME WordsInit PROVE WordsInv
  OBVIOUS
<1>1. NoIter.over \in Texts(MaxBytesSize) /\ NoIter.over = << >>
  BY NoWalk DEF WalkIsOn
<1> QED
  BY <1>1, NoWalk, ValuesOK DEF WordsInit, WordsInv

\* A computed value is one.
LEMMA ComputedOK ==
  ASSUME WordsInv, UInt64Step \/ BytesStep \/ BigUIntStep \/ FixedBytesStep
  PROVE  ValueOK(value') /\ iter' = iter
<1>1. ValueOK(value) /\ value.str \in Texts(MaxBytesSize) /\ MaxBytesSize \in Nat
  BY SizeFacts DEF WordsInv, ValueOK
<1>2. CASE UInt64Step
  <2>1. PICK b \in Word :
          \E r \in UInt64Results(value.num, b) \cup OpResults(value.num, b) : Becomes(UInt64Of(r))
    BY <1>2 DEF UInt64Step
  <2>2. PICK r \in UInt64Results(value.num, b) \cup OpResults(value.num, b) : Becomes(UInt64Of(r))
    BY <2>1
  <2>3. value.num \in Word
    BY <1>1, <1>2 DEF UInt64Step, ValueOK
  <2>4. r \in Word
    BY <2>2, <2>3, UInt64ResultsAreWords
  <2> QED
    BY <2>2, <2>4, ValuesOK DEF Becomes
<1>3. CASE BytesStep
  <2>1. PICK t \in Operands, i \in 0..MaxBytesSize :
          \E r \in BytesResults(value.str, t, i) : Becomes(BytesOf(r))
    BY <1>3 DEF BytesStep
  <2>2. PICK r \in BytesResults(value.str, t, i) : Becomes(BytesOf(r))
    BY <2>1
  <2>3. r \in Texts(MaxBytesSize)
    <3>1. i \in Nat
      OBVIOUS
    <3> QED
      BY <1>1, <2>2, <3>1, BytesResultsAreTexts
  <2> QED
    BY <2>2, <2>3, ValuesOK DEF Becomes
<1>4. CASE BigUIntStep
  <2>1. PICK t \in Operands : \E r \in BigUIntResults(value.str, t) : Becomes(BigUIntOf(r))
    BY <1>4 DEF BigUIntStep
  <2>2. PICK r \in BigUIntResults(value.str, t) : Becomes(BigUIntOf(r))
    BY <2>1
  <2>3. r \in Texts(MaxBytesSize)
    BY <1>1, <2>2, OperandsAreTexts, BigUIntResultsAreTexts
  <2> QED
    BY <2>2, <2>3, ValuesOK DEF Becomes
<1>5. CASE FixedBytesStep
  <2>1. PICK t \in Operands : \E other \in {BytesOf(t), FixedBytesOf(Len(t), t)} :
          \E r \in FixedResults(value, other) : Becomes(r)
    BY <1>5 DEF FixedBytesStep
  <2>2. PICK other \in {BytesOf(t), FixedBytesOf(Len(t), t)} :
          \E r \in FixedResults(value, other) : Becomes(r)
    BY <2>1
  <2>3. PICK r \in FixedResults(value, other) : Becomes(r)
    BY <2>2
  <2>4. other.str \in Texts(MaxBytesSize) /\ value.kind = "fixed"
    BY <1>5, <2>2, OperandsAreTexts DEF BytesOf, FixedBytesOf, FixedBytesStep
  <2>5. ValueOK(r)
    BY <1>1, <2>3, <2>4, FixedResultsFacts
  <2> QED
    BY <2>3, <2>5 DEF Becomes
<1> QED
  BY <1>2, <1>3, <1>4, <1>5

\* So is a converted one.
LEMMA ConvertedOK ==
  ASSUME WordsInv, Convert
  PROVE  ValueOK(value') /\ iter' = iter
<1>1. /\ ValueOK(value) /\ value.str \in Texts(MaxBytesSize) /\ MaxBytesSize \in Nat
      /\ value.str \in Seq(Byte) /\ Len(value.str) \in 0..MaxBytesSize
  <2>1. /\ ValueOK(value) /\ value.str \in Texts(MaxBytesSize) /\ MaxBytesSize \in Nat
    BY SizeFacts DEF WordsInv, ValueOK
  <2>2. value.str \in Seq(Byte) /\ Len(value.str) <= MaxBytesSize
    BY <2>1, TextsFacts
  <2> QED
    BY <2>1, <2>2
<1>2. ASSUME value.kind = "uint64",
             \/ Becomes(BytesOf(itob(value.num)))
             \/ Becomes(BigUIntOf(IntToBytes(value.num, WordBytes)))
      PROVE  ValueOK(value') /\ iter' = iter
  <2>1. PICK a \in Word : a = value.num
    BY <1>1, <1>2 DEF ValueOK
  <2>2. itob(a) \in Texts(MaxBytesSize)
    BY ItobFacts
  <2>3. IntToBytes(a, WordBytes) \in Texts(MaxBytesSize)
    <3>1. a \in 0..(Pow(2, MaxBits) - 1) /\ a < Pow(2, ByteBits * WordBytes)
      BY WordFacts, BaseFacts
    <3>2. WordBytes \in Nat /\ WordBytes \in 0..MaxBytesSize /\ WordBytes <= WordBytes
      BY SizeFacts
    <3>3. IntToBytes(a, WordBytes) \in Seq(Byte) /\ Len(IntToBytes(a, WordBytes)) <= WordBytes
      BY <3>1, <3>2, IntToBytesFacts
    <3>4. Len(IntToBytes(a, WordBytes)) \in Nat
      BY <3>3
    <3>5. Len(IntToBytes(a, WordBytes)) <= MaxBytesSize
      BY <1>1, <3>2, <3>3, <3>4
    <3> QED
      BY <1>1, <3>3, <3>5, TextsFacts
  <2> QED
    BY <1>2, <2>1, <2>2, <2>3, ValuesOK DEF Becomes
<1>3. ASSUME NEW n \in btoi(value.str), Becomes(UInt64Of(n))
      PROVE  ValueOK(value') /\ iter' = iter
  <2>1. ~(Len(value.str) > WordBytes) /\ n = IntOf(value.str)
    BY <1>3 DEF btoi
  <2>2. n \in Word
    BY <1>1, <2>1, SizeFacts, WordOfBytes
  <2> QED
    BY <1>3, <2>2, ValuesOK DEF Becomes
<1>4. ASSUME \/ Becomes(BigUIntOf(value.str)) \/ Becomes(BytesOf(value.str))
             \/ \E f \in FixedNew(Len(value.str), value.str) : Becomes(f)
             \/ \E n \in 1..OperandBytes : Becomes(FixedFromBytes(n, value.str))
      PROVE  ValueOK(value') /\ iter' = iter
  <2>1. \A n \in 1..OperandBytes : n \in 0..MaxBytesSize
    BY SizeFacts
  <2> QED
    BY <1>1, <1>4, <2>1, ValuesOK DEF Becomes, FixedNew, FixedFromBytes
<1> QED
  BY <1>2, <1>3, <1>4 DEF Convert

\* A walk starts over the value as it is, moves over the same value, and is left.
LEMMA InvWalks ==
  ASSUME WordsInv, StartIter \/ NextByte \/ StopIter
  PROVE  WordsInv'
<1>1. ValueOK(value) /\ WalkIsOn(iter) /\ value' = value
  BY DEF WordsInv, StartIter, NextByte, StopIter
<1>2. CASE StartIter
  <2>1. PICK step \in {1, -1}, n \in 0..MaxBytesSize :
          /\ iter' = IterOf(value.str, n, step) /\ value.kind \in {"bytes", "fixed"}
          /\ n = IF value.kind = "fixed" THEN value.num ELSE Len(value.str)
    <3>1. (IF value.kind = "fixed" THEN value.num ELSE Len(value.str)) \in 0..MaxBytesSize
      <4>1. value.str \in Texts(MaxBytesSize) /\ MaxBytesSize \in Nat
        BY <1>1, SizeFacts DEF ValueOK
      <4>2. value.str \in Seq(Byte) /\ Len(value.str) <= MaxBytesSize
        BY <4>1, TextsFacts
      <4>3. Len(value.str) \in 0..MaxBytesSize
        BY <4>1, <4>2
      <4> QED
        BY <1>1, <4>1, <4>3 DEF ValueOK
    <3> QED
      BY <1>2, <3>1 DEF StartIter
  <2>2. value.str \in Texts(MaxBytesSize)
    BY <1>1 DEF ValueOK
  <2>3. WalkIsOn(iter') /\ WalkLength(iter') = n /\ iter'.over = value.str
    BY <2>1, <2>2, WalkStarts
  <2> QED
    BY <1>1, <2>1, <2>3 DEF WordsInv
<1>3. CASE NextByte
  <2>1. ~IterStops(iter) /\ iter' = IterNext(iter)
    BY <1>3 DEF NextByte
  <2>2. iter # NoIter
    BY <2>1, NoWalk
  <2>3. WalkIsOn(iter') /\ WalkLength(iter') = WalkLength(iter) /\ iter'.over = iter.over
    BY <1>1, <2>1, WalkGoesOn
  <2> QED
    BY <1>1, <2>2, <2>3 DEF WordsInv
<1>4. CASE StopIter
  BY <1>1, <1>4, NoWalk DEF StopIter, WordsInv
<1> QED
  BY <1>2, <1>3, <1>4

\* Every step keeps it.
LEMMA InvStep == WordsInv /\ [WordsNext]_wordVars => WordsInv'
<1> SUFFICES ASSUME WordsInv, [WordsNext]_wordVars PROVE WordsInv'
  OBVIOUS
<1>1. CASE UNCHANGED wordVars
  BY <1>1 DEF wordVars, WordsInv
<1>2. CASE iter = NoIter /\ (UInt64Step \/ BytesStep \/ BigUIntStep \/ FixedBytesStep \/ Convert)
  <2>1. ValueOK(value') /\ iter' = iter
    BY <1>2, ComputedOK, ConvertedOK
  <2> QED
    BY <1>2, <2>1, NoWalk DEF WordsInv
<1>3. CASE StartIter \/ NextByte \/ StopIter
  BY <1>3, InvWalks
<1> QED
  BY <1>1, <1>2, <1>3 DEF WordsNext

\* The inductive invariant holds in every state.
THEOREM WordsInvariant == WordsSpec => []WordsInv
  BY InvInit, InvStep, PTL DEF WordsSpec
-----------------------------------------------------------------------------
(* The properties of a walk and of FixedBytes.                             *)

\* Type correctness: a UInt64 is a word, a byte string one of Bytes, and the iterator is at
\* most one step outside.
THEOREM WordsTypes == WordsSpec => []WordsTypeOK
<1>1. WordsInv => WordsTypeOK
  <2> SUFFICES ASSUME WordsInv PROVE WordsTypeOK
    OBVIOUS
  <2>1. ValueOK(value) /\ WalkIsOn(iter) /\ MaxBytesSize \in Nat
    BY SizeFacts DEF WordsInv
  <2>2. /\ Len(iter.yielded) \in Nat /\ iter.step \in {1, -1} /\ iter.current \in Int
        /\ WalkLength(iter) \in 0..MaxBytesSize /\ Len(iter.yielded) <= WalkLength(iter)
        /\ iter.step > 0 => iter.current = Len(iter.yielded)
    BY <2>1 DEF WalkIsOn
  <2>3. ~(iter.step > 0) => WalkLength(iter) = iter.current + 1 + Len(iter.yielded)
    BY DEF WalkLength
  <2>4. iter.current \in -1..MaxBytesSize
    BY <2>1, <2>2, <2>3
  <2> QED
    BY <2>1, <2>4 DEF WordsTypeOK, ValueOK, WalkIsOn
<1> QED
  BY <1>1, WordsInvariant, PTL

\* An iterator yields every byte once, in its order, and stops when all were yielded.
THEOREM WalksYieldAll == WordsSpec => []IteratorsYieldAll
<1>1. WordsInv => IteratorsYieldAll
  <2> SUFFICES ASSUME WordsInv, value.kind = "bytes" \/ Len(value.str) = value.num
               PROVE  /\ \A k \in 1..Len(iter.yielded) :
                           iter.yielded[k]
                             = Item(iter.over, IF iter.step > 0 THEN k - 1 ELSE -k)
                      /\ IterStops(iter) <=> Len(iter.yielded) = Len(iter.over)
    BY DEF IteratorsYieldAll
  <2> DEFINE n == Len(iter.yielded)
             m == Len(iter.over)
  <2>1. /\ WalkIsOn(iter) /\ MaxBytesSize \in Nat
        /\ iter.over \in Seq(Byte) /\ m \in Nat /\ n \in Nat
    <3>1. \A s \in Seq(Byte) : Len(s) \in Nat
      OBVIOUS
    <3>2. \A s \in Seq(Seq(Byte)) : Len(s) \in Nat
      OBVIOUS
    <3>3. WalkIsOn(iter) /\ MaxBytesSize \in Nat
      BY SizeFacts DEF WordsInv
    <3>4. iter.over \in Texts(MaxBytesSize) /\ iter.yielded \in Seq(Seq(Byte))
      BY <3>3 DEF WalkIsOn
    <3>5. iter.over \in Seq(Byte)
      BY <3>3, <3>4, TextsFacts
    <3> QED
      BY <3>1, <3>2, <3>3, <3>4, <3>5
  <2>2. WalkLength(iter) = m
    <3>1. CASE iter = NoIter
      <4>1. m = 0
        BY <3>1, NoWalk
      <4> QED
        BY <3>1, <4>1, NoWalk
    <3>2. CASE iter # NoIter
      BY <3>2 DEF WordsInv
    <3> QED
      BY <3>1, <3>2
  <2>3. /\ iter.step \in {1, -1} /\ iter.current \in Int /\ iter.end \in Int /\ n <= m
        /\ IF iter.step > 0 THEN iter.current = n ELSE iter.end = 0
        /\ \A k \in 1..n : LET at == IF iter.step > 0 THEN k - 1 ELSE m - k IN
                           iter.yielded[k] = Slice(iter.over, at, at + 1)
    BY <2>1, <2>2 DEF WalkIsOn
  <2>4. m = IF iter.step > 0 THEN iter.end + 1 ELSE iter.current + 1 + n
    BY <2>2 DEF WalkLength
  <2>5. IterStops(iter) <=> iter.current = iter.end + iter.step
    BY DEF IterStops
  <2>6. ASSUME NEW k \in 1..n
        PROVE  iter.yielded[k] = Item(iter.over, IF iter.step > 0 THEN k - 1 ELSE -k)
    <3>1. CASE iter.step = 1
      <4>1. iter.yielded[k] = Slice(iter.over, k - 1, (k - 1) + 1)
        BY <2>3, <3>1
      <4>2. Item(iter.over, k - 1) = Slice(iter.over, k - 1, (k - 1) + 1)
        <5>1. ~(k - 1 < 0)
          BY <2>1
        <5> QED
          BY <5>1 DEF Item
      <4> QED
        BY <3>1, <4>1, <4>2
    <3>2. CASE iter.step = -1
      <4>1. iter.yielded[k] = Slice(iter.over, m - k, (m - k) + 1)
        BY <2>3, <3>2
      <4>2. Item(iter.over, -k) = Slice(iter.over, m - k, (m - k) + 1)
        <5>1. \A a, b \in Int : a >= 1 => -a < 0 /\ b + (-a) = b - a
          OBVIOUS
        <5>2. k \in Int /\ k >= 1 /\ m \in Int
          BY <2>1
        <5>3. -k < 0 /\ m + (-k) = m - k
          BY <5>1, <5>2
        <5> QED
          BY <5>3 DEF Item
      <4> QED
        BY <3>2, <4>1, <4>2
    <3> QED
      BY <2>3, <3>1, <3>2
  <2> HIDE DEF n, m
  <2>7. iter.current = iter.end + iter.step <=> n = m
    <3>1. CASE iter.step = 1
      BY <2>1, <2>3, <2>4, <3>1
    <3>2. CASE iter.step = -1
      BY <2>1, <2>3, <2>4, <3>2
    <3> QED
      BY <2>3, <3>1, <3>2
  <2> QED
    BY <2>5, <2>6, <2>7 DEF n, m
<1> QED
  BY <1>1, WordsInvariant, PTL

\* No operator changes the length of FixedBytes that has the one of its type.
THEOREM FixedBytesKeepTheirLength == WordsSpec => FixedKeepsLength
<1>1. ASSUME WordsInv, [WordsNext]_wordVars, value.kind = "fixed", value'.kind = "fixed",
             Len(value.str) = value.num
      PROVE  value'.num = value.num /\ Len(value'.str) = value.num
  <2>1. CASE value' = value
    BY <1>1, <2>1
  <2>2. CASE FixedBytesStep
    <3>1. PICK t \in Operands : \E other \in {BytesOf(t), FixedBytesOf(Len(t), t)} :
            \E r \in FixedResults(value, other) : Becomes(r)
      BY <2>2 DEF FixedBytesStep
    <3>2. PICK other \in {BytesOf(t), FixedBytesOf(Len(t), t)} :
            \E r \in FixedResults(value, other) : Becomes(r)
      BY <3>1
    <3>3. PICK r \in FixedResults(value, other) : value' = r
      BY <3>2 DEF Becomes
    <3>4. other.str \in Texts(MaxBytesSize)
      BY <3>2, OperandsAreTexts DEF BytesOf, FixedBytesOf
    <3>5. ValueOK(value) /\ r.kind = "fixed"
      BY <1>1, <3>3 DEF WordsInv
    <3>6. r.num = value.num /\ Len(r.str) = Len(value.str)
      BY <1>1, <3>4, <3>5, FixedResultsFacts
    <3> QED
      BY <1>1, <3>3, <3>6
  <2>3. ~UInt64Step /\ ~BytesStep /\ ~BigUIntStep /\ ~Convert
    BY <1>1 DEF UInt64Step, BytesStep, BigUIntStep, Convert
  <2> QED
    BY <1>1, <2>1, <2>2, <2>3 DEF WordsNext, wordVars, StartIter, NextByte, StopIter
<1>2. WordsInv /\ [WordsNext]_wordVars =>
        [value.kind = "fixed" /\ value'.kind = "fixed" /\ Len(value.str) = value.num
           => value'.num = value.num /\ Len(value'.str) = value.num]_wordVars
  BY <1>1
<1> QED
  BY <1>2, WordsInvariant, PTL DEF WordsSpec, FixedKeepsLength

\* The bitwise operators on byte strings are those of the numbers they stand for.
THEOREM BitwiseIsOnNumbers == WordsSpec => []BitwiseIsNumeric
<1>1. WordsInv => BitwiseIsNumeric
  <2> SUFFICES ASSUME WordsInv, NEW t \in Operands, NEW op \in BitOps,
                      NEW r \in {Bitwise(op, value.str, t)} \cup BigBitwise(op, value.str, t)
               PROVE  IntOf(r) = Combine(op, IntOf(value.str), IntOf(t))
    BY DEF BitwiseIsNumeric
  <2>1. PICK s \in Texts(MaxBytesSize) : s = value.str
    BY DEF WordsInv, ValueOK
  <2>2. t \in Texts(MaxBytesSize)
    BY OperandsAreTexts
  <2>3. IntOf(Bitwise(op, s, t)) = Combine(op, IntOf(s), IntOf(t))
    BY <2>2, BitwiseOnNumbers
  <2>4. \A u \in BigBitwise(op, s, t) : IntOf(u) = Combine(op, IntOf(s), IntOf(t))
    BY <2>2, BigBitwiseFacts
  <2> QED
    BY <2>1, <2>3, <2>4
<1> QED
  BY <1>1, WordsInvariant, PTL
-----------------------------------------------------------------------------
(* Numbers of two words.                                                   *)

\* Two words stand for the number they were made of, which must be one of two words.
LEMMA TwoWords ==
  ASSUME NEW n \in Nat
  PROVE  /\ \A w \in IntToUInt128(n) :
              /\ w[1] \in Word /\ w[2] \in Word /\ UInt128ToInt(w[1], w[2]) = n
              /\ w = <<w[1], w[2]>>
         /\ n < Wide => IntToUInt128(n) # {}
<1>1. PICK b \in Nat \ {0} : b = MaxWord + 1 /\ Wide = b * b
  BY BaseFacts DEF Wide
<1>2. \A a : a \in Word <=> a \in 0..(b - 1)
  BY <1>1, WordFacts, BaseFacts
<1>3. PICK q \in Nat, r \in 0..(b - 1) : q = n \div b /\ r = n % b /\ n = b * q + r
  BY Division
<1>4. IntToUInt128(n) = {<<hi, r>> : hi \in Checked(q)}
  BY <1>1, <1>3 DEF IntToUInt128
<1>5. Checked(q) = IF q \in Word THEN {q} ELSE {}
  BY CheckedFacts
<1>6. UInt128ToInt(q, r) = n
  <2>1. q * b = b * q
    OBVIOUS
  <2> QED
    BY <1>1, <1>3, <2>1 DEF UInt128ToInt
<1>7. n < Wide => q \in Word
  <2> SUFFICES ASSUME n < b * b PROVE q < b
    BY <1>1, <1>2
  <2>1. b * q < b * b
    BY <1>3
  <2>2. q >= b => b * q >= b * b
    OBVIOUS
  <2> QED
    BY <2>1, <2>2
<1>8. \A w \in IntToUInt128(n) : w = <<q, r>> /\ q \in Word
  BY <1>4, <1>5
<1>9. r \in Word /\ <<q, r>>[1] = q /\ <<q, r>>[2] = r
  BY <1>2
<1>10. n < Wide => IntToUInt128(n) # {}
  BY <1>4, <1>5, <1>7
<1>11. \A w \in IntToUInt128(n) : w[1] = q /\ w[2] = r /\ q \in Word
  BY <1>8, <1>9
<1>12. \A w \in IntToUInt128(n) : w[1] \in Word /\ w[2] \in Word /\ w = <<w[1], w[2]>>
  BY <1>8, <1>9, <1>11
<1> QED
  BY <1>6, <1>10, <1>11, <1>12

\* Sums and products of two words fit in two.
LEMMA WideFits ==
  ASSUME NEW a \in Word, NEW b \in Word
  PROVE  a + b \in Nat /\ a * b \in Nat /\ a + b < Wide /\ a * b < Wide
<1>1. PICK m \in Nat : m = MaxWord /\ m >= 1 /\ Wide = (m + 1) * (m + 1)
  BY BaseFacts DEF Wide
<1>2. a \in 0..m /\ b \in 0..m
  BY <1>1 DEF Word
<1>3. (m + 1) * (m + 1) = m * m + 2 * m + 1
  OBVIOUS
<1>4. a * b <= m * m /\ a * b \in Nat
  <2>1. a * b <= m * b /\ m * b <= m * m
    BY <1>2
  <2> QED
    BY <1>2, <2>1
<1>5. m * m \in Nat
  OBVIOUS
<1> QED
  BY <1>1, <1>2, <1>3, <1>4, <1>5

\* Quotient and remainder of two words each, and divw as the case of one word.
LEMMA DivisionOfWords ==
  ASSUME NEW a \in Word, NEW b \in Word, NEW c \in Word, NEW d \in Word,
         NEW q \in divmodw(a, b, c, d)
  PROVE  /\ UInt128ToInt(q[1], q[2]) * UInt128ToInt(c, d) + UInt128ToInt(q[3], q[4])
              = UInt128ToInt(a, b)
         /\ UInt128ToInt(q[3], q[4]) < UInt128ToInt(c, d)
         /\ c = 0 => divw(a, b, d) = (IF UInt128ToInt(q[1], q[2]) \in Word
                                      THEN {UInt128ToInt(q[1], q[2])} ELSE {})
<1>1. \A x, y \in Word : UInt128ToInt(x, y) \in Nat
  <2> SUFFICES ASSUME NEW x \in Word, NEW y \in Word PROVE UInt128ToInt(x, y) \in Nat
    OBVIOUS
  <2>1. x \in Nat /\ y \in Nat /\ MaxWord + 1 \in Nat
    BY WordFacts, BaseFacts
  <2>2. x * (MaxWord + 1) \in Nat
    BY <2>1
  <2> QED
    BY <2>1, <2>2 DEF UInt128ToInt
<1>2. PICK i \in Nat, j \in Nat : i = UInt128ToInt(a, b) /\ j = UInt128ToInt(c, d)
  BY <1>1
<1>3. /\ j # 0
      /\ q \in {u \o v : u \in IntToUInt128(i \div j), v \in IntToUInt128(i % j)}
  BY <1>2 DEF divmodw
<1>4. PICK e \in Nat, r \in 0..(j - 1) : e = i \div j /\ r = i % j /\ i = j * e + r
  <2>1. j \in Nat \ {0}
    BY <1>3
  <2>2. i \div j \in Nat /\ i % j \in 0..(j - 1) /\ i = j * (i \div j) + (i % j)
    BY <2>1, Division
  <2> QED
    BY <2>2
<1>5. PICK u \in IntToUInt128(e), v \in IntToUInt128(r) : q = u \o v
  BY <1>3, <1>4
<1>6. r \in Nat
  OBVIOUS
<1>7. /\ UInt128ToInt(u[1], u[2]) = e /\ u = <<u[1], u[2]>>
      /\ UInt128ToInt(v[1], v[2]) = r /\ v = <<v[1], v[2]>>
  BY <1>6, TwoWords
<1>8. q[1] = u[1] /\ q[2] = u[2] /\ q[3] = v[1] /\ q[4] = v[2]
  <2>1. \A w, x, y, z : /\ (<<w, x>> \o <<y, z>>)[1] = w /\ (<<w, x>> \o <<y, z>>)[2] = x
                        /\ (<<w, x>> \o <<y, z>>)[3] = y /\ (<<w, x>> \o <<y, z>>)[4] = z
    OBVIOUS
  <2>2. PICK w, x, y, z : w = u[1] /\ x = u[2] /\ y = v[1] /\ z = v[2]
    OBVIOUS
  <2>3. q = <<w, x>> \o <<y, z>>
    BY <1>5, <1>7, <2>2
  <2>4. q[1] = w /\ q[2] = x /\ q[3] = y /\ q[4] = z
    BY <2>1, <2>3
  <2> QED
    BY <2>2, <2>4
<1>9. UInt128ToInt(q[1], q[2]) = e /\ UInt128ToInt(q[3], q[4]) = r
  BY <1>7, <1>8
<1>10. e * j + r = i /\ r < j
  BY <1>4
<1>11. c = 0 => divw(a, b, d) = IF e \in Word THEN {e} ELSE {}
  <2> SUFFICES ASSUME c = 0 PROVE divw(a, b, d) = IF e \in Word THEN {e} ELSE {}
    OBVIOUS
  <2>1. j = d
    <3>1. d \in Nat /\ MaxWord + 1 \in Nat
      BY WordFacts, BaseFacts
    <3>2. 0 * (MaxWord + 1) + d = d
      BY <3>1
    <3> QED
      BY <1>2, <3>2 DEF UInt128ToInt
  <2>2. divw(a, b, d) = Checked(i \div d)
    BY <1>2, <1>3, <2>1 DEF divw
  <2> QED
    BY <1>4, <2>1, <2>2, CheckedFacts
<1> QED
  BY <1>2, <1>9, <1>10, <1>11

\* A power of two words whose first one is zero is the power of one word.
LEMMA PowerOfWords ==
  ASSUME NEW a \in Word, NEW b \in Word, NEW w \in expw(a, b), w[1] = 0
  PROVE  exp(a, b) = {w[2]}
<1>1. ~(a = 0 /\ b = 0) /\ w \in IntToUInt128(Raise(a, b)) /\ a \in Nat /\ b \in Nat
  BY WordFacts DEF expw
<1>2. PICK p \in Nat : p = Raise(a, b)
  BY <1>1, RaiseFacts
<1>3. w[2] \in Word /\ UInt128ToInt(0, w[2]) = p
  BY <1>1, <1>2, TwoWords
<1>4. p = w[2]
  <2>1. w[2] \in Nat /\ MaxWord + 1 \in Nat
    BY <1>3, WordFacts, BaseFacts
  <2>2. 0 * (MaxWord + 1) + w[2] = w[2]
    BY <2>1
  <2> QED
    BY <1>3, <2>2 DEF UInt128ToInt
<1>5. exp(a, b) = Checked(p)
  BY <1>1, <1>2 DEF exp
<1> QED
  BY <1>3, <1>4, <1>5, CheckedFacts

\* The operations with wide operands or results are exact.
THEOREM WideOperationsAreExact == WordsSpec => []WideIsExact
<1>1. WordsInv => WideIsExact
  <2> SUFFICES ASSUME WordsInv, value.kind = "uint64", NEW a \in Word, a = value.num, NEW b \in Word
               PROVE  /\ \A w \in addw(a, b) : UInt128ToInt(w[1], w[2]) = a + b
                      /\ \A w \in mulw(a, b) : UInt128ToInt(w[1], w[2]) = a * b
                      /\ addw(a, b) # {} /\ mulw(a, b) # {}
                      /\ \A w \in expw(a, b) : w[1] = 0 => exp(a, b) = {w[2]}
                      /\ \A c, d \in Word : \A q \in divmodw(a, b, c, d) :
                           LET quotient == UInt128ToInt(q[1], q[2])
                               rest == UInt128ToInt(q[3], q[4])
                           IN  /\ quotient * UInt128ToInt(c, d) + rest = UInt128ToInt(a, b)
                               /\ rest < UInt128ToInt(c, d)
                               /\ c = 0 => divw(a, b, d)
                                             = (IF quotient \in Word THEN {quotient} ELSE {})
    BY DEF WordsInv, ValueOK, WideIsExact
  <2>1. a + b \in Nat /\ a * b \in Nat /\ a + b < Wide /\ a * b < Wide
    BY WideFits
  <2>2. \A w \in addw(a, b) : UInt128ToInt(w[1], w[2]) = a + b
    BY <2>1, TwoWords DEF addw
  <2>3. \A w \in mulw(a, b) : UInt128ToInt(w[1], w[2]) = a * b
    BY <2>1, TwoWords DEF mulw
  <2>4. addw(a, b) # {} /\ mulw(a, b) # {}
    BY <2>1, TwoWords DEF addw, mulw
  <2>5. \A w \in expw(a, b) : w[1] = 0 => exp(a, b) = {w[2]}
    BY PowerOfWords
  <2> QED
    BY <2>2, <2>3, <2>4, <2>5, DivisionOfWords
<1> QED
  BY <1>1, WordsInvariant, PTL
-----------------------------------------------------------------------------
(* The bits and the parts of a byte string.                                *)

\* Setting a bit of a word changes that bit and no other.
LEMMA WordsAreAddressed ==
  ASSUME NEW a \in Word, NEW i \in 0..(WordBits - 1), NEW x \in BOOLEAN
  PROVE  /\ setbit_uint64(a, i, x)
              = {FromBits({j \in 0..WordBits : IF j = i THEN x ELSE j \in BitsOf(a)})}
         /\ GetBit(itob(a), i, FALSE) = GetBit(itob(a), WordBits - 1 - i, TRUE)
         /\ GetBit(itob(a), i, FALSE) = {(i \in BitsOf(a))}
<1>1. /\ WordBits \in Nat /\ MaxBits \in Nat /\ WordBits < MaxBits /\ WordBits \in 0..MaxBits
      /\ i \in Nat /\ i < WordBits /\ WordBits = ByteBits * WordBytes
  BY BaseFacts
<1>2. PICK w \in Word : /\ setbit_uint64(a, i, x) = {w}
                        /\ BitsOf(w) = IF x THEN BitsOf(a) \cup {i} ELSE BitsOf(a) \ {i}
  BY <1>1, SetBitWords
<1>3. BitsOf(a) \subseteq 0..(WordBits - 1)
  BY <1>1, WordFacts, BitsBound
<1>4. w = FromBits({j \in 0..WordBits : IF j = i THEN x ELSE j \in BitsOf(a)})
  <2> DEFINE S == {j \in 0..WordBits : IF j = i THEN x ELSE j \in BitsOf(a)}
  <2>1. BitsOf(w) = S
    <3>1. \A j \in BitsOf(a) : j \in 0..WordBits
      BY <1>1, <1>3
    <3>2. i \in 0..WordBits
      BY <1>1
    <3>3. CASE x = TRUE
      BY <1>2, <3>1, <3>2, <3>3
    <3>4. CASE x = FALSE
      BY <1>2, <3>1, <3>2, <3>4
    <3> QED
      BY <3>3, <3>4
  <2>2. S \subseteq 0..(MaxBits - 1)
    BY <1>1
  <2> HIDE DEF S
  <2>3. FromBits(S) \in 0..(Pow(2, MaxBits) - 1) /\ BitsOf(FromBits(S)) = S
    BY <2>2, FromBitsHas
  <2>4. w \in 0..(Pow(2, MaxBits) - 1)
    BY WordFacts
  <2>5. w = FromBits(S)
    BY <2>1, <2>3, <2>4, SameBits
  <2> QED
    BY <2>5 DEF S
<1>5. PICK s \in Seq(Byte) : /\ s = itob(a) /\ Len(s) = WordBytes /\ IntOf(s) = a
                             /\ Len(s) <= MaxBytesSize
  <2>1. WordBytes <= MaxBytesSize
    BY SizeFacts
  <2> QED
    BY <2>1, ItobFacts
<1>6. \A big \in BOOLEAN, k \in Nat :
        k < WordBits => GetBit(s, k, big) = {(Address(s, k, big) \in BitsOf(a))}
  <2> SUFFICES ASSUME NEW big \in BOOLEAN, NEW k \in Nat, k < WordBits
               PROVE  GetBit(s, k, big) = {(Address(s, k, big) \in BitsOf(a))}
    OBVIOUS
  <2>1. k < ByteBits * Len(s)
    BY <1>1, <1>5
  <2> QED
    BY <1>5, <2>1, GetBitFacts
<1>7. Address(s, i, FALSE) = i
  BY DEF Address
<1>8. WordBits - 1 - i \in Nat /\ WordBits - 1 - i < WordBits
  BY <1>1
<1>9. Address(s, WordBits - 1 - i, TRUE) = i
  <2>1. Address(s, WordBits - 1 - i, TRUE) = WordBits - 1 - (WordBits - 1 - i)
    BY <1>1, <1>5 DEF Address
  <2>2. \A m, k \in Nat : m - 1 - (m - 1 - k) = k
    OBVIOUS
  <2> QED
    BY <1>1, <2>1, <2>2
<1>10. GetBit(s, i, FALSE) = {(i \in BitsOf(a))}
  <2>1. \A big \in BOOLEAN : ~big => Address(s, i, big) = i
    BY DEF Address
  <2> QED
    BY <1>1, <1>6, <2>1
<1>11. GetBit(s, WordBits - 1 - i, TRUE) = {(i \in BitsOf(a))}
  <2>1. \A big \in BOOLEAN, k \in Nat : big /\ k = WordBits - 1 - i => Address(s, k, big) = i
    BY <1>9
  <2> QED
    BY <1>6, <1>8, <2>1
<1> QED
  BY <1>2, <1>4, <1>5, <1>10, <1>11

\* Setting a bit of a byte string changes that bit and no other.
LEMMA BytesAreAddressed ==
  ASSUME NEW s \in Seq(Byte), Len(s) <= MaxBytesSize, NEW x \in BOOLEAN,
         NEW i \in 0..(ByteBits * Len(s)), NEW r \in setbit_bytes(s, i, x)
  PROVE  /\ i < ByteBits * Len(s)
         /\ \A j \in 0..(ByteBits * Len(s)) :
              GetBit(r, j, TRUE) = (IF j = i THEN {x} ELSE GetBit(s, j, TRUE))
<1>1. Len(s) \in Nat /\ ByteBits \in Nat /\ ByteBits * Len(s) \in Nat /\ i \in Nat
  BY SizeFacts
<1>2. PICK big \in BOOLEAN : big = TRUE
  OBVIOUS
<1>3. r \in SetBit(s, i, x, big)
  BY <1>2 DEF setbit_bytes
<1>4. i < ByteBits * Len(s)
  BY <1>1, <1>3, SetBitFacts
<1>5. /\ r \in Seq(Byte) /\ Len(r) = Len(s)
      /\ BitsOf(IntOf(r)) = IF x THEN BitsOf(IntOf(s)) \cup {Address(s, i, big)}
                                 ELSE BitsOf(IntOf(s)) \ {Address(s, i, big)}
  <2>1. PICK u \in Seq(Byte) :
          /\ SetBit(s, i, x, big) = {u} /\ Len(u) = Len(s)
          /\ BitsOf(IntOf(u)) = IF x THEN BitsOf(IntOf(s)) \cup {Address(s, i, big)}
                                     ELSE BitsOf(IntOf(s)) \ {Address(s, i, big)}
    BY <1>1, <1>4, SetBitFacts
  <2> QED
    BY <1>3, <2>1
<1>6. ASSUME NEW j \in 0..(ByteBits * Len(s))
      PROVE  GetBit(r, j, big) = (IF j = i THEN {x} ELSE GetBit(s, j, big))
  <2>1. j \in Nat
    OBVIOUS
  <2>2. CASE j = ByteBits * Len(s)
    <3>1. ~(j < ByteBits * Len(s)) /\ j # i
      BY <1>1, <1>4, <2>2
    <3>2. GetBit(s, j, big) = {}
      BY <2>1, <3>1, GetBitFacts
    <3>3. ~(j < ByteBits * Len(r)) /\ Len(r) <= MaxBytesSize
      BY <1>5, <3>1
    <3>4. GetBit(r, j, big) = {}
      BY <1>5, <2>1, <3>3, GetBitFacts
    <3> QED
      BY <3>1, <3>2, <3>4
  <2>3. CASE j < ByteBits * Len(s)
    <3>1. GetBit(s, j, big) = {(Address(s, j, big) \in BitsOf(IntOf(s)))}
      BY <2>1, <2>3, GetBitFacts
    <3>2. j < ByteBits * Len(r) /\ Len(r) <= MaxBytesSize
      BY <1>5, <2>3
    <3>3. GetBit(r, j, big) = {(Address(r, j, big) \in BitsOf(IntOf(r)))}
      BY <1>5, <2>1, <3>2, GetBitFacts
    <3>4. Address(r, j, big) = Address(s, j, big)
      BY <1>5 DEF Address
    <3>5. j # i => Address(s, j, big) # Address(s, i, big)
      <4>1. \A m, k, l \in Int : k # l => m - 1 - k # m - 1 - l
        OBVIOUS
      <4>2. /\ Address(s, j, big) = ByteBits * Len(s) - 1 - j
            /\ Address(s, i, big) = ByteBits * Len(s) - 1 - i
        BY <1>2 DEF Address
      <4>3. i \in Int /\ j \in Int /\ ByteBits * Len(s) \in Int
        BY <1>1
      <4> QED
        BY <4>1, <4>2, <4>3
    <3>6. CASE j = i
      <4>1. (Address(s, i, big) \in BitsOf(IntOf(r))) <=> x
        BY <1>5
      <4>2. (Address(s, i, big) \in BitsOf(IntOf(r))) = x
        BY <4>1
      <4> QED
        BY <3>3, <3>4, <3>6, <4>2
    <3>7. CASE j # i
      <4>1. (Address(s, j, big) \in BitsOf(IntOf(r))) <=> (Address(s, j, big) \in BitsOf(IntOf(s)))
        BY <1>5, <3>5, <3>7
      <4>2. (Address(s, j, big) \in BitsOf(IntOf(r))) = (Address(s, j, big) \in BitsOf(IntOf(s)))
        BY <4>1
      <4> QED
        BY <3>1, <3>3, <3>4, <3>7, <4>2
    <3> QED
      BY <3>6, <3>7
  <2> QED
    BY <1>1, <2>1, <2>2, <2>3
<1> QED
  BY <1>2, <1>4, <1>6

\* A bit has one address, in a word and in a byte string.
THEOREM BitsHaveOneAddress == WordsSpec => []BitsAreAddressed
<1>1. WordsInv => BitsAreAddressed
  <2> SUFFICES ASSUME WordsInv, NEW x \in BOOLEAN
               PROVE  /\ value.kind = "uint64" =>
                           \A i \in 0..WordBits :
                             IF i = WordBits THEN setbit_uint64(value.num, i, x) = {}
                             ELSE /\ setbit_uint64(value.num, i, x)
                                       = {FromBits({j \in 0..WordBits : IF j = i THEN x
                                                      ELSE j \in BitsOf(value.num)})}
                                  /\ GetBit(itob(value.num), i, FALSE)
                                       = GetBit(itob(value.num), WordBits - 1 - i, TRUE)
                                  /\ GetBit(itob(value.num), i, FALSE)
                                       = {(i \in BitsOf(value.num))}
                      /\ value.kind = "bytes" =>
                           \A i \in 0..(ByteBits * Len(value.str)) :
                           \A s \in setbit_bytes(value.str, i, x) :
                             /\ i < ByteBits * Len(value.str)
                             /\ \A j \in 0..(ByteBits * Len(value.str)) :
                                  GetBit(s, j, TRUE)
                                    = (IF j = i THEN {x} ELSE GetBit(value.str, j, TRUE))
    BY DEF BitsAreAddressed
  <2>1. WordBits \in Nat
    BY BaseFacts
  <2>2. ASSUME value.kind = "uint64", NEW i \in 0..WordBits, i = WordBits
        PROVE  setbit_uint64(value.num, i, x) = {}
    <3>1. value.num \in Word /\ i \in Nat /\ i >= WordBits
      BY <2>1, <2>2 DEF WordsInv, ValueOK
    <3> QED
      BY <3>1, SetBitWords
  <2>3. ASSUME value.kind = "uint64", NEW i \in 0..WordBits, i # WordBits
        PROVE  /\ setbit_uint64(value.num, i, x)
                    = {FromBits({j \in 0..WordBits : IF j = i THEN x
                                   ELSE j \in BitsOf(value.num)})}
               /\ GetBit(itob(value.num), i, FALSE)
                    = GetBit(itob(value.num), WordBits - 1 - i, TRUE)
               /\ GetBit(itob(value.num), i, FALSE) = {(i \in BitsOf(value.num))}
    <3>1. value.num \in Word /\ i \in 0..(WordBits - 1)
      BY <2>1, <2>3 DEF WordsInv, ValueOK
    <3> QED
      BY <3>1, WordsAreAddressed
  <2>4. value.str \in Seq(Byte) /\ Len(value.str) <= MaxBytesSize
    <3>1. value.str \in Texts(MaxBytesSize) /\ MaxBytesSize \in Nat
      BY SizeFacts DEF WordsInv, ValueOK
    <3> QED
      BY <3>1, TextsFacts
  <2>5. \A i \in 0..(ByteBits * Len(value.str)) : \A s \in setbit_bytes(value.str, i, x) :
          /\ i < ByteBits * Len(value.str)
          /\ \A j \in 0..(ByteBits * Len(value.str)) :
               GetBit(s, j, TRUE) = (IF j = i THEN {x} ELSE GetBit(value.str, j, TRUE))
    BY <2>4, BytesAreAddressed
  <2> QED
    BY <2>2, <2>3, <2>5
<1> QED
  BY <1>1, WordsInvariant, PTL
\* The functions that cut a byte string agree with each other and with slices.
LEMMA PartsAgree ==
  ASSUME NEW s \in Texts(MaxBytesSize), NEW i \in 0..(Len(s) + 1), NEW n \in 0..(Len(s) + 1)
  PROVE  /\ extract(s, i, n, FALSE) = substring(s, i, i + n)
         /\ n # 0 => extract(s, i, n, TRUE) = extract(s, i, n, FALSE)
         /\ n = 0 => extract(s, i, n, TRUE) = substring(s, i, Len(s))
         /\ n \in 1..WordBytes =>
              extract_uint(s, i, n) = UNION {btoi(t) : t \in extract(s, i, n, FALSE)}
<1>1. /\ s \in Seq(Byte) /\ Len(s) \in Nat /\ i \in Nat /\ n \in Nat /\ i + n \in Nat
      /\ i <= i + n /\ WordBytes \in Nat
  BY SizeFacts, TextsFacts
<1>2. PICK no \in BOOLEAN, yes \in BOOLEAN : no = FALSE /\ yes = TRUE
  OBVIOUS
<1>3. extract(s, i, n, no) = IF i + n > Len(s) THEN {} ELSE {Slice(s, i, i + n)}
  <2>1. extract(s, i, n, no) = IF i > Len(s) \/ i + n > Len(s) THEN {} ELSE {Slice(s, i, i + n)}
    BY <1>1, <1>2, ExtractFacts
  <2>2. i > Len(s) => i + n > Len(s)
    BY <1>1
  <2> QED
    BY <2>1, <2>2
<1>4. substring(s, i, i + n) = IF i + n <= Len(s) THEN {Slice(s, i, i + n)} ELSE {}
  BY <1>1, SubstringFacts
<1>5. n # 0 => extract(s, i, n, yes) = extract(s, i, n, no)
  <2>1. n # 0 => extract(s, i, n, yes)
                   = IF i > Len(s) \/ i + n > Len(s) THEN {} ELSE {Slice(s, i, i + n)}
    BY <1>1, <1>2, ExtractFacts
  <2>2. i > Len(s) => i + n > Len(s)
    BY <1>1
  <2> QED
    BY <1>3, <2>1, <2>2
<1>6. n = 0 => extract(s, i, n, yes) = substring(s, i, Len(s))
  <2> SUFFICES ASSUME n = 0 PROVE extract(s, i, n, yes) = substring(s, i, Len(s))
    OBVIOUS
  <2>1. extract(s, i, n, yes) = IF i > Len(s) THEN {} ELSE {Slice(s, i, Len(s))}
    BY <1>1, <1>2, ExtractFacts
  <2>2. substring(s, i, Len(s)) = IF i <= Len(s) THEN {Slice(s, i, Len(s))} ELSE {}
    BY <1>1, SubstringFacts
  <2>3. i > Len(s) <=> ~(i <= Len(s))
    BY <1>1
  <2> QED
    BY <2>1, <2>2, <2>3
<1>7. n \in 1..WordBytes =>
        {IntOf(t) : t \in extract(s, i, n, yes)} = UNION {btoi(t) : t \in extract(s, i, n, no)}
  <2> SUFFICES ASSUME n \in 1..WordBytes
               PROVE  {IntOf(t) : t \in extract(s, i, n, no)}
                        = UNION {btoi(t) : t \in extract(s, i, n, no)}
    BY <1>1, <1>5
  <2>1. \A t \in extract(s, i, n, no) : btoi(t) = {IntOf(t)}
    <3> SUFFICES ASSUME NEW t \in extract(s, i, n, no) PROVE ~(Len(t) > WordBytes)
      BY DEF btoi
    <3>1. t = Slice(s, i, i + n) /\ ~(i + n > Len(s))
      BY <1>3
    <3>2. i \in 0..Len(s) /\ i + n \in i..Len(s) /\ i \in Int /\ i + n \in Int
      BY <1>1, <3>1
    <3>3. Len(Slice(s, i, i + n)) = i + n - i
      BY <1>1, <3>2, SliceFacts
    <3> QED
      BY <1>1, <3>1, <3>3
  <2> QED
    BY <2>1
<1>8. extract(s, i, n, no) = substring(s, i, i + n)
  <2>1. i + n > Len(s) <=> ~(i + n <= Len(s))
    BY <1>1
  <2> QED
    BY <1>3, <1>4, <2>1
<1> QED
  BY <1>2, <1>5, <1>6, <1>7, <1>8 DEF extract_uint

\* Two byte strings of one length with the same bytes are the same.
LEMMA SameBytes ==
  ASSUME NEW s \in Seq(Byte), NEW r \in Seq(Byte), Len(r) = Len(s),
         \A k \in 1..Len(s) : r[k] = s[k]
  PROVE  r = s
OBVIOUS

\* A part that is put back changes nothing, and what was put in is found there.
LEMMA PartsArePutBack ==
  ASSUME NEW s \in Texts(MaxBytesSize), NEW i \in Nat
  PROVE  /\ \A n \in Nat : \A t \in extract(s, i, n, FALSE) : replace(s, i, t) = {s}
         /\ \A t \in Seq(Byte) : \A r \in replace(s, i, t) : extract(r, i, Len(t), FALSE) = {t}
<1>1. /\ s \in Seq(Byte) /\ Len(s) \in Nat /\ \A t \in Seq(Byte) : Len(t) \in Nat
  BY SizeFacts, TextsFacts
<1>2. PICK no \in BOOLEAN : no = FALSE
  OBVIOUS
<1>3. \A r \in Seq(Byte), n \in Nat :
        extract(r, i, n, no) = IF i + n > Len(r) THEN {} ELSE {Slice(r, i, i + n)}
  <2> SUFFICES ASSUME NEW r \in Seq(Byte), NEW n \in Nat
               PROVE  extract(r, i, n, no) = IF i + n > Len(r) THEN {} ELSE {Slice(r, i, i + n)}
    OBVIOUS
  <2>1. extract(r, i, n, no) = IF i > Len(r) \/ i + n > Len(r) THEN {} ELSE {Slice(r, i, i + n)}
    BY <1>2, ExtractFacts
  <2>2. i > Len(r) => i + n > Len(r)
    BY <1>1
  <2> QED
    BY <2>1, <2>2
<1>4. \A r \in Seq(Byte), n \in Nat : i + n <= Len(r) =>
        /\ Slice(r, i, i + n) \in Seq(Byte) /\ Len(Slice(r, i, i + n)) = n
        /\ \A k \in 1..n : Slice(r, i, i + n)[k] = r[i + k]
  <2> SUFFICES ASSUME NEW r \in Seq(Byte), NEW n \in Nat, i + n <= Len(r)
               PROVE  /\ Slice(r, i, i + n) \in Seq(Byte) /\ Len(Slice(r, i, i + n)) = n
                      /\ \A k \in 1..n : Slice(r, i, i + n)[k] = r[i + k]
    OBVIOUS
  <2>1. /\ i \in 0..Len(r) /\ i + n \in i..Len(r) /\ i \in Int /\ i + n \in Int
        /\ (i + n) - i = n
    BY <1>1
  <2> QED
    BY <2>1, SliceFacts
<1>5. ASSUME NEW n \in Nat, NEW t \in extract(s, i, n, no)
      PROVE  replace(s, i, t) = {s}
  <2>1. ~(i + n > Len(s)) /\ t = Slice(s, i, i + n)
    BY <1>1, <1>3, <1>5
  <2>2. i + n <= Len(s)
    BY <1>1, <2>1
  <2>3. t \in Seq(Byte) /\ Len(t) = n /\ \A k \in 1..n : t[k] = s[i + k]
    BY <1>1, <1>4, <2>1, <2>2
  <2>4. PICK r \in Seq(Byte) :
          /\ replace(s, i, t) = {r} /\ Len(r) = Len(s)
          /\ \A k \in 1..Len(s) : r[k] = IF k \in (i + 1)..(i + Len(t)) THEN t[k - i] ELSE s[k]
    BY <2>2, <2>3, ReplaceFacts
  <2>5. ASSUME NEW k \in 1..Len(s) PROVE r[k] = s[k]
    <3>1. CASE k \in (i + 1)..(i + n)
      <4>1. k - i \in 1..n /\ i + (k - i) = k
        BY <1>1, <3>1
      <4> QED
        BY <2>3, <2>4, <3>1, <4>1
    <3>2. CASE k \notin (i + 1)..(i + n)
      BY <2>3, <2>4, <3>2
    <3> QED
      BY <3>1, <3>2
  <2> QED
    BY <1>1, <2>4, <2>5, SameBytes
<1>6. ASSUME NEW t \in Seq(Byte), NEW u \in replace(s, i, t)
      PROVE  extract(u, i, Len(t), no) = {t}
  <2>1. i + Len(t) <= Len(s) /\ Len(t) \in Nat
    <3>1. i + Len(t) > Len(s) => replace(s, i, t) = {}
      BY ReplaceFacts
    <3> QED
      BY <1>1, <1>6, <3>1
  <2>2. PICK r \in Seq(Byte) :
          /\ replace(s, i, t) = {r} /\ Len(r) = Len(s)
          /\ \A k \in 1..Len(s) : r[k] = IF k \in (i + 1)..(i + Len(t)) THEN t[k - i] ELSE s[k]
    BY <2>1, ReplaceFacts
  <2>3. u = r
    BY <1>6, <2>2
  <2>4. i + Len(t) <= Len(r)
    BY <2>1, <2>2
  <2>5. /\ Slice(r, i, i + Len(t)) \in Seq(Byte) /\ Len(Slice(r, i, i + Len(t))) = Len(t)
        /\ \A k \in 1..Len(t) : Slice(r, i, i + Len(t))[k] = r[i + k]
    BY <1>4, <2>1, <2>4
  <2>6. ASSUME NEW k \in 1..Len(t) PROVE Slice(r, i, i + Len(t))[k] = t[k]
    <3>1. i + k \in 1..Len(s) /\ i + k \in (i + 1)..(i + Len(t)) /\ (i + k) - i = k
      BY <1>1, <2>1
    <3> QED
      BY <2>2, <2>5, <3>1
  <2>7. Slice(r, i, i + Len(t)) = t
    BY <2>5, <2>6, SameBytes
  <2>8. ~(i + Len(t) > Len(r))
    BY <1>1, <2>1, <2>4
  <2> QED
    BY <1>3, <2>1, <2>3, <2>7, <2>8
<1> QED
  BY <1>2, <1>5, <1>6

\* The functions that cut byte strings agree with each other and with slices.
THEOREM RangesAlwaysAgree == WordsSpec => []RangesAgree
<1>1. WordsInv => RangesAgree
  <2> SUFFICES ASSUME NEW s \in Texts(MaxBytesSize),
                      NEW i \in 0..(Len(s) + 1), NEW n \in 0..(Len(s) + 1)
               PROVE  /\ extract(s, i, n, FALSE) = substring(s, i, i + n)
                      /\ n # 0 => extract(s, i, n, TRUE) = extract(s, i, n, FALSE)
                      /\ n = 0 => extract(s, i, n, TRUE) = substring(s, i, Len(s))
                      /\ n \in 1..WordBytes =>
                           extract_uint(s, i, n)
                             = UNION {btoi(t) : t \in extract(s, i, n, FALSE)}
                      /\ \A t \in extract(s, i, n, FALSE) : replace(s, i, t) = {s}
                      /\ \A t \in Texts(1) : \A r \in replace(s, i, t) :
                           extract(r, i, Len(t), FALSE) = {t}
    BY DEF WordsInv, ValueOK, RangesAgree
  <2>1. i \in Nat /\ n \in Nat
    OBVIOUS
  <2>2. \A t \in Texts(1) : t \in Seq(Byte)
    <3>1. 1 \in Nat
      OBVIOUS
    <3> QED
      BY <3>1, TextsFacts
  <2>3. \A t \in extract(s, i, n, FALSE) : replace(s, i, t) = {s}
    BY <2>1, PartsArePutBack
  <2>4. \A t \in Texts(1) : \A r \in replace(s, i, t) : extract(r, i, Len(t), FALSE) = {t}
    <3>1. \A t \in Seq(Byte) : \A r \in replace(s, i, t) : extract(r, i, Len(t), FALSE) = {t}
      BY <2>1, PartsArePutBack
    <3> QED
      BY <2>2, <3>1
  <2> QED
    BY <2>3, <2>4, PartsAgree
<1> QED
  BY <1>1, WordsInvariant, PTL
-----------------------------------------------------------------------------
(* What the operators compute, for every operand.                          *)

\* A power is the exact one, or raises because it is not one word (exp) or two (expw):
\* that the multiplication stops beyond two words is never seen.
THEOREM PowersAreExact ==
  ASSUME NEW a \in Word, NEW b \in Word, ~(a = 0 /\ b = 0)
  PROVE  /\ Power(a, b) = Checked(Pow(a, b)) /\ exp(a, b) = Checked(Pow(a, b))
         /\ expw(a, b) = IntToUInt128(Pow(a, b))
<1>1. a \in Nat /\ b \in Nat /\ MaxWord \in Nat /\ MaxWord > 0
  BY WordFacts, BaseFacts
<1>2. PICK p \in Nat, q \in Nat :
        p = Pow(a, b) /\ q = Raise(a, b) /\ (q # p => q > Wide /\ p > Wide)
  BY <1>1, RaiseFacts
<1>3. \A n \in Nat : n > Wide => Checked(n) = {} /\ IntToUInt128(n) = {}
  <2> SUFFICES ASSUME NEW n \in Nat, n > Wide PROVE Checked(n) = {} /\ IntToUInt128(n) = {}
    OBVIOUS
  <2>1. PICK c \in Nat \ {0} : c = MaxWord + 1 /\ c >= 2 /\ Wide = c * c
    BY <1>1 DEF Wide
  <2>2. n > c
    <3>1. c * c >= c
      BY <2>1
    <3> QED
      BY <2>1, <3>1
  <2>3. n \notin Word
    BY <1>1, <2>1, <2>2, WordFacts
  <2>4. n \div c \notin Word
    <3>1. PICK m \in Nat, r \in 0..(c - 1) : m = n \div c /\ r = n % c /\ n = c * m + r
      BY Division
    <3>2. c * m + r < c * (m + 1)
      OBVIOUS
    <3>3. m < c => c * (m + 1) <= c * c
      OBVIOUS
    <3>4. m >= c
      <4>1. PICK v \in Nat, w \in Nat : v = c * (m + 1) /\ w = c * c
        OBVIOUS
      <4>2. n < v /\ n > w
        BY <2>1, <3>1, <3>2, <4>1
      <4>3. ~(v <= w)
        BY <4>2
      <4> QED
        BY <3>3, <4>1, <4>3
    <3> QED
      BY <1>1, <2>1, <3>1, <3>4, WordFacts
  <2> QED
    BY <2>1, <2>3, <2>4, CheckedFacts DEF IntToUInt128
<1>4. Checked(q) = Checked(p) /\ IntToUInt128(q) = IntToUInt128(p)
  BY <1>2, <1>3
<1> QED
  BY <1>2, <1>4 DEF Power, exp, expw

\* itob and btoi, and the bytes of a BigUInt, take a number to its bytes and back, and the
\* bytes of a word to the word and back.
THEOREM NumbersRoundTrip ==
  /\ \A a \in Word : btoi(itob(a)) = {a}
  /\ \A s \in Seq(Byte) : Len(s) = WordBytes => {itob(n) : n \in btoi(s)} = {s}
  /\ \A s \in Texts(MaxBytesSize) : IntOf(s) <= MaxBig => IntOf(BigUInt(IntOf(s))) = IntOf(s)
<1>1. WordBytes \in Nat /\ WordBytes <= MaxBytesSize /\ MaxBytesSize \in Nat
  BY SizeFacts
<1>2. ASSUME NEW a \in Word PROVE btoi(itob(a)) = {a}
  <2>1. Len(itob(a)) = WordBytes /\ IntOf(itob(a)) = a
    BY ItobFacts
  <2> QED
    BY <1>1, <2>1 DEF btoi
<1>3. ASSUME NEW s \in Seq(Byte), Len(s) = WordBytes
      PROVE  {itob(n) : n \in btoi(s)} = {s}
  <2>1. btoi(s) = {IntOf(s)}
    BY <1>1, <1>3 DEF btoi
  <2>2. PICK n \in Word : n = IntOf(s)
    BY <1>1, <1>3, WordOfBytes
  <2>3. PICK r \in Seq(Byte) : r = itob(n) /\ Len(r) = Len(s) /\ IntOf(r) = IntOf(s)
    BY <1>3, <2>2, ItobFacts
  <2>4. ASSUME NEW k \in 1..Len(s) PROVE r[k] = s[k]
    <3>1. /\ Len(s) - k \in Nat /\ Len(s) - k < Len(s) /\ Len(s) - (Len(s) - k) = k
          /\ Len(s) - k < Len(r) /\ Len(r) - (Len(s) - k) = k
      BY <1>1, <1>3, <2>3
    <3>2. Digit(Base, IntOf(s), Len(s) - k) = s[k]
      BY <3>1, IntOfFacts
    <3>3. Digit(Base, IntOf(r), Len(s) - k) = r[k]
      BY <3>1, IntOfFacts
    <3> QED
      BY <2>3, <3>2, <3>3
  <2>5. r = s
    BY <2>3, <2>4, SameBytes
  <2> QED
    BY <2>1, <2>2, <2>3, <2>5
<1>4. ASSUME NEW s \in Texts(MaxBytesSize), IntOf(s) <= MaxBig
      PROVE  IntOf(BigUInt(IntOf(s))) = IntOf(s)
  <2>1. IntOf(s) \in Nat
    BY <1>1, TextsFacts, IntOfFacts
  <2>2. MaxBig \in Nat
    BY BigBounds
  <2>3. PICK n \in 0..MaxBig, zero \in 0..MaxBig : n = IntOf(s) /\ zero = 0
    BY <1>4, <2>1, <2>2
  <2>4. n + zero < Pow(2, ByteBits * MaxBytesSize) /\ n + zero = n /\ n \in Nat
    BY <2>2, <2>3, BigBounds
  <2>5. IntOf(BigUInt(n)) = n
    BY <2>4, BigUIntFacts
  <2> QED
    BY <2>3, <2>5
<1> QED
  BY <1>2, <1>3, <1>4
=============================================================================
