-------------------------- MODULE TransacLogProofs --------------------------
EXTENDS TransacLog, SequenceTheorems, FiniteSetTheorems, NaturalsInduction,
        WellFoundedInduction, TLAPS
(***************************************************************************)
(* What is proved of the transaction log and the tails of db.go for every  *)
(* set of requests, databases and tails, every base and every length of    *)
(* the log.  The module has three parts.                                   *)
(*                                                                         *)
(*   The keys.  bolt keeps the log ordered by the decimal digits of its    *)
(*   entries' numbers.  Digits tells numbers apart, so the order is total, *)
(*   the places of the keys are 1 .. n, and a cursor meets every entry     *)
(*   once (WalkFindsAll).                                                  *)
(*                                                                         *)
(*   The state.  Shape says what a state looks like: its types, that the   *)
(*   log holds each request once, who holds the lock, and which channels   *)
(*   are registered.  It is inductive.                                     *)
(*                                                                         *)
(*   The counts.  Counts(c) says how often tail c may have got each        *)
(*   request, from where its feeder and the request are.  LogInv, Shape    *)
(*   with Counts of every tail, is inductive and gives the two properties  *)
(*   a tail's client sees.                                                 *)
(***************************************************************************)

-----------------------------------------------------------------------------
(***************************************************************************)
(* The order of the keys                                                   *)
(***************************************************************************)

LEMMA BaseFacts == Base \in Nat /\ Base >= 2
  BY LogAssumption

LEMMA Division ==
    ASSUME NEW n \in Nat
    PROVE  /\ n \div Base \in Nat /\ n % Base \in 0 .. Base - 1
           /\ n = (Base * (n \div Base)) + (n % Base)
           /\ n >= Base => n \div Base < n
<1> DEFINE b == Base
           q == n \div b
           r == n % b
<1>1. b \in Nat /\ b >= 2
  BY BaseFacts
<1> HIDE DEF b
<1>2. q \in Int /\ r \in 0 .. b - 1 /\ n = (b * q) + r
  BY <1>1
<1> HIDE DEF q, r
<1>3. q >= 0
  <2>1. ASSUME q < 0 PROVE FALSE
    <3>1. b * q <= b * (-1)
      BY <1>1, <1>2, <2>1
    <3> QED BY <1>1, <1>2, <3>1
  <2> QED BY <1>2, <2>1
<1>4. ASSUME n >= b PROVE q < n
  <2>1. b * q >= 2 * q
    BY <1>1, <1>2, <1>3
  <2>2. q # 0
    BY <1>1, <1>2, <1>4
  <2> DEFINE p == b * q
  <2>3. p \in Int /\ p >= 2 * q /\ n = p + r
    BY <1>1, <1>2, <2>1
  <2> HIDE DEF p
  <2> QED BY <1>1, <1>2, <1>3, <2>2, <2>3
<1> QED BY <1>2, <1>3, <1>4 DEF b, q, r

LEMMA Quotient ==
    ASSUME NEW n \in Nat, ~ (n < Base)
    PROVE  n \div Base \in Nat /\ n \div Base < n /\ n % Base \in Nat
<1>1. n >= Base
  BY BaseFacts
<1>2. \A x \in 0 .. Base - 1 : x \in Nat
  BY BaseFacts
<1> QED BY <1>1, <1>2, Division

\* The least of the naturals with a property.
LEMMA Least ==
    ASSUME NEW S \in SUBSET Nat, S # {}
    PROVE  \E n \in S : \A k \in S : n <= k
<1> DEFINE Less == {ss \in Nat \X Nat : ss[1] < ss[2]}
<1>1. IsWellFoundedOn(Less, Nat)
  BY NatLessThanWellFounded DEF OpToRel
<1>2. PICK n \in S : \A k \in S : ~ (<<k, n>> \in Less)
  BY <1>1, WFMin
<1>3. ASSUME NEW k \in S PROVE n <= k
  <2>1. k < n => <<k, n>> \in Less
    OBVIOUS
  <2> QED BY <1>2, <2>1
<1> QED BY <1>3

\* What Digits[n] is made from, for a function f in the place of Digits.
DigitsStep(f, n) == IF n < Base THEN <<n>> ELSE Append(f[n \div Base], n % Base)

DigitsTo(n) ==
    {f \in [0 .. n -> Seq(Nat)] : \A m \in 0 .. n : f[m] = DigitsStep(f, m)}

LEMMA SomeDigitsTo == \A n \in Nat : DigitsTo(n) # {}
<1> DEFINE S == {n \in Nat : DigitsTo(n) = {}}
<1>1. SUFFICES ASSUME S # {} PROVE FALSE
  OBVIOUS
<1>2. PICK n \in S : \A k \in S : n <= k
  <2>1. S \in SUBSET Nat
    OBVIOUS
  <2> HIDE DEF S
  <2> QED BY <1>1, <2>1, Least
<1>3. n \in Nat /\ DigitsTo(n) = {}
  OBVIOUS
<1>4. CASE n < Base
  <2> DEFINE f == [m \in 0 .. n |-> <<m>>]
  <2>1. f \in [0 .. n -> Seq(Nat)]
    BY <1>3
  <2>2. \A m \in 0 .. n : f[m] = DigitsStep(f, m)
    BY <1>3, <1>4, BaseFacts DEF DigitsStep
  <2> QED BY <1>3, <2>1, <2>2 DEF DigitsTo
<1>5. CASE ~ (n < Base)
  <2>1. n - 1 \in Nat /\ n - 1 \notin S
    BY <1>2, <1>3, <1>5, BaseFacts
  <2>2. PICK f \in DigitsTo(n - 1) : TRUE
    BY <2>1
  <2> DEFINE g == [m \in 0 .. n |-> IF m = n THEN DigitsStep(f, n) ELSE f[m]]
  <2>3. f \in [0 .. n - 1 -> Seq(Nat)] /\ \A m \in 0 .. n - 1 : f[m] = DigitsStep(f, m)
    BY <2>2 DEF DigitsTo
  <2>4. n \div Base \in 0 .. n - 1 /\ n % Base \in Nat
    BY <1>3, <1>5, Division, BaseFacts
  <2>5. DigitsStep(f, n) \in Seq(Nat)
    BY <1>3, <1>5, <2>3, <2>4 DEF DigitsStep
  <2>6. g \in [0 .. n -> Seq(Nat)]
    BY <1>3, <2>3, <2>5
  <2>7. ASSUME NEW m \in 0 .. n PROVE g[m] = DigitsStep(g, m)
    <3>1. m >= Base => m \div Base \in 0 .. n - 1
      BY <1>3, Division
    <3>2. m >= Base => g[m \div Base] = f[m \div Base]
      BY <1>3, <3>1
    <3>3. DigitsStep(g, m) = DigitsStep(f, m)
      BY <1>3, <3>2, BaseFacts DEF DigitsStep
    <3>4. m # n => m \in 0 .. n - 1
      BY <1>3
    <3> QED BY <2>3, <3>3, <3>4
  <2> QED BY <1>3, <2>6, <2>7 DEF DigitsTo
<1> QED BY <1>4, <1>5

LEMMA OneDigitsTo ==
    ASSUME NEW n \in Nat, NEW p \in Nat, NEW f \in DigitsTo(n), NEW g \in DigitsTo(p)
    PROVE  \A m \in 0 .. n \cap 0 .. p : f[m] = g[m]
<1> DEFINE S == {m \in 0 .. n \cap 0 .. p : f[m] # g[m]}
<1>1. SUFFICES ASSUME S # {} PROVE FALSE
  OBVIOUS
<1>2. PICK m \in S : \A k \in S : m <= k
  <2>1. S \in SUBSET Nat
    OBVIOUS
  <2> HIDE DEF S
  <2> QED BY <1>1, <2>1, Least
<1>3. m \in 0 .. n /\ m \in 0 .. p /\ m \in Nat /\ f[m] # g[m]
  OBVIOUS
<1>4. f[m] = DigitsStep(f, m) /\ g[m] = DigitsStep(g, m)
  BY <1>3 DEF DigitsTo
<1>5. ~ (m < Base)
  BY <1>3, <1>4 DEF DigitsStep
<1>6. m \div Base \in Nat /\ m \div Base < m
  BY <1>3, <1>5, Division, BaseFacts
<1>7. m \div Base \in 0 .. n /\ m \div Base \in 0 .. p
  BY <1>3, <1>6
<1>8. m \div Base \notin S
  BY <1>2, <1>3, <1>6
<1>9. f[m \div Base] = g[m \div Base]
  BY <1>7, <1>8
<1> QED BY <1>3, <1>4, <1>9 DEF DigitsStep

\* There is a function that is its own step: the definition of Digits is one.
LEMMA DigitsUnfolds == Digits = [n \in Nat |-> DigitsStep(Digits, n)]
<1> DEFINE to == [n \in Nat |-> CHOOSE f : f \in DigitsTo(n)]
           D  == [n \in Nat |-> to[n][n]]
<1>1. \A n \in Nat : to[n] \in DigitsTo(n)
  BY SomeDigitsTo
<1>2. \A n \in Nat : D[n] = to[n][n]
  OBVIOUS
<1> HIDE DEF to
<1>3. D = [n \in Nat |-> DigitsStep(D, n)]
  <2>1. ASSUME NEW n \in Nat PROVE D[n] = DigitsStep(D, n)
    <3> DEFINE q == n \div Base
    <3>1. to[n][n] = DigitsStep(to[n], n)
      BY <1>1 DEF DigitsTo
    <3>2. CASE n < Base
      BY <3>1, <3>2 DEF DigitsStep
    <3>3. CASE ~ (n < Base)
      <4>1. q \in Nat /\ q < n
        BY <3>3, Division, BaseFacts
      <4> HIDE DEF q
      <4>2. to[q] \in DigitsTo(q) /\ to[n] \in DigitsTo(n) /\ q \in 0 .. q \cap 0 .. n
        BY <1>1, <4>1
      <4>3. to[n][q] = to[q][q]
        BY <4>1, <4>2, OneDigitsTo
      <4>4. D[q] = to[n][q]
        BY <4>1, <4>3
      <4> QED BY <3>1, <3>3, <4>4 DEF DigitsStep, q
    <3> QED BY <3>2, <3>3
  <2> QED BY <2>1
<1> HIDE DEF D
<1>4. Digits = CHOOSE g : g = [n \in Nat |-> DigitsStep(g, n)]
  BY DEF Digits, DigitsStep
<1> QED BY <1>3, <1>4

LEMMA DigitsAre ==
    ASSUME NEW n \in Nat
    PROVE  Digits[n] = IF n < Base THEN <<n>> ELSE Append(Digits[n \div Base], n % Base)
  BY DigitsUnfolds DEF DigitsStep

LEMMA DigitsType == \A n \in Nat : Digits[n] \in Seq(Nat) /\ Len(Digits[n]) >= 1
<1> DEFINE S == {n \in Nat : ~ (Digits[n] \in Seq(Nat) /\ Len(Digits[n]) >= 1)}
<1>1. SUFFICES ASSUME S # {} PROVE FALSE
  OBVIOUS
<1>2. PICK n \in S : \A k \in S : n <= k
  <2>1. S \in SUBSET Nat
    OBVIOUS
  <2> HIDE DEF S
  <2> QED BY <1>1, <2>1, Least
<1>3. n \in Nat /\ ~ (Digits[n] \in Seq(Nat) /\ Len(Digits[n]) >= 1)
  OBVIOUS
<1>4. ~ (n < Base)
  <2>1. <<n>> \in Seq(Nat) /\ Len(<<n>>) >= 1
    BY <1>3
  <2> QED BY <1>3, <2>1, DigitsAre
<1>5. n \div Base \in Nat /\ n \div Base < n /\ n % Base \in Nat
  BY <1>3, <1>4, Quotient
<1>6. n \div Base \notin S
  BY <1>2, <1>3, <1>5
<1> DEFINE a == Digits[n \div Base]
<1>7. a \in Seq(Nat) /\ Digits[n] = Append(a, n % Base)
  BY <1>3, <1>4, <1>5, <1>6, DigitsAre
<1> HIDE DEF a
<1> QED BY <1>3, <1>5, <1>7

\* No two numbers are written the same.
LEMMA DigitsTell == \A m, n \in Nat : Digits[m] = Digits[n] => m = n
<1> DEFINE S == {m \in Nat : \E n \in Nat : Digits[m] = Digits[n] /\ m # n}
<1>1. SUFFICES ASSUME S # {} PROVE FALSE
  OBVIOUS
<1>2. PICK m \in S : \A k \in S : m <= k
  <2>1. S \in SUBSET Nat
    OBVIOUS
  <2> HIDE DEF S
  <2> QED BY <1>1, <2>1, Least
<1>3. PICK n \in Nat : m \in Nat /\ Digits[m] = Digits[n] /\ m # n
  OBVIOUS
<1> DEFINE a == Digits[m \div Base]
           b == Digits[n \div Base]
<1>4. ASSUME NEW k \in Nat, k >= Base
      PROVE  /\ k \div Base \in Nat /\ k % Base \in Nat /\ k \div Base < k
             /\ Digits[k \div Base] \in Seq(Nat) /\ Len(Digits[k \div Base]) >= 1
             /\ Digits[k] = Append(Digits[k \div Base], k % Base)
  <2>1. ~ (k < Base)
    BY <1>4, BaseFacts
  <2>2. k \div Base \in Nat /\ k % Base \in Nat /\ k \div Base < k
    BY <2>1, Quotient
  <2> QED BY <2>1, <2>2, DigitsType, DigitsAre
<1>5. \A k \in Nat : k < Base => Digits[k] = <<k>>
  BY DigitsAre
<1>6. m >= Base /\ n >= Base
  <2>1. CASE m < Base /\ n < Base
    BY <1>3, <1>5, <2>1
  <2>2. CASE m < Base /\ n >= Base
    <3>1. Len(Digits[m]) = 1
      BY <1>3, <1>5, <2>2
    <3>2. b \in Seq(Nat) /\ Len(b) >= 1 /\ Digits[n] = Append(b, n % Base)
      BY <1>3, <1>4, <2>2
    <3> HIDE DEF b
    <3> QED BY <1>3, <3>1, <3>2
  <2>3. CASE m >= Base /\ n < Base
    <3>1. Len(Digits[n]) = 1
      BY <1>3, <1>5, <2>3
    <3>2. a \in Seq(Nat) /\ Len(a) >= 1 /\ Digits[m] = Append(a, m % Base)
      BY <1>3, <1>4, <2>3
    <3> HIDE DEF a
    <3> QED BY <1>3, <3>1, <3>2
  <2> QED BY <1>3, <2>1, <2>2, <2>3, BaseFacts
<1>7. a = b /\ m % Base = n % Base
  <2>1. /\ a \in Seq(Nat) /\ b \in Seq(Nat)
        /\ Append(a, m % Base) = Append(b, n % Base)
    BY <1>3, <1>4, <1>6
  <2>2. m % Base \in Nat /\ n % Base \in Nat
    BY <1>3, <1>4, <1>6
  <2> HIDE DEF a, b
  <2> DEFINE x == m % Base
             y == n % Base
  <2>3. x \in Nat /\ y \in Nat /\ Append(a, x) = Append(b, y)
    BY <2>1, <2>2
  <2> HIDE DEF x, y
  <2>4. a = b /\ x = y
    BY ONLY <2>1, <2>3, AppendInjective
  <2> QED BY <2>4 DEF x, y
<1>8. m \div Base = n \div Base
  <2>1. /\ m \div Base \in Nat /\ n \div Base \in Nat /\ m \div Base < m
    BY <1>3, <1>4, <1>6
  <2>2. m \div Base \notin S
    BY <1>2, <1>3, <2>1
  <2> QED BY <1>7, <2>1, <2>2
<1>9. m = n
  BY <1>3, <1>7, <1>8, Division
<1> QED BY <1>3, <1>9

-----------------------------------------------------------------------------
\* A sequence read on past its end, where there is less than any digit.
At(a, k) == IF k <= Len(a) THEN a[k] + 1 ELSE 0

FirstLess(a, b, k) == /\ At(a, k) < At(b, k)
                      /\ \A j \in 1 .. k - 1 : At(a, j) = At(b, j)

LEMMA AtType == ASSUME NEW a \in Seq(Nat), NEW k \in Nat \ {0} PROVE At(a, k) \in Nat
  BY DEF At

\* The order of two keys is decided where they first differ.
LEMMA OrderOfKeys ==
    ASSUME NEW m \in Nat, NEW n \in Nat
    PROVE  KeyBefore(m, n) <=> \E k \in Nat \ {0} : FirstLess(Digits[m], Digits[n], k)
<1> DEFINE a == Digits[m]
           b == Digits[n]
<1>1. a \in Seq(Nat) /\ b \in Seq(Nat)
  BY DigitsType
<1>2. KeyBefore(m, n) <=>
        \/ Len(a) <= Len(b) /\ SubSeq(a, 1, Len(a)) = SubSeq(b, 1, Len(a)) /\ a # b
        \/ \E k \in DOMAIN a \cap DOMAIN b :
              a[k] < b[k] /\ \A j \in 1 .. k - 1 : a[j] = b[j]
  BY DEF KeyBefore, IsStrictPrefix, IsPrefix
<1> HIDE DEF a, b
<1>3. ASSUME Len(a) <= Len(b), SubSeq(a, 1, Len(a)) = SubSeq(b, 1, Len(a)), a # b
      PROVE  \E k \in Nat \ {0} : FirstLess(a, b, k)
  <2>1. \A j \in 1 .. Len(a) : a[j] = SubSeq(a, 1, Len(a))[j] /\ b[j] = SubSeq(b, 1, Len(a))[j]
    BY <1>1, <1>3
  <2>2. \A j \in 1 .. Len(a) : a[j] = b[j]
    BY <1>3, <2>1
  <2>3. Len(a) # Len(b)
    BY <1>1, <1>3, <2>2
  <2>4. FirstLess(a, b, Len(a) + 1)
    BY <1>1, <1>3, <2>2, <2>3 DEF FirstLess, At
  <2> QED BY <1>1, <2>4
<1>4. ASSUME NEW k \in DOMAIN a \cap DOMAIN b, a[k] < b[k], \A j \in 1 .. k - 1 : a[j] = b[j]
      PROVE  \E i \in Nat \ {0} : FirstLess(a, b, i)
  <2>1. k \in Nat \ {0} /\ k <= Len(a) /\ k <= Len(b)
    BY <1>1
  <2>2. FirstLess(a, b, k)
    BY <1>1, <1>4, <2>1 DEF FirstLess, At
  <2> QED BY <2>1, <2>2
<1>5. ASSUME NEW k \in Nat \ {0}, FirstLess(a, b, k), k <= Len(a)
      PROVE  k \in DOMAIN a \cap DOMAIN b /\ a[k] < b[k] /\ \A j \in 1 .. k - 1 : a[j] = b[j]
  <2>1. k <= Len(b)
    BY <1>1, <1>5 DEF FirstLess, At
  <2>2. a[k] \in Nat /\ b[k] \in Nat /\ a[k] < b[k]
    BY <1>1, <1>5, <2>1 DEF FirstLess, At
  <2>3. ASSUME NEW j \in 1 .. k - 1 PROVE a[j] = b[j]
    <3>1. j <= Len(a) /\ j <= Len(b) /\ a[j] \in Nat /\ b[j] \in Nat
      BY <1>1, <1>5, <2>1
    <3>2. At(a, j) = At(b, j)
      BY <1>5 DEF FirstLess
    <3> QED BY <3>1, <3>2 DEF At
  <2> QED BY <1>1, <1>5, <2>1, <2>2, <2>3
<1>6. ASSUME NEW k \in Nat \ {0}, FirstLess(a, b, k), k > Len(a)
      PROVE  Len(a) <= Len(b) /\ SubSeq(a, 1, Len(a)) = SubSeq(b, 1, Len(a)) /\ a # b
  <2>1. k <= Len(b)
    BY <1>1, <1>6 DEF FirstLess, At
  <2>2. ASSUME NEW j \in 1 .. Len(a) PROVE a[j] = b[j]
    <3>1. j \in 1 .. k - 1 /\ j <= Len(a) /\ j <= Len(b) /\ a[j] \in Nat /\ b[j] \in Nat
      BY <1>1, <1>6, <2>1
    <3>2. At(a, j) = At(b, j)
      BY <1>6, <3>1 DEF FirstLess
    <3> QED BY <3>1, <3>2 DEF At
  <2>3. Len(a) < Len(b)
    BY <1>1, <1>6, <2>1
  <2>4. SubSeq(a, 1, Len(a)) = SubSeq(b, 1, Len(a))
    BY <1>1, <2>2, <2>3
  <2> QED BY <1>1, <2>3, <2>4
<1>7. \A k \in Nat \ {0} : k <= Len(a) \/ k > Len(a)
  BY <1>1
<1>8. KeyBefore(m, n) <=> \E k \in Nat \ {0} : FirstLess(a, b, k)
  BY <1>2, <1>3, <1>4, <1>5, <1>6, <1>7
<1> QED BY <1>8 DEF a, b

\* The keys are in a strict order, and no two are level.
LEMMA KeysAreOrdered ==
    /\ \A m \in Nat : ~ KeyBefore(m, m)
    /\ \A m, n \in Nat : m # n => KeyBefore(m, n) \/ KeyBefore(n, m)
    /\ \A l, m, n \in Nat : KeyBefore(l, m) /\ KeyBefore(m, n) => KeyBefore(l, n)
<1>1. \A n \in Nat : Digits[n] \in Seq(Nat)
  BY DigitsType
<1>2. ASSUME NEW m \in Nat, KeyBefore(m, m) PROVE FALSE
  <2>1. PICK k \in Nat \ {0} : FirstLess(Digits[m], Digits[m], k)
    BY <1>2, OrderOfKeys
  <2> QED BY <1>1, <2>1, AtType DEF FirstLess
<1>3. ASSUME NEW m \in Nat, NEW n \in Nat, m # n
      PROVE  KeyBefore(m, n) \/ KeyBefore(n, m)
  <2> DEFINE a == Digits[m]
             b == Digits[n]
             S == {k \in Nat \ {0} : At(a, k) # At(b, k)}
  <2>1. a \in Seq(Nat) /\ b \in Seq(Nat) /\ a # b
    BY <1>1, <1>3, DigitsTell
  <2>2. S # {}
    <3>1. SUFFICES ASSUME \A k \in Nat \ {0} : At(a, k) = At(b, k) PROVE FALSE
      OBVIOUS
    <3> HIDE DEF a, b
    <3>2. Len(a) \in Nat /\ Len(b) \in Nat
      BY <2>1
    <3>3. Len(a) = Len(b)
      <4>1. ASSUME Len(a) < Len(b) PROVE FALSE
        <5>1. At(a, Len(a) + 1) = At(b, Len(a) + 1)
          BY <3>1, <3>2
        <5>2. b[Len(a) + 1] \in Nat
          BY <2>1, <3>2, <4>1
        <5> QED BY <3>2, <4>1, <5>1, <5>2 DEF At
      <4>2. ASSUME Len(b) < Len(a) PROVE FALSE
        <5>1. At(a, Len(b) + 1) = At(b, Len(b) + 1)
          BY <3>1, <3>2
        <5>2. a[Len(b) + 1] \in Nat
          BY <2>1, <3>2, <4>2
        <5> QED BY <3>2, <4>2, <5>1, <5>2 DEF At
      <4> QED BY <3>2, <4>1, <4>2
    <3>4. ASSUME NEW k \in 1 .. Len(a) PROVE a[k] = b[k]
      <4>1. At(a, k) = At(b, k)
        BY <3>1, <3>2
      <4>2. a[k] \in Nat /\ b[k] \in Nat /\ k <= Len(a) /\ k <= Len(b)
        BY <2>1, <3>2, <3>3
      <4> QED BY <4>1, <4>2 DEF At
    <3> QED BY <2>1, <3>3, <3>4, SeqEqual
  <2>3. PICK k \in S : \A j \in S : k <= j
    <3>1. S \in SUBSET Nat
      OBVIOUS
    <3> HIDE DEF S
    <3> QED BY <2>2, <3>1, Least
  <2>4. k \in Nat \ {0} /\ At(a, k) # At(b, k)
    OBVIOUS
  <2>5. ASSUME NEW j \in 1 .. k - 1 PROVE At(a, j) = At(b, j)
    <3>1. j \in Nat \ {0} /\ j < k
      BY <2>4
    <3>2. j \notin S
      BY <2>3, <2>4, <3>1
    <3> QED BY <3>1, <3>2
  <2>6. At(a, k) \in Nat /\ At(b, k) \in Nat
    BY <2>1, <2>4, AtType
  <2>7. FirstLess(a, b, k) \/ FirstLess(b, a, k)
    BY <2>4, <2>5, <2>6 DEF FirstLess
  <2> QED BY <2>4, <2>7, OrderOfKeys
<1>4. ASSUME NEW l \in Nat, NEW m \in Nat, NEW n \in Nat, KeyBefore(l, m), KeyBefore(m, n)
      PROVE  KeyBefore(l, n)
  <2> DEFINE a == Digits[l]
             b == Digits[m]
             c == Digits[n]
  <2>1. a \in Seq(Nat) /\ b \in Seq(Nat) /\ c \in Seq(Nat)
    BY <1>1
  <2>2. PICK i \in Nat \ {0} : FirstLess(a, b, i)
    BY <1>4, OrderOfKeys
  <2>3. PICK j \in Nat \ {0} : FirstLess(b, c, j)
    BY <1>4, OrderOfKeys
  <2> HIDE DEF a, b, c
  <2>4. \A k \in Nat \ {0} : At(a, k) \in Nat /\ At(b, k) \in Nat /\ At(c, k) \in Nat
    BY <2>1, AtType
  <2>5. CASE i <= j
    <3>1. At(b, i) <= At(c, i)
      BY <2>3, <2>4, <2>5 DEF FirstLess
    <3>2. \A k \in 1 .. i - 1 : At(a, k) = At(c, k)
      BY <2>2, <2>3, <2>5 DEF FirstLess
    <3>3. At(a, i) < At(c, i)
      BY <2>2, <2>4, <3>1 DEF FirstLess
    <3>4. FirstLess(a, c, i)
      BY <3>2, <3>3 DEF FirstLess
    <3> QED BY <3>4, OrderOfKeys DEF a, c
  <2>6. CASE j < i
    <3>1. At(a, j) = At(b, j)
      BY <2>2, <2>6 DEF FirstLess
    <3>2. \A k \in 1 .. j - 1 : At(a, k) = At(c, k)
      BY <2>2, <2>3, <2>6 DEF FirstLess
    <3>3. FirstLess(a, c, j)
      BY <2>3, <3>1, <3>2 DEF FirstLess
    <3> QED BY <3>3, OrderOfKeys DEF a, c
  <2> QED BY <2>5, <2>6
<1> QED BY <1>2, <1>3, <1>4

-----------------------------------------------------------------------------
\* Every place in the order is the place of one entry.
LEMMA PlacesAreTaken ==
    ASSUME NEW n \in Nat
    PROVE  /\ \A i \in 1 .. n : KeysBefore(n, i) \in Nat /\ KeysBefore(n, i) < n
           /\ \A k \in 1 .. n : \E i \in 1 .. n : KeysBefore(n, i) = k - 1
           /\ \A i, j \in 1 .. n : KeysBefore(n, i) = KeysBefore(n, j) => i = j
<1> DEFINE before(i) == {j \in 1 .. n : KeyBefore(j, i)}
           f == [i \in 1 .. n |-> KeysBefore(n, i) + 1]
<1>1. IsFiniteSet(1 .. n) /\ Cardinality(1 .. n) = n
  BY FS_Interval
<1>2. \A i \in 1 .. n : IsFiniteSet(before(i)) /\ KeysBefore(n, i) \in Nat
  <2> TAKE i \in 1 .. n
  <2>1. IsFiniteSet(before(i))
    BY <1>1, FS_Subset
  <2> QED BY <2>1, FS_CardinalityType DEF KeysBefore
<1>3. \A i \in 1 .. n : KeysBefore(n, i) < n
  <2> TAKE i \in 1 .. n
  <2>1. i \notin before(i)
    BY KeysAreOrdered
  <2>2. before(i) \in SUBSET (1 .. n) /\ before(i) # 1 .. n
    BY <2>1
  <2>3. KeysBefore(n, i) = Cardinality(before(i))
    BY DEF KeysBefore
  <2> HIDE DEF before
  <2> QED BY <1>1, <1>2, <2>2, <2>3, FS_Subset
<1>4. ASSUME NEW i \in 1 .. n, NEW j \in 1 .. n, KeyBefore(i, j)
      PROVE  KeysBefore(n, i) # KeysBefore(n, j)
  <2>1. before(i) \in SUBSET before(j)
    BY <1>4, KeysAreOrdered
  <2>2. i \in before(j) /\ i \notin before(i)
    BY <1>4, KeysAreOrdered
  <2>3. /\ KeysBefore(n, i) = Cardinality(before(i))
        /\ KeysBefore(n, j) = Cardinality(before(j))
    BY DEF KeysBefore
  <2>4. IsFiniteSet(before(j))
    BY <1>2
  <2> HIDE DEF before
  <2> QED BY <2>1, <2>2, <2>3, <2>4, FS_Subset
<1>5. \A i, j \in 1 .. n : KeysBefore(n, i) = KeysBefore(n, j) => i = j
  BY <1>4, KeysAreOrdered
<1>6. \A i \in 1 .. n : KeysBefore(n, i) \in Nat /\ KeysBefore(n, i) < n
  BY <1>2, <1>3
<1> HIDE DEF before
<1>7. f \in Injection(1 .. n, 1 .. n)
  <2>1. f \in [1 .. n -> 1 .. n]
    <3>1. \A i \in 1 .. n : KeysBefore(n, i) + 1 \in 1 .. n
      BY <1>6
    <3> QED BY <3>1
  <2>2. ASSUME NEW i \in 1 .. n, NEW j \in 1 .. n, f[i] = f[j] PROVE i = j
    <3>1. KeysBefore(n, i) + 1 = KeysBefore(n, j) + 1
      BY <2>2
    <3>2. KeysBefore(n, i) = KeysBefore(n, j)
      BY <1>6, <3>1
    <3> QED BY <1>5, <3>2
  <2> HIDE DEF f
  <2> QED BY <2>1, <2>2 DEF Injection, IsInjective
<1> HIDE DEF f
<1>8. f \in Surjection(1 .. n, 1 .. n)
  BY <1>1, <1>7, FS_Injection
<1>9. \A k \in 1 .. n : \E i \in 1 .. n : f[i] = k
  BY <1>8 DEF Surjection
<1>10. ASSUME NEW k \in 1 .. n PROVE \E i \in 1 .. n : KeysBefore(n, i) = k - 1
  <2>1. PICK i \in 1 .. n : f[i] = k
    BY <1>9
  <2>2. KeysBefore(n, i) + 1 = k
    BY <2>1 DEF f
  <2> QED BY <1>6, <2>2
<1> QED BY <1>5, <1>6, <1>10

\* No two elements of s are the same.
Once(s) == \A i, j \in 1 .. Len(s) : s[i] = s[j] => i = j

\* A cursor finds every entry of the log, and each once.
LEMMA WalkFindsAll ==
    ASSUME NEW d \in Dbs, log[d] \in Seq(Nat)
    PROVE  /\ Walk(d) \in Seq(Nat)
           /\ ToSet(Walk(d)) = ToSet(log[d])
           /\ Once(log[d]) => Once(Walk(d))
<1> DEFINE n == Len(log[d])
           at(k) == CHOOSE i \in 1 .. n : KeysBefore(n, i) = k - 1
<1>1. Walk(d) = [k \in 1 .. n |-> log[d][at(k)]]
  BY DEF Walk
<1>2. n \in Nat /\ DOMAIN log[d] = 1 .. n
  OBVIOUS
<1> HIDE DEF n
<1>3. \A k \in 1 .. n : at(k) \in 1 .. n /\ KeysBefore(n, at(k)) = k - 1
  BY <1>2, PlacesAreTaken
<1>4. ASSUME NEW i \in 1 .. n PROVE \E k \in 1 .. n : at(k) = i
  <2>1. \A j \in 1 .. n : KeysBefore(n, j) \in Nat /\ KeysBefore(n, j) < n
    BY <1>2, PlacesAreTaken
  <2>2. KeysBefore(n, i) + 1 \in 1 .. n
    BY <1>2, <2>1
  <2> DEFINE k == KeysBefore(n, i) + 1
  <2>3. k \in 1 .. n /\ k - 1 = KeysBefore(n, i)
    BY <2>1, <2>2
  <2>4. KeysBefore(n, at(k)) = KeysBefore(n, i)
    BY <1>3, <2>3
  <2>5. at(k) = i
    BY <1>2, <1>3, <2>3, <2>4, PlacesAreTaken
  <2> QED BY <2>3, <2>5
<1>5. \A j, k \in 1 .. n : at(j) = at(k) => j = k
  BY <1>2, <1>3
<1> HIDE DEF at
<1>6. \A k \in 1 .. n : log[d][at(k)] \in Nat
  BY <1>2, <1>3, ElementOfSeq DEF n
<1>7. Walk(d) \in Seq(Nat) /\ Len(Walk(d)) = n /\ DOMAIN Walk(d) = 1 .. n
  <2>1. Walk(d) \in [1 .. n -> Nat]
    BY <1>1, <1>6
  <2> QED BY <1>2, <2>1, IsASeq, LenProperties
<1>8. \A k \in 1 .. n : Walk(d)[k] = log[d][at(k)]
  BY <1>1
<1> DEFINE w == Walk(d)
           l == log[d]
<1>9. \A k \in 1 .. n : w[k] = l[at(k)]
  BY <1>8
<1>10. DOMAIN w = 1 .. n /\ DOMAIN l = 1 .. n /\ Len(w) = n /\ Len(l) = n
  BY <1>2, <1>7 DEF n
<1> HIDE DEF w, l
<1>11. ToSet(w) = ToSet(l)
  <2>1. ASSUME NEW k \in 1 .. n PROVE w[k] \in ToSet(l) /\ l[k] \in ToSet(w)
    <3>1. PICK j \in 1 .. n : at(j) = k
      BY <1>4
    <3>2. w[j] = l[k]
      BY <1>9, <3>1
    <3> QED BY <1>3, <1>9, <1>10, <3>1, <3>2 DEF ToSet
  <2> QED BY <1>10, <2>1 DEF ToSet
<1>12. ASSUME Once(l) PROVE Once(w)
  <2>1. ASSUME NEW i \in 1 .. n, NEW j \in 1 .. n, w[i] = w[j] PROVE i = j
    <3>1. l[at(i)] = l[at(j)]
      BY <1>9, <2>1
    <3>2. at(i) = at(j)
      BY <1>3, <1>10, <1>12, <3>1 DEF Once
    <3> QED BY <1>5, <3>2
  <2> QED BY <1>10, <2>1 DEF Once
<1> QED BY <1>7, <1>11, <1>12 DEF w, l

-----------------------------------------------------------------------------
(***************************************************************************)
(* Facts about sequences without repetitions                               *)
(***************************************************************************)

LEMMA Elements ==
    ASSUME NEW S, NEW s \in Seq(S)
    PROVE  /\ \A i \in 1 .. Len(s) : s[i] \in ToSet(s)
           /\ \A e \in ToSet(s) : e \in S /\ \E i \in 1 .. Len(s) : s[i] = e
  BY DEF ToSet

LEMMA AppendOnce ==
    ASSUME NEW S, NEW s \in Seq(S), NEW e \in S
    PROVE  /\ ToSet(Append(s, e)) = ToSet(s) \cup {e}
           /\ Once(s) /\ e \notin ToSet(s) => Once(Append(s, e))
<1> DEFINE t == Append(s, e)
<1>1. /\ Len(t) = Len(s) + 1 /\ Len(s) \in Nat
      /\ DOMAIN t = 1 .. Len(t) /\ DOMAIN s = 1 .. Len(s)
      /\ \A i \in 1 .. Len(s) : t[i] = s[i]
      /\ t[Len(s) + 1] = e
  OBVIOUS
<1> HIDE DEF t
<1>2. \A i \in 1 .. Len(t) : i \in 1 .. Len(s) \/ i = Len(s) + 1
  BY <1>1
<1>3. 1 .. Len(s) \subseteq 1 .. Len(t) /\ Len(s) + 1 \in 1 .. Len(t)
  BY <1>1
<1>4. ToSet(t) = ToSet(s) \cup {e}
  BY <1>1, <1>2, <1>3 DEF ToSet
<1>5. Once(s) /\ e \notin ToSet(s) => Once(t)
  <2>1. \A i \in 1 .. Len(s) : s[i] \in ToSet(s)
    BY <1>1 DEF ToSet
  <2> QED BY <1>1, <1>2, <2>1 DEF Once
<1> QED BY <1>4, <1>5 DEF t

LEMMA TailOnce ==
    ASSUME NEW S, NEW s \in Seq(S), s # <<>>
    PROVE  /\ Head(s) \in S /\ Tail(s) \in Seq(S)
           /\ Head(s) \in ToSet(s)
           /\ ToSet(s) = ToSet(Tail(s)) \cup {Head(s)}
           /\ Once(s) => Once(Tail(s)) /\ Head(s) \notin ToSet(Tail(s))
<1> DEFINE t == Tail(s)
<1>1. /\ Len(t) = Len(s) - 1 /\ Len(s) \in Nat /\ Len(s) >= 1
      /\ DOMAIN t = 1 .. Len(t) /\ DOMAIN s = 1 .. Len(s)
      /\ \A i \in 1 .. Len(t) : t[i] = s[i + 1]
      /\ Head(s) = s[1] /\ Head(s) \in S /\ t \in Seq(S)
  BY HeadTailProperties
<1> HIDE DEF t
<1>2. \A i \in 1 .. Len(t) : i + 1 \in 1 .. Len(s)
  BY <1>1
<1>3. \A i \in 1 .. Len(s) : i = 1 \/ (i - 1 \in 1 .. Len(t) /\ t[i - 1] = s[i])
  BY <1>1
<1>4. 1 \in 1 .. Len(s)
  BY <1>1
<1>5. ToSet(s) = ToSet(t) \cup {Head(s)}
  <2>1. ASSUME NEW e \in ToSet(s) PROVE e \in ToSet(t) \cup {Head(s)}
    <3>1. PICK i \in 1 .. Len(s) : s[i] = e
      BY Elements
    <3> QED BY <1>1, <1>3, <3>1, Elements
  <2>2. ASSUME NEW e \in ToSet(t) PROVE e \in ToSet(s)
    <3> t \in Seq(S)
      BY <1>1
    <3>1. PICK i \in 1 .. Len(t) : t[i] = e
      BY Elements
    <3>2. i + 1 \in 1 .. Len(s) /\ s[i + 1] = e
      BY <1>1, <1>2, <3>1
    <3> QED BY <3>2, Elements
  <2>3. Head(s) \in ToSet(s)
    BY <1>1, <1>4 DEF ToSet
  <2> QED BY <2>1, <2>2, <2>3
<1>6. ASSUME Once(s) PROVE Once(t) /\ Head(s) \notin ToSet(t)
  <2>1. ASSUME NEW i \in 1 .. Len(t), NEW j \in 1 .. Len(t), t[i] = t[j] PROVE i = j
    <3>1. i + 1 \in 1 .. Len(s) /\ j + 1 \in 1 .. Len(s) /\ s[i + 1] = s[j + 1]
      BY <1>1, <1>2, <2>1
    <3>2. i + 1 = j + 1
      BY <1>6, <3>1 DEF Once
    <3> QED BY <3>2
  <2>2. ASSUME NEW i \in 1 .. Len(t), t[i] = s[1] PROVE FALSE
    <3>1. i + 1 \in 1 .. Len(s) /\ s[i + 1] = s[1]
      BY <1>1, <1>2, <2>2
    <3>2. i + 1 = 1
      BY <1>4, <1>6, <3>1 DEF Once
    <3> QED BY <3>2
  <2> QED BY <1>1, <2>1, <2>2 DEF Once, ToSet
<1> QED BY <1>1, <1>4, <1>5, <1>6 DEF t

LEMMA WithoutOnce ==
    ASSUME NEW S, NEW s \in Seq(S), NEW c
    PROVE  /\ Without(s, c) \in Seq(S)
           /\ ToSet(s) \ {c} \subseteq ToSet(Without(s, c))
           /\ ToSet(Without(s, c)) \subseteq ToSet(s)
           /\ Once(s) => Once(Without(s, c))
<1>1. Len(s) \in Nat /\ DOMAIN s = 1 .. Len(s)
  OBVIOUS
<1>2. CASE ~ \E i \in 1 .. Len(s) : s[i] = c
  <2>1. Without(s, c) = s
    BY <1>2 DEF Without, RemoveFirst
  <2> QED BY <2>1
<1>3. CASE \E i \in 1 .. Len(s) : s[i] = c
  <2> DEFINE I == {i \in 1 .. Len(s) : s[i] = c}
             k == Min(I)
             t == SubSeq(s, 1, k - 1) \o SubSeq(s, k + 1, Len(s))
  <2>1. Without(s, c) = t
    BY <1>3 DEF Without, RemoveFirst, RemoveAt, SelectInSeq
  <2>2. PICK low \in I : \A j \in I : low <= j
    <3>1. I \in SUBSET Nat /\ I # {}
      BY <1>1, <1>3
    <3> HIDE DEF I
    <3> QED BY <3>1, Least
  <2>3. k \in I
    BY <2>2 DEF Min
  <2>4. k \in 1 .. Len(s) /\ s[k] = c
    BY <2>3
  <2> HIDE DEF k, I
  <2>5. /\ t \in Seq(S) /\ Len(t) = Len(s) - 1 /\ DOMAIN t = 1 .. Len(t)
        /\ \A j \in 1 .. Len(t) : t[j] = IF j < k THEN s[j] ELSE s[j + 1]
    <3> DEFINE u == SubSeq(s, 1, k - 1)
               v == SubSeq(s, k + 1, Len(s))
    <3>1. u \in Seq(S) /\ Len(u) = k - 1 /\ \A j \in 1 .. k - 1 : u[j] = s[j]
      BY <1>1, <2>4
    <3>2. v \in Seq(S) /\ Len(v) = Len(s) - k /\ \A j \in 1 .. Len(s) - k : v[j] = s[j + k]
      <4>1. k + 1 \in 1 .. Len(s) + 1 /\ Len(s) \in (k + 1) - 1 .. Len(s)
        BY <1>1, <2>4
      <4>2. /\ v \in Seq(S) /\ Len(v) = (Len(s) - (k + 1)) + 1
            /\ \A j \in 1 .. (Len(s) - (k + 1)) + 1 : v[j] = s[((k + 1) + j) - 1]
        BY <4>1, SubSeqProperties
      <4>3. (Len(s) - (k + 1)) + 1 = Len(s) - k
        BY <1>1, <2>4
      <4>4. \A j \in 1 .. Len(s) - k : ((k + 1) + j) - 1 = j + k
        BY <1>1, <2>4
      <4> HIDE DEF v
      <4> QED BY <4>2, <4>3, <4>4
    <3> HIDE DEF u, v
    <3>3. /\ u \o v \in Seq(S) /\ Len(u \o v) = Len(s) - 1
          /\ \A j \in 1 .. Len(s) - 1 :
                (u \o v)[j] = IF j < k THEN u[j] ELSE v[(j - k) + 1]
      <4>1. Len(u) = k - 1 /\ Len(v) = Len(s) - k /\ Len(u) + Len(v) = Len(s) - 1
        BY <1>1, <2>4, <3>1, <3>2
      <4>2. /\ u \o v \in Seq(S) /\ Len(u \o v) = Len(u) + Len(v)
            /\ \A j \in 1 .. Len(u) + Len(v) :
                  (u \o v)[j] = IF j <= Len(u) THEN u[j] ELSE v[j - Len(u)]
        BY <3>1, <3>2, ConcatProperties
      <4> DEFINE w == u \o v
      <4>3. \A j \in 1 .. Len(s) - 1 : w[j] = IF j <= k - 1 THEN u[j] ELSE v[j - (k - 1)]
        BY <4>1, <4>2
      <4> HIDE DEF w
      <4>4. \A j \in 1 .. Len(s) - 1 : (j <= k - 1 <=> j < k) /\ j - (k - 1) = (j - k) + 1
        BY <1>1, <2>4
      <4>5. \A j \in 1 .. Len(s) - 1 : w[j] = IF j < k THEN u[j] ELSE v[(j - k) + 1]
        BY <4>3, <4>4
      <4> QED BY <4>1, <4>2, <4>5 DEF w
    <3>4. \A j \in 1 .. Len(s) - 1 :
             (u \o v)[j] = IF j < k THEN s[j] ELSE s[j + 1]
      <4> TAKE j \in 1 .. Len(s) - 1
      <4>1. CASE j < k
        BY <1>1, <2>4, <3>1, <3>3, <4>1
      <4>2. CASE ~ (j < k)
        <5>1. (j - k) + 1 \in 1 .. Len(s) - k /\ ((j - k) + 1) + k = j + 1
          BY <1>1, <2>4, <4>2
        <5>2. v[(j - k) + 1] = s[j + 1]
          BY <3>2, <5>1
        <5> QED BY <3>3, <4>2, <5>2
      <4> QED BY <4>1, <4>2
    <3> DEFINE w == u \o v
    <3>5. w \in Seq(S) /\ Len(w) = Len(s) - 1
      BY <3>3
    <3>6. \A j \in 1 .. Len(s) - 1 : w[j] = IF j < k THEN s[j] ELSE s[j + 1]
      BY <3>4
    <3>7. t = w
      BY DEF u, v
    <3> HIDE DEF w, t
    <3>8. DOMAIN w = 1 .. Len(w)
      BY <3>5
    <3> QED BY <3>5, <3>6, <3>7, <3>8
  <2> HIDE DEF t
  <2>6. ToSet(t) \subseteq ToSet(s)
    <3>1. ASSUME NEW j \in 1 .. Len(t) PROVE t[j] \in ToSet(s)
      <4>1. \A l \in 1 .. Len(s) : s[l] \in ToSet(s)
        BY <1>1 DEF ToSet
      <4>2. t[j] = IF j < k THEN s[j] ELSE s[j + 1]
        BY <2>5
      <4>3. j \in 1 .. Len(s) /\ j + 1 \in 1 .. Len(s)
        BY <1>1, <2>4, <2>5
      <4> QED BY <4>1, <4>2, <4>3
    <3> QED BY <2>5, <3>1 DEF ToSet
  <2>7. ToSet(s) \ {c} \subseteq ToSet(t)
    <3>1. ASSUME NEW j \in 1 .. Len(s), j # k PROVE s[j] \in ToSet(t)
      <4>1. CASE j < k
        <5>1. j \in 1 .. Len(t) /\ t[j] = s[j]
          BY <1>1, <2>4, <2>5, <4>1
        <5> QED BY <2>5, <5>1 DEF ToSet
      <4>2. CASE j > k
        <5>1. j - 1 \in 1 .. Len(t) /\ ~ (j - 1 < k) /\ (j - 1) + 1 = j
          BY <1>1, <2>4, <2>5, <4>2
        <5>2. t[j - 1] = s[j]
          BY <2>5, <5>1
        <5> QED BY <2>5, <5>1, <5>2 DEF ToSet
      <4> QED BY <1>1, <2>4, <3>1, <4>1, <4>2
    <3> QED BY <1>1, <2>4, <3>1 DEF ToSet
  <2>8. ASSUME Once(s) PROVE Once(t)
    <3> DEFINE at(j) == IF j < k THEN j ELSE j + 1
    <3>1. \A j \in 1 .. Len(t) : at(j) \in 1 .. Len(s) /\ t[j] = s[at(j)]
      BY <1>1, <2>4, <2>5
    <3>2. \A i, j \in 1 .. Len(t) : at(i) = at(j) => i = j
      BY <1>1, <2>4, <2>5
    <3> HIDE DEF at
    <3>3. ASSUME NEW i \in 1 .. Len(t), NEW j \in 1 .. Len(t), t[i] = t[j] PROVE i = j
      <4>1. s[at(i)] = s[at(j)]
        BY <3>1, <3>3
      <4>2. at(i) = at(j)
        BY <2>8, <3>1, <4>1 DEF Once
      <4> QED BY <3>2, <4>2
    <3> QED BY <3>3 DEF Once
  <2> QED BY <2>1, <2>5, <2>6, <2>7, <2>8
<1> QED BY <1>2, <1>3

-----------------------------------------------------------------------------
(***************************************************************************)
(* The logs and the channels                                               *)
(***************************************************************************)

Types ==
    /\ log \in [Dbs -> Seq(Nat)]
    /\ logcbs \in [Dbs -> Seq(Tails)]
    /\ lock \in Requests \cup {Null}
    /\ todo \in Seq(Tails)
    /\ pc \in [Requests -> {"idle", "put", "announce", "send", "done"}]
    /\ db \in [Requests -> Dbs \cup {Null}]
    /\ feeder \in [Tails -> {"idle", "start", "view", "registered"}]
    /\ backlog \in [Tails -> Seq(Nat)]
    /\ handler \in [Tails -> {"idle", "select", "leave", "gone"}]
    /\ target \in [Tails -> Dbs \cup {Null}]
    /\ broken \in SUBSET Tails
    /\ got \in [Tails -> [1 .. Stored + NumRequests -> Nat]]
    /\ snap \in [Tails -> Nat]
    /\ missed \in [Tails -> SUBSET Requests]

\* An entry of a log is there once, and is of the database.
Entry(d, n) == n \in 1 .. Stored \/ (n \in Requests /\ db[n] = d)

IsPut(r) == pc[r] \in {"announce", "send", "done"}

Logs ==
    /\ \A r \in Requests : pc[r] # "idle" <=> db[r] \in Dbs
    /\ \A d \in Dbs : Once(log[d])
    /\ \A d \in Dbs : \A n \in ToSet(log[d]) : Entry(d, n)
    /\ \A r \in Requests : pc[r] # "idle" => (r \in ToSet(log[db[r]]) <=> IsPut(r))

\* A channel is registered once, by a tail that has read its log, and is there
\* until its client has gone.  The lock covers the channels that are left.
Locking ==
    /\ \A r \in Requests : pc[r] = "send" <=> lock = r
    /\ \A d \in Dbs : Once(logcbs[d])
    /\ \A d \in Dbs : \A c \in ToSet(logcbs[d]) : target[c] = d /\ feeder[c] = "registered"
    /\ lock # Null => Once(todo) /\ ToSet(todo) \subseteq ToSet(logcbs[db[lock]])
    /\ \A c \in Tails : Live(c) /\ feeder[c] = "registered" => c \in ToSet(logcbs[target[c]])

Ends ==
    /\ \A c \in Tails : handler[c] = "idle" <=> feeder[c] = "idle"
    /\ \A c \in Tails : feeder[c] # "idle" => target[c] \in Dbs
    /\ \A c \in Tails : handler[c] \in {"leave", "gone"} => c \in broken

Shape == Types /\ Logs /\ Locking /\ Ends

-----------------------------------------------------------------------------
(***************************************************************************)
(* What a tail has got                                                     *)
(***************************************************************************)

\* What tailDB of c found in the log, and how much of that it has sent.
Read(c) == {log[target[c]][i] : i \in 1 .. snap[c]}
Sent(c) == Read(c) \ ToSet(backlog[c])

Of(S, n) == IF n \in S THEN 1 ELSE 0

\* Announced while c could have heard of it.
Announced(c, r) == pc[r] \in {"send", "done"} /\ db[r] = target[c]

Fresh(c) ==
    /\ snap[c] = 0 /\ missed[c] = {}
    /\ \A r \in Requests : got[c][r] = 0

Viewing(c) ==
    /\ Once(backlog[c]) /\ ToSet(backlog[c]) \subseteq Read(c)
    /\ \A r \in Requests : Announced(c, r) => r \in Read(c) \cup missed[c]
    /\ \A r \in Requests : got[c][r] = Of(Sent(c), r)

\* How often c may have got r: once for each way r has come, of which an
\* announcement that is over is the one that may have been before the tail.
Times(c, r) ==
    CASE pc[r] = "send" /\ db[r] = target[c] /\ c \notin ToSet(todo) ->
            {Of(Read(c), r) + 1}
      [] pc[r] = "done" /\ db[r] = target[c] /\ r \notin missed[c] ->
            {1, Of(Read(c), r) + 1}
      [] OTHER -> {Of(Read(c), r)}

Receiving(c) ==
    /\ \A r \in missed[c] : pc[r] = "done"
    /\ \A r \in Requests : got[c][r] \in Times(c, r)

Counts(c) ==
    /\ ~ Live(c) => \A r \in Requests : got[c][r] = 0
    /\ feeder[c] \in {"idle", "start"} => Fresh(c)
    /\ Live(c) /\ feeder[c] \in {"view", "registered"} =>
          /\ snap[c] <= Len(log[target[c]])
          /\ \A r \in missed[c] : Announced(c, r)
    /\ Live(c) /\ feeder[c] = "view" => Viewing(c)
    /\ Live(c) /\ feeder[c] = "registered" => Receiving(c)

LogInv == Shape /\ \A c \in Tails : Counts(c)

LEMMA RequestFacts ==
    /\ Requests \subseteq Nat /\ Requests \subseteq 1 .. Stored + NumRequests
    /\ \A r \in Requests : r \notin 1 .. Stored
    /\ 1 .. Stored \subseteq 1 .. Stored + NumRequests
    /\ Null \notin Requests /\ Null \notin Dbs
    /\ 1 .. Stored + NumRequests \subseteq Nat
<1>1. Stored \in Nat /\ NumRequests \in Nat
  BY LogAssumption
<1> QED BY <1>1, LogAssumption DEF Requests

\* What a state looks like before a handler runs.
LEMMA HeadOf ==
    ASSUME NEW S, NEW s \in Seq(S), s # <<>>
    PROVE  Head(s) \in S /\ Tail(s) \in Seq(S)
  BY HeadTailProperties

LEMMA DeliverTypes ==
    ASSUME Types, NEW c \in Tails, NEW t, Deliver(c, t)
    PROVE  got' \in [Tails -> [1 .. Stored + NumRequests -> Nat]]
<1> DEFINE D == 1 .. Stored + NumRequests
           f == got[c]
           g == [f EXCEPT ![t] = @ + 1]
<1>1. f \in [D -> Nat]
  BY DEF Types
<1>2. got' = got \/ got' = [got EXCEPT ![c] = g]
  BY DEF Deliver
<1>3. got \in [Tails -> [D -> Nat]]
  BY DEF Types
<1> HIDE DEF D, f
<1>4. g \in [D -> Nat]
  <2>1. CASE t \in D
    <3>1. f[t] + 1 \in Nat
      BY <1>1, <2>1
    <3> QED BY <1>1, <3>1
  <2>2. CASE t \notin D
    BY <1>1, <2>2
  <2> QED BY <2>1, <2>2
<1> HIDE DEF g
<1>5. got' \in [Tails -> [D -> Nat]]
  BY <1>2, <1>3, <1>4
<1> QED BY <1>5 DEF D

LEMMA TypesStart == Init => Types
<1> SUFFICES ASSUME Init PROVE Types
  OBVIOUS
<1>1. /\ logcbs \in [Dbs -> Seq(Tails)]
      /\ lock \in Requests \cup {Null}
      /\ todo \in Seq(Tails)
      /\ pc \in [Requests -> {"idle", "put", "announce", "send", "done"}]
      /\ db \in [Requests -> Dbs \cup {Null}]
      /\ feeder \in [Tails -> {"idle", "start", "view", "registered"}]
      /\ backlog \in [Tails -> Seq(Nat)]
      /\ handler \in [Tails -> {"idle", "select", "leave", "gone"}]
      /\ target \in [Tails -> Dbs \cup {Null}]
      /\ broken \in SUBSET Tails
      /\ got \in [Tails -> [1 .. Stored + NumRequests -> Nat]]
      /\ snap \in [Tails -> Nat]
      /\ missed \in [Tails -> SUBSET Requests]
  BY DEF Init
<1>2. [n \in 1 .. Stored |-> n] \in Seq(Nat)
  <2>1. [n \in 1 .. Stored |-> n] \in [1 .. Stored -> Nat]
    OBVIOUS
  <2> QED BY <2>1, LogAssumption, IsASeq
<1>3. log \in [Dbs -> Seq(Nat)]
  BY <1>2 DEF Init
<1> QED BY <1>1, <1>3 DEF Types

LEMMA TypesStep ==
    ASSUME Types, Logs, Ends, [Next]_vars
    PROVE  Types'
<1> USE RequestFacts DEF Types
<1>1. CASE UNCHANGED vars
  BY <1>1 DEF vars, logVars, tailVars, history
<1>2. ASSUME NEW r \in Requests, Evaluated(r) PROVE Types'
  BY <1>2 DEF Evaluated, tailVars, history
<1>3. ASSUME NEW r \in Requests, Put(r) PROVE Types'
  <2>1. db[r] \in Dbs /\ log[db[r]] \in Seq(Nat) /\ r \in Nat
    BY <1>3 DEF Put, Logs
  <2>2. Append(log[db[r]], r) \in Seq(Nat)
    BY <2>1
  <2> QED BY <1>3, <2>2 DEF Put, tailVars, history
<1>4. ASSUME NEW r \in Requests, TakeLock(r) PROVE Types'
  <2>1. db[r] \in Dbs /\ logcbs[db[r]] \in Seq(Tails)
    BY <1>4 DEF TakeLock, Logs
  <2>2. missed' \in [Tails -> SUBSET Requests]
    BY <1>4 DEF TakeLock
  <2> QED BY <1>4, <2>1, <2>2 DEF TakeLock, Channels, tailVars
<1>5. ASSUME NEW r \in Requests, Announce(r) PROVE Types'
  <2>1. Head(todo) \in Tails /\ Tail(todo) \in Seq(Tails)
    BY <1>5, HeadOf DEF Announce
  <2>2. got' \in [Tails -> [1 .. Stored + NumRequests -> Nat]]
    BY <1>5, <2>1, DeliverTypes DEF Announce
  <2> QED BY <1>5, <2>1, <2>2 DEF Announce, tailVars
<1>6. ASSUME NEW r \in Requests, Unlock(r) PROVE Types'
  BY <1>6 DEF Unlock, Unlocked, tailVars, history
<1>7. ASSUME NEW c \in Tails, Open(c) PROVE Types'
  BY <1>7 DEF Open, logVars, history
<1>8. ASSUME NEW c \in Tails, View(c) PROVE Types'
  <2>1. target[c] \in Dbs /\ log[target[c]] \in Seq(Nat)
    BY <1>8 DEF View, Ends
  <2>2. Walk(target[c]) \in Seq(Nat) /\ Len(log[target[c]]) \in Nat
    BY <2>1, WalkFindsAll
  <2>3. /\ backlog' = [backlog EXCEPT ![c] = Walk(target[c])]
        /\ snap' \in [Tails -> Nat]
    BY <1>8, <2>2 DEF View
  <2> QED BY <1>8, <2>2, <2>3 DEF View, logVars
<1>9. ASSUME NEW c \in Tails, SendStored(c) PROVE Types'
  <2>1. Tail(backlog[c]) \in Seq(Nat)
    BY <1>9, HeadOf DEF SendStored
  <2>2. got' \in [Tails -> [1 .. Stored + NumRequests -> Nat]]
    BY <1>9, DeliverTypes DEF SendStored
  <2> QED BY <1>9, <2>1, <2>2 DEF SendStored, logVars
<1>10. ASSUME NEW c \in Tails, Register(c) PROVE Types'
  <2>1. target[c] \in Dbs /\ logcbs[target[c]] \in Seq(Tails)
    BY <1>10 DEF Register, Ends
  <2>2. Append(logcbs[target[c]], c) \in Seq(Tails)
    BY <2>1
  <2> QED BY <1>10, <2>2 DEF Register, Registered, history
<1>11. ASSUME NEW c \in Tails, Break(c) PROVE Types'
  <2>1. DOMAIN got[c] = 1 .. Stored + NumRequests
    OBVIOUS
  <2>2. [n \in DOMAIN got[c] |-> 0] \in [1 .. Stored + NumRequests -> Nat]
    BY <2>1
  <2>3. got' = [got EXCEPT ![c] = [n \in DOMAIN got[c] |-> 0]]
    BY <1>11 DEF Break
  <2> QED BY <1>11, <2>2, <2>3 DEF Break, logVars
<1>12. ASSUME NEW c \in Tails, Leave(c) PROVE Types'
  BY <1>12 DEF Leave, logVars, history
<1>13. ASSUME NEW c \in Tails, UnTail(c) PROVE Types'
  <2>1. \A d \in Dbs : Without(logcbs[d], c) \in Seq(Tails)
    BY WithoutOnce
  <2>2. logcbs' \in [Dbs -> Seq(Tails)]
    BY <1>13, <2>1 DEF UnTail
  <2> QED BY <1>13, <2>2 DEF UnTail, history
<1> QED BY <1>1, <1>2, <1>3, <1>4, <1>5, <1>6, <1>7, <1>8, <1>9, <1>10, <1>11,
           <1>12, <1>13 DEF Next

LEMMA EndsStep ==
    ASSUME Types, Logs, Ends, [Next]_vars
    PROVE  Ends'
<1> USE DEF Types, Ends
<1>1. CASE UNCHANGED vars
  BY <1>1 DEF vars, tailVars
<1>2. ASSUME NEW r \in Requests,
             Evaluated(r) \/ Put(r) \/ TakeLock(r) \/ Announce(r) \/ Unlock(r)
      PROVE  Ends'
  BY <1>2 DEF Evaluated, Put, TakeLock, Announce, Unlock, tailVars
<1>3. ASSUME NEW c \in Tails, Open(c) PROVE Ends'
  BY <1>3 DEF Open
<1>4. ASSUME NEW c \in Tails, View(c) \/ SendStored(c) \/ Register(c) PROVE Ends'
  BY <1>4 DEF View, SendStored, Register
<1>5. ASSUME NEW c \in Tails, Break(c) \/ Leave(c) \/ UnTail(c) PROVE Ends'
  BY <1>5 DEF Break, Leave, UnTail
<1> QED BY <1>1, <1>2, <1>3, <1>4, <1>5 DEF Next

LEMMA LogsStart == Init => Logs
<1> SUFFICES ASSUME Init PROVE Logs
  OBVIOUS
<1> DEFINE first == [n \in 1 .. Stored |-> n]
<1>1. /\ \A d \in Dbs : log[d] = first
      /\ \A r \in Requests : pc[r] = "idle"
  BY DEF Init
<1>2. Stored \in Nat
  BY LogAssumption
<1>3. first \in [1 .. Stored -> 1 .. Stored] /\ first \in Seq(1 .. Stored)
  <2>1. first \in [1 .. Stored -> 1 .. Stored]
    OBVIOUS
  <2> QED BY <1>2, <2>1, IsASeq
<1>4. Len(first) = Stored /\ \A n \in 1 .. Stored : first[n] = n
  BY <1>2, <1>3
<1> HIDE DEF first
<1>5. Once(first)
  BY <1>4 DEF Once
<1>6. \A n \in ToSet(first) : n \in 1 .. Stored
  BY <1>3, Elements
<1>7. \A r \in Requests : db[r] \notin Dbs
  BY RequestFacts DEF Init
<1> QED BY <1>1, <1>5, <1>6, <1>7 DEF Logs, Entry

LEMMA LogsStep ==
    ASSUME Types, Logs, [Next]_vars
    PROVE  Logs'
<1> USE DEF Logs, Entry, IsPut
<1>1. CASE UNCHANGED vars
  BY <1>1 DEF vars, logVars
<1>2. ASSUME NEW r \in Requests, Evaluated(r) PROVE Logs'
  <2>1. PICK d \in Dbs : db' = [db EXCEPT ![r] = d]
    BY <1>2 DEF Evaluated
  <2>2. pc[r] = "idle" /\ pc' = [pc EXCEPT ![r] = "put"] /\ log' = log
    BY <1>2 DEF Evaluated
  <2>3. r \notin ToSet(log[d])
    <3>1. ~ Entry(d, r)
      BY <2>2, RequestFacts
    <3> QED BY <3>1
  <2>4. \A q \in Requests : pc'[q] = IF q = r THEN "put" ELSE pc[q]
    BY <2>2 DEF Types
  <2>5. \A q \in Requests : db'[q] = IF q = r THEN d ELSE db[q]
    BY <2>1 DEF Types
  <2>6. \A e \in Dbs : \A n \in ToSet(log'[e]) : Entry(e, n)'
    <3>1. \A e \in Dbs : ~ Entry(e, r)
      BY <2>2, RequestFacts
    <3>2. \A e \in Dbs : \A n \in ToSet(log[e]) : n # r /\ Entry(e, n)
      BY <3>1
    <3> QED BY <2>2, <2>5, <3>2
  <2>7. \A q \in Requests : pc'[q] # "idle" <=> db'[q] \in Dbs
    BY <2>4, <2>5
  <2>8. \A q \in Requests : pc'[q] # "idle" => (q \in ToSet(log'[db'[q]]) <=> IsPut(q)')
    <3> TAKE q \in Requests
    <3>1. CASE q = r
      BY <2>2, <2>3, <2>4, <2>5, <3>1
    <3>2. CASE q # r
      BY <2>2, <2>4, <2>5, <3>2
    <3> QED BY <3>1, <3>2
  <2> QED BY <2>2, <2>6, <2>7, <2>8
<1>3. ASSUME NEW r \in Requests, Put(r) PROVE Logs'
  <2> DEFINE d == db[r]
  <2>1. /\ pc[r] = "put" /\ d \in Dbs /\ db' = db
        /\ pc' = [pc EXCEPT ![r] = "announce"]
        /\ log' = [log EXCEPT ![d] = Append(log[d], r)]
    BY <1>3 DEF Put
  <2>2. log[d] \in Seq(Nat) /\ r \in Nat /\ r \notin ToSet(log[d]) /\ Once(log[d])
    BY <2>1, RequestFacts DEF Types
  <2>3. ToSet(Append(log[d], r)) = ToSet(log[d]) \cup {r} /\ Once(Append(log[d], r))
    BY <2>2, AppendOnce
  <2>4. \A e \in Dbs : log'[e] = IF e = d THEN Append(log[d], r) ELSE log[e]
    BY <2>1 DEF Types
  <2>5. \A e \in Dbs : ToSet(log'[e]) = IF e = d THEN ToSet(log[d]) \cup {r} ELSE ToSet(log[e])
    BY <2>3, <2>4
  <2>6. \A e \in Dbs : Once(log'[e])
    BY <2>3, <2>4
  <2>7. \A q \in Requests : pc'[q] = IF q = r THEN "announce" ELSE pc[q]
    BY <2>1 DEF Types
  <2>8. \A e \in Dbs : \A n \in ToSet(log'[e]) : Entry(e, n)'
    BY <2>1, <2>5
  <2>9. \A q \in Requests : pc'[q] # "idle" => (q \in ToSet(log'[db'[q]]) <=> IsPut(q)')
    BY <2>1, <2>5, <2>7
  <2> QED BY <2>1, <2>6, <2>7, <2>8, <2>9
<1>4. ASSUME NEW r \in Requests, TakeLock(r) \/ Announce(r) \/ Unlock(r) PROVE Logs'
  <2>1. log' = log /\ db' = db
    BY <1>4 DEF TakeLock, Announce, Unlock
  <2>2. \A q \in Requests : (IsPut(q)' <=> IsPut(q)) /\ (pc'[q] # "idle" <=> pc[q] # "idle")
    BY <1>4 DEF TakeLock, Announce, Unlock, Types
  <2> HIDE DEF IsPut
  <2> QED BY <2>1, <2>2
<1>5. ASSUME NEW c \in Tails,
             \/ Open(c) \/ View(c) \/ SendStored(c) \/ Register(c)
             \/ Break(c) \/ Leave(c) \/ UnTail(c)
      PROVE  Logs'
  BY <1>5 DEF Open, View, SendStored, Register, Break, Leave, UnTail, logVars
<1> QED BY <1>1, <1>2, <1>3, <1>4, <1>5 DEF Next

LEMMA LockingStep ==
    ASSUME Types, Logs, Locking, Ends, [Next]_vars
    PROVE  Locking'
<1> USE DEF Locking, Live
<1>1. CASE UNCHANGED vars
  BY <1>1 DEF vars, logVars, tailVars
<1>2. ASSUME NEW r \in Requests, Evaluated(r) PROVE Locking'
  <2>1. PICK d \in Dbs : db' = [db EXCEPT ![r] = d]
    BY <1>2 DEF Evaluated
  <2>2. lock # r
    BY <1>2 DEF Evaluated
  <2>3. lock # Null => db'[lock] = db[lock]
    BY <2>1, <2>2 DEF Types
  <2> QED BY <1>2, <2>2, <2>3 DEF Evaluated, Types, tailVars
<1>3. ASSUME NEW r \in Requests, Put(r) PROVE Locking'
  BY <1>3 DEF Put, Types, tailVars
<1>4. ASSUME NEW r \in Requests, TakeLock(r) PROVE Locking'
  <2>1. db[r] \in Dbs /\ lock = Null /\ pc[r] = "announce"
    BY <1>4 DEF TakeLock, LockIsFree, Logs
  <2>2. lock' = r /\ todo' = logcbs[db[r]] /\ pc' = [pc EXCEPT ![r] = "send"]
    BY <1>4 DEF TakeLock, Channels
  <2>3. \A q \in Requests : pc'[q] = "send" <=> q = r
    BY <2>1, <2>2, RequestFacts DEF Types
  <2> QED BY <1>4, <2>1, <2>2, <2>3 DEF TakeLock, tailVars
<1>5. ASSUME NEW r \in Requests, Announce(r) PROVE Locking'
  <2>1. todo' = Tail(todo) /\ todo # <<>> /\ lock = r /\ r # Null
    BY <1>5, RequestFacts DEF Announce
  <2>2. Once(todo') /\ ToSet(todo') \subseteq ToSet(todo)
    BY <2>1, TailOnce DEF Types
  <2> QED BY <1>5, <2>1, <2>2 DEF Announce, tailVars
<1>6. ASSUME NEW r \in Requests, Unlock(r) PROVE Locking'
  <2>1. lock = r /\ lock' = Null /\ pc' = [pc EXCEPT ![r] = "done"]
    BY <1>6 DEF Unlock, Unlocked
  <2>2. \A q \in Requests : pc'[q] # "send"
    BY <2>1 DEF Types
  <2> QED BY <1>6, <2>1, <2>2, RequestFacts DEF Unlock, tailVars
<1>7. ASSUME NEW c \in Tails, Open(c) PROVE Locking'
  <2>1. handler[c] = "idle" /\ feeder[c] = "idle" /\ feeder' = [feeder EXCEPT ![c] = "start"]
    BY <1>7 DEF Open, Ends
  <2>2. \A d \in Dbs : c \notin ToSet(logcbs[d])
    BY <2>1
  <2>3. \A b \in Tails : b # c => target'[b] = target[b] /\ handler'[b] = handler[b]
    BY <1>7 DEF Open, Types
  <2>4. \A d \in Dbs : \A b \in ToSet(logcbs[d]) : b \in Tails
    BY Elements DEF Types
  <2> QED BY <1>7, <2>1, <2>2, <2>3, <2>4 DEF Open, Types, logVars
<1>8. ASSUME NEW c \in Tails, View(c) \/ SendStored(c) PROVE Locking'
  <2>1. UNCHANGED <<logcbs, lock, todo, pc, db, handler, target, broken>>
    BY <1>8 DEF View, SendStored, logVars
  <2>2. \A b \in Tails : feeder'[b] = "registered" <=> feeder[b] = "registered"
    BY <1>8 DEF View, SendStored, Types
  <2>3. \A d \in Dbs : \A b \in ToSet(logcbs[d]) : b \in Tails
    BY Elements DEF Types
  <2> QED BY <2>1, <2>2, <2>3
<1>9. ASSUME NEW c \in Tails, Register(c) PROVE Locking'
  <2> DEFINE d == target[c]
             s == logcbs[d]
  <2>1. /\ d \in Dbs /\ lock = Null /\ feeder[c] = "view"
        /\ logcbs' = [logcbs EXCEPT ![d] = Append(s, c)]
        /\ feeder' = [feeder EXCEPT ![c] = "registered"]
    BY <1>9 DEF Register, Registered, Ends
  <2>2. s \in Seq(Tails) /\ c \notin ToSet(s) /\ Once(s)
    BY <2>1 DEF Types
  <2>3. ToSet(Append(s, c)) = ToSet(s) \cup {c} /\ Once(Append(s, c))
    BY <2>2, AppendOnce
  <2>4. \A e \in Dbs : logcbs'[e] = IF e = d THEN Append(s, c) ELSE logcbs[e]
    BY <2>1 DEF Types
  <2>5. \A e \in Dbs : ToSet(logcbs'[e]) = IF e = d THEN ToSet(s) \cup {c} ELSE ToSet(logcbs[e])
    BY <2>3, <2>4
  <2>6. \A e \in Dbs : Once(logcbs'[e])
    BY <2>3, <2>4
  <2>7. \A b \in Tails : feeder'[b] = IF b = c THEN "registered" ELSE feeder[b]
    BY <2>1 DEF Types
  <2>8. /\ lock' = lock /\ pc' = pc /\ target' = target /\ handler' = handler
        /\ broken' = broken
    BY <1>9 DEF Register
  <2>9. \A e \in Dbs : \A b \in ToSet(logcbs[e]) : b \in Tails
    BY Elements DEF Types
  <2>10. \A e \in Dbs : \A b \in ToSet(logcbs'[e]) : target'[b] = e /\ feeder'[b] = "registered"
    BY <2>5, <2>7, <2>8, <2>9
  <2>11. \A b \in Tails : Live(b)' /\ feeder'[b] = "registered" => b \in ToSet(logcbs'[target'[b]])
    BY <2>1, <2>5, <2>7, <2>8 DEF Ends
  <2> QED BY <2>1, <2>6, <2>8, <2>10, <2>11
<1>10. ASSUME NEW c \in Tails, Break(c) \/ Leave(c) PROVE Locking'
  <2>1. UNCHANGED <<logcbs, lock, todo, pc, db, feeder, target>>
    BY <1>10 DEF Break, Leave, logVars
  <2>2. \A b \in Tails : Live(b)' => Live(b)
    BY <1>10 DEF Break, Leave, Types
  <2>3. \A b \in Tails : Live(b)' /\ feeder'[b] = "registered" => b \in ToSet(logcbs'[target'[b]])
    BY <2>1, <2>2
  <2> HIDE DEF Live
  <2> QED BY <2>1, <2>3
<1>11. ASSUME NEW c \in Tails, UnTail(c) PROVE Locking'
  <2>1. /\ UNCHANGED <<lock, todo, pc, db, feeder, target, broken>> /\ lock = Null
        /\ handler' = [handler EXCEPT ![c] = "gone"]
        /\ logcbs' = [d \in Dbs |-> Without(logcbs[d], c)]
    BY <1>11 DEF UnTail
  <2>2. \A d \in Dbs :
           /\ ToSet(logcbs[d]) \ {c} \subseteq ToSet(logcbs'[d])
           /\ ToSet(logcbs'[d]) \subseteq ToSet(logcbs[d])
           /\ Once(logcbs'[d])
    <3> TAKE d \in Dbs
    <3>1. logcbs[d] \in Seq(Tails) /\ Once(logcbs[d]) /\ logcbs'[d] = Without(logcbs[d], c)
      BY <2>1 DEF Types
    <3> QED BY <3>1, WithoutOnce
  <2>3. \A b \in Tails : Live(b)' => Live(b) /\ b # c
    BY <2>1 DEF Types
  <2>4. \A b \in Tails : Live(b)' /\ feeder'[b] = "registered" => b \in ToSet(logcbs'[target'[b]])
    BY <2>1, <2>2, <2>3 DEF Ends
  <2> HIDE DEF Live
  <2> QED BY <2>1, <2>2, <2>4
<1> QED BY <1>1, <1>2, <1>3, <1>4, <1>5, <1>6, <1>7, <1>8, <1>9, <1>10, <1>11 DEF Next

LEMMA ShapeStart == Init => Shape
<1> SUFFICES ASSUME Init PROVE Shape
  OBVIOUS
<1>1. Types /\ Logs
  BY TypesStart, LogsStart
<1>2. ToSet(<<>>) = {} /\ Once(<<>>)
  BY DEF ToSet, Once
<1>3. /\ \A d \in Dbs : logcbs[d] = <<>>
      /\ \A r \in Requests : pc[r] = "idle"
      /\ \A c \in Tails : handler[c] = "idle" /\ feeder[c] = "idle"
      /\ lock = Null
  BY DEF Init
<1>4. Locking
  BY <1>2, <1>3, RequestFacts DEF Locking, Live
<1>5. Ends
  BY <1>3 DEF Ends
<1> QED BY <1>1, <1>4, <1>5 DEF Shape

LEMMA ShapeStep == Shape /\ [Next]_vars => Shape'
  BY TypesStep, LogsStep, LockingStep, EndsStep DEF Shape

\* Who holds the lock is the one who sends, and it sends to channels that are
\* registered for its database (db.go:55-89, main.go: the end of doEval).
THEOREM LockAndChannels == Spec => []TypeOK
<1>1. Init => Shape
  BY ShapeStart
<1>2. Shape /\ [Next]_vars => Shape'
  BY ShapeStep
<1>3. Shape => TypeOK
  BY DEF Shape, Types, Locking, Ends, TypeOK
<1> QED BY <1>1, <1>2, <1>3, PTL DEF Spec

-----------------------------------------------------------------------------
(***************************************************************************)
(* The counts                                                              *)
(***************************************************************************)

LEMMA CountsStart == Init => \A c \in Tails : Counts(c)
<1> SUFFICES ASSUME Init, NEW c \in Tails PROVE Counts(c)
  OBVIOUS
<1>1. /\ feeder[c] = "idle" /\ handler[c] = "idle" /\ snap[c] = 0 /\ missed[c] = {}
      /\ got[c] = [n \in 1 .. Stored + NumRequests |-> 0]
  BY DEF Init
<1>2. \A r \in Requests : got[c][r] = 0
  BY <1>1, RequestFacts
<1> QED BY <1>1, <1>2 DEF Counts, Fresh, Live

\* A step that changes nothing of c but where its handler is on its way out.
LEMMA CountsKept ==
    ASSUME NEW c \in Tails, Counts(c),
           feeder'[c] = feeder[c], backlog'[c] = backlog[c], target'[c] = target[c],
           got'[c] = got[c], snap'[c] = snap[c], missed'[c] = missed[c],
           Live(c)' <=> Live(c), UNCHANGED <<log, pc, db>>,
           Live(c) => (c \in ToSet(todo') <=> c \in ToSet(todo))
    PROVE  Counts(c)'
<1>1. Read(c)' = Read(c) /\ Sent(c)' = Sent(c)
  BY DEF Read, Sent
<1>2. \A r \in Requests : Announced(c, r)' <=> Announced(c, r)
  BY DEF Announced
<1>3. Live(c) => \A r \in Requests : Times(c, r)' = Times(c, r)
  BY <1>1 DEF Times
<1>4. Fresh(c)' <=> Fresh(c)
  BY DEF Fresh
<1>5. Viewing(c)' <=> Viewing(c)
  BY <1>1, <1>2 DEF Viewing
<1>6. Live(c) => (Receiving(c)' <=> Receiving(c))
  BY <1>3 DEF Receiving
<1>7. /\ snap'[c] <= Len(log'[target'[c]]) <=> snap[c] <= Len(log[target[c]])
      /\ (\A r \in missed'[c] : Announced(c, r)') <=> \A r \in missed[c] : Announced(c, r)
  BY DEF Announced
<1> QED BY <1>4, <1>5, <1>6, <1>7 DEF Counts

\* What a step of a request leaves alone.
LEMMA CountsOfRequest ==
    ASSUME NEW c \in Tails, Counts(c), Shape, Shape', UNCHANGED <<tailVars, got, snap>>,
           Live(c) => Read(c)' = Read(c) /\ Len(log'[target[c]]) >= Len(log[target[c]]),
           feeder[c] \in {"idle", "start"} \/ ~ Live(c) => missed'[c] = missed[c],
           Live(c) => \A r \in missed'[c] : Announced(c, r)',
           Live(c) /\ feeder[c] = "view" =>
               \A r \in Requests : Announced(c, r)' => r \in Read(c) \cup missed'[c],
           Live(c) /\ feeder[c] = "registered" =>
               \A r \in missed'[c] : pc'[r] = "done",
           Live(c) /\ feeder[c] = "registered" =>
               \A r \in Requests : Times(c, r) \subseteq Times(c, r)'
    PROVE  Counts(c)'
<1>1. Live(c)' <=> Live(c)
  BY DEF Live, tailVars
<1>2. /\ feeder' = feeder /\ backlog' = backlog /\ target' = target
      /\ got' = got /\ snap' = snap
  BY DEF tailVars
<1>3. ASSUME Live(c), feeder[c] \in {"view", "registered"}
      PROVE  snap'[c] <= Len(log'[target'[c]])
  <2>1. target[c] \in Dbs
    BY <1>3 DEF Shape, Ends
  <2>2. /\ Len(log[target[c]]) \in Nat /\ Len(log'[target[c]]) \in Nat
        /\ snap[c] \in Nat /\ snap[c] <= Len(log[target[c]])
    BY <1>3, <2>1 DEF Shape, Types, Counts
  <2> QED BY <1>2, <1>3, <2>2
<1>4. feeder[c] \in {"idle", "start"} => Fresh(c)'
  BY <1>2 DEF Counts, Fresh
<1>5. Live(c) /\ feeder[c] = "view" => Viewing(c)'
  <2> SUFFICES ASSUME Live(c), feeder[c] = "view" PROVE Viewing(c)'
    OBVIOUS
  <2>1. Read(c)' = Read(c) /\ Sent(c)' = Sent(c)
    BY <1>2 DEF Sent
  <2> QED BY <1>2, <2>1 DEF Counts, Viewing
<1>6. Live(c) /\ feeder[c] = "registered" => Receiving(c)'
  BY <1>2 DEF Counts, Receiving
<1> HIDE DEF Live
<1> QED BY <1>1, <1>2, <1>3, <1>4, <1>5, <1>6 DEF Counts

\* The requests whose place none of these tell apart.
LEMMA TimesOfIdle ==
    ASSUME NEW c \in Tails, NEW r \in Requests,
           pc[r] \notin {"send", "done"} \/ db[r] # target[c]
    PROVE  Times(c, r) = {Of(Read(c), r)}
  BY DEF Times

LEMMA CountsOfEvaluated ==
    ASSUME NEW c \in Tails, Counts(c), Shape, Shape', NEW r \in Requests, Evaluated(r)
    PROVE  Counts(c)'
<1>1. PICK d \in Dbs : db' = [db EXCEPT ![r] = d]
  BY DEF Evaluated
<1>2. /\ pc[r] = "idle" /\ pc' = [pc EXCEPT ![r] = "put"]
      /\ UNCHANGED <<log, lock, todo, tailVars, got, snap, missed>>
  BY DEF Evaluated, history
<1>3. \A q \in Requests : q # r => pc'[q] = pc[q] /\ db'[q] = db[q]
  BY <1>1, <1>2 DEF Shape, Types
<1>4. pc'[r] = "put"
  BY <1>2 DEF Shape, Types
<1>5. \A q \in Requests : Announced(c, q)' <=> Announced(c, q)
  BY <1>2, <1>3, <1>4 DEF Announced, tailVars
<1>6. Read(c)' = Read(c)
  BY <1>2 DEF Read, tailVars
<1>7. \A q \in Requests : Times(c, q) \subseteq Times(c, q)'
  BY <1>2, <1>3, <1>4, <1>6 DEF Times, tailVars
<1>8. target[c] \in Dbs => Len(log'[target[c]]) >= Len(log[target[c]])
  BY <1>2 DEF Shape, Types
<1>9. missed'[c] = missed[c] /\ missed[c] \subseteq Requests
  BY <1>2 DEF Shape, Types
<1>10. Live(c) => target[c] \in Dbs
  BY DEF Live, Shape, Ends
<1>11. Live(c) => \A q \in missed'[c] : Announced(c, q)'
  BY <1>5, <1>9 DEF Counts, Fresh, Shape, Types
<1>12. Live(c) /\ feeder[c] = "view" =>
          \A q \in Requests : Announced(c, q)' => q \in Read(c) \cup missed'[c]
  BY <1>5, <1>9 DEF Counts, Viewing
<1>13. Live(c) /\ feeder[c] = "registered" => \A q \in missed'[c] : pc'[q] = "done"
  BY <1>2, <1>3, <1>9 DEF Counts, Receiving
<1> QED BY <1>2, <1>6, <1>7, <1>8, <1>9, <1>10, <1>11, <1>12, <1>13, CountsOfRequest

LEMMA CountsOfPut ==
    ASSUME NEW c \in Tails, Counts(c), Shape, Shape', NEW r \in Requests, Put(r)
    PROVE  Counts(c)'
<1> DEFINE d == db[r]
<1>1. /\ pc[r] = "put" /\ pc' = [pc EXCEPT ![r] = "announce"]
      /\ log' = [log EXCEPT ![d] = Append(log[d], r)]
      /\ UNCHANGED <<lock, todo, db, tailVars, got, snap, missed>>
  BY DEF Put, history
<1>2. \A q \in Requests : q # r => pc'[q] = pc[q]
  BY <1>1 DEF Shape, Types
<1>3. pc'[r] = "announce"
  BY <1>1 DEF Shape, Types
<1>4. \A q \in Requests : Announced(c, q)' <=> Announced(c, q)
  BY <1>1, <1>2, <1>3 DEF Announced, tailVars
<1>5. d \in Dbs /\ log[d] \in Seq(Nat) /\ r \in Nat
  BY <1>1, RequestFacts DEF Shape, Types, Logs
<1>6. Live(c) => target[c] \in Dbs
  BY DEF Live, Shape, Ends
<1>7. ASSUME Live(c)
      PROVE  /\ Len(log'[target[c]]) >= Len(log[target[c]])
             /\ Len(log[target[c]]) \in Nat
             /\ \A i \in 1 .. Len(log[target[c]]) : log'[target[c]][i] = log[target[c]][i]
  <2>1. target[c] \in Dbs /\ log[target[c]] \in Seq(Nat)
    BY <1>6, <1>7 DEF Shape, Types
  <2>2. CASE target[c] = d
    <3>1. log'[d] = Append(log[d], r)
      BY <1>1, <1>5 DEF Shape, Types
    <3> QED BY <1>5, <2>2, <3>1
  <2>3. CASE target[c] # d
    <3>1. log'[target[c]] = log[target[c]]
      BY <1>1, <2>1, <2>3 DEF Shape, Types
    <3> QED BY <2>1, <3>1
  <2> QED BY <2>2, <2>3
<1>8. ASSUME Live(c) PROVE Read(c)' = Read(c)
  <2>1. snap[c] \in Nat /\ snap[c] <= Len(log[target[c]])
    BY <1>7, <1>8 DEF Live, Counts, Fresh, Shape, Types
  <2>2. \A i \in 1 .. snap[c] : log'[target[c]][i] = log[target[c]][i]
    BY <1>7, <1>8, <2>1
  <2> QED BY <1>1, <2>2 DEF Read, tailVars
<1>9. Live(c) => \A q \in Requests : Times(c, q) \subseteq Times(c, q)'
  BY <1>1, <1>2, <1>3, <1>8 DEF Times, tailVars
<1>10. missed'[c] = missed[c] /\ missed[c] \subseteq Requests
  BY <1>1 DEF Shape, Types
<1>11. Live(c) => \A q \in missed'[c] : Announced(c, q)'
  BY <1>4, <1>10 DEF Counts, Fresh, Shape, Types
<1>12. Live(c) /\ feeder[c] = "view" =>
          \A q \in Requests : Announced(c, q)' => q \in Read(c) \cup missed'[c]
  BY <1>4, <1>10 DEF Counts, Viewing
<1>13. Live(c) /\ feeder[c] = "registered" => \A q \in missed'[c] : pc'[q] = "done"
  BY <1>1, <1>2, <1>10 DEF Counts, Receiving
<1> QED BY <1>1, <1>7, <1>8, <1>9, <1>10, <1>11, <1>12, <1>13, CountsOfRequest

\* A channel that is registered is among those the lock is taken for; a tail
\* that is not registered yet has missed the announcement.
LEMMA CountsOfTakeLock ==
    ASSUME NEW c \in Tails, Counts(c), Shape, Shape', NEW r \in Requests, TakeLock(r)
    PROVE  Counts(c)'
<1>1. /\ pc[r] = "announce" /\ pc' = [pc EXCEPT ![r] = "send"] /\ lock = Null
      /\ todo' = logcbs[db[r]]
      /\ UNCHANGED <<log, logcbs, db, tailVars, got, snap>>
  BY DEF TakeLock, LockIsFree, Channels
<1>2. missed'[c] = IF Live(c) /\ feeder[c] = "view" /\ target[c] = db[r]
                   THEN missed[c] \cup {r} ELSE missed[c]
  BY DEF TakeLock
<1>3. \A q \in Requests : q # r => pc'[q] = pc[q] /\ pc[q] # "send"
  BY <1>1, RequestFacts DEF Shape, Types, Locking
<1>4. pc'[r] = "send"
  BY <1>1 DEF Shape, Types
<1>5. \A q \in Requests : q # r => (Announced(c, q)' <=> Announced(c, q))
  BY <1>1, <1>3 DEF Announced, tailVars
<1>6. Announced(c, r)' <=> db[r] = target[c]
  BY <1>1, <1>4 DEF Announced, tailVars
<1>7. Read(c)' = Read(c)
  BY <1>1 DEF Read, tailVars
<1>8. Live(c) => target[c] \in Dbs
  BY DEF Live, Shape, Ends
<1>9. Live(c) => Len(log'[target[c]]) >= Len(log[target[c]])
  BY <1>1, <1>8 DEF Shape, Types
<1>10. missed[c] \subseteq Requests /\ (Live(c) => \A q \in missed[c] : Announced(c, q))
  BY DEF Counts, Fresh, Shape, Types
<1>11. Live(c) => \A q \in missed'[c] : Announced(c, q)'
  <2>1. ~ Announced(c, r)
    BY <1>1 DEF Announced
  <2> QED BY <1>2, <1>5, <1>6, <1>10, <2>1
<1>12. Live(c) /\ feeder[c] = "view" =>
          \A q \in Requests : Announced(c, q)' => q \in Read(c) \cup missed'[c]
  BY <1>2, <1>5, <1>6 DEF Counts, Viewing
<1>13. ASSUME Live(c), feeder[c] = "registered"
       PROVE  /\ \A q \in missed'[c] : pc'[q] = "done"
              /\ \A q \in Requests : Times(c, q) \subseteq Times(c, q)'
  <2>1. missed'[c] = missed[c] /\ \A q \in missed[c] : pc[q] = "done"
    BY <1>2, <1>13 DEF Counts, Receiving
  <2>2. \A q \in missed'[c] : pc'[q] = "done"
    BY <1>1, <1>3, <1>10, <2>1
  <2>3. \A q \in Requests : q # r => Times(c, q) \subseteq Times(c, q)'
    BY <1>1, <1>3, <1>7, <2>1 DEF Times, tailVars
  <2>4. Times(c, r) = {Of(Read(c), r)}
    BY <1>1, TimesOfIdle
  <2>5. db[r] = target[c] => c \in ToSet(todo')
    BY <1>1, <1>13 DEF Shape, Locking
  <2>6. Times(c, r)' = {Of(Read(c), r)}
    BY <1>1, <1>4, <1>7, <2>5 DEF Times, tailVars
  <2> QED BY <2>2, <2>3, <2>4, <2>6
<1> QED BY <1>1, <1>2, <1>7, <1>9, <1>11, <1>12, <1>13, CountsOfRequest

\* The announcement is over.
LEMMA CountsOfUnlock ==
    ASSUME NEW c \in Tails, Counts(c), Shape, Shape', NEW r \in Requests, Unlock(r)
    PROVE  Counts(c)'
<1>1. /\ pc[r] = "send" /\ pc' = [pc EXCEPT ![r] = "done"] /\ todo = <<>> /\ lock = r
      /\ UNCHANGED <<log, todo, db, tailVars, got, snap, missed>>
  BY DEF Unlock, history, Shape, Locking
<1>2. \A q \in Requests : q # r => pc'[q] = pc[q] /\ pc[q] # "send"
  BY <1>1 DEF Shape, Types, Locking
<1>3. pc'[r] = "done"
  BY <1>1 DEF Shape, Types
<1>4. \A q \in Requests : Announced(c, q)' <=> Announced(c, q)
  BY <1>1, <1>2, <1>3 DEF Announced, tailVars
<1>5. Read(c)' = Read(c)
  BY <1>1 DEF Read, tailVars
<1>6. Live(c) => target[c] \in Dbs
  BY DEF Live, Shape, Ends
<1>7. Live(c) => Len(log'[target[c]]) >= Len(log[target[c]])
  BY <1>1, <1>6 DEF Shape, Types
<1>8. missed'[c] = missed[c] /\ missed[c] \subseteq Requests
  BY <1>1 DEF Shape, Types
<1>9. Live(c) => \A q \in missed'[c] : Announced(c, q)'
  BY <1>4, <1>8 DEF Counts, Fresh, Shape, Types
<1>10. Live(c) /\ feeder[c] = "view" =>
          \A q \in Requests : Announced(c, q)' => q \in Read(c) \cup missed'[c]
  BY <1>4, <1>8 DEF Counts, Viewing
<1>11. ASSUME Live(c), feeder[c] = "registered"
       PROVE  /\ \A q \in missed'[c] : pc'[q] = "done"
              /\ \A q \in Requests : Times(c, q) \subseteq Times(c, q)'
  <2>1. \A q \in missed[c] : pc[q] = "done"
    BY <1>11 DEF Counts, Receiving
  <2>2. \A q \in missed'[c] : pc'[q] = "done"
    BY <1>1, <1>2, <1>8, <2>1
  <2>3. \A q \in Requests : q # r => Times(c, q) \subseteq Times(c, q)'
    BY <1>1, <1>2, <1>5, <1>8 DEF Times, tailVars
  <2>4. c \notin ToSet(todo)
    BY <1>1 DEF ToSet
  <2>5. Times(c, r) = IF db[r] = target[c] THEN {Of(Read(c), r) + 1} ELSE {Of(Read(c), r)}
    BY <1>1, <2>4 DEF Times
  <2>6. r \notin missed'[c]
    BY <1>1, <1>8, <2>1
  <2>7. Times(c, r)' = IF db[r] = target[c] THEN {1, Of(Read(c), r) + 1} ELSE {Of(Read(c), r)}
    BY <1>1, <1>3, <1>5, <2>6 DEF Times, tailVars
  <2> QED BY <2>2, <2>3, <2>5, <2>7
<1> QED BY <1>1, <1>5, <1>7, <1>8, <1>9, <1>10, <1>11, CountsOfRequest

\* What has been delivered to b is one more than before.
LEMMA Delivered ==
    ASSUME Types, NEW b \in Tails, NEW n \in 1 .. Stored + NumRequests, Deliver(b, n)
    PROVE  /\ \A c \in Tails : c # b \/ c \in broken => got'[c] = got[c]
           /\ b \notin broken => /\ got'[b][n] = got[b][n] + 1
                                 /\ \A r \in Requests : r # n => got'[b][r] = got[b][r]
<1> DEFINE D == 1 .. Stored + NumRequests
           f == got[b]
           g == [f EXCEPT ![n] = @ + 1]
<1>1. got' = IF b \in broken THEN got ELSE [got EXCEPT ![b] = g]
  BY DEF Deliver
<1>2. f \in [D -> Nat] /\ got \in [Tails -> [D -> Nat]] /\ n \in D /\ Requests \subseteq D
  BY RequestFacts DEF Types
<1> HIDE DEF D, f
<1>3. g[n] = f[n] + 1 /\ \A r \in D : r # n => g[r] = f[r]
  BY <1>2
<1> HIDE DEF g
<1>4. b \notin broken => got'[b] = g /\ \A c \in Tails : c # b => got'[c] = got[c]
  BY <1>1, <1>2
<1> QED BY <1>1, <1>2, <1>3, <1>4 DEF f

LEMMA CountsOfAnnounce ==
    ASSUME NEW c \in Tails, Counts(c), Shape, Shape', NEW r \in Requests, Announce(r)
    PROVE  Counts(c)'
<1> DEFINE b == Head(todo)
<1>1. /\ pc[r] = "send" /\ lock = r /\ todo # <<>> /\ todo' = Tail(todo)
      /\ Deliver(b, r)
      /\ UNCHANGED <<log, lock, pc, db, tailVars, snap, missed>>
  BY DEF Announce, Shape, Locking
<1>2. /\ b \in Tails /\ ToSet(todo) = ToSet(todo') \cup {b} /\ b \notin ToSet(todo')
      /\ b \in ToSet(logcbs[db[r]])
  <2>1. /\ todo \in Seq(Tails) /\ Once(todo) /\ ToSet(todo) \subseteq ToSet(logcbs[db[r]])
    BY <1>1, RequestFacts DEF Shape, Types, Locking
  <2> QED BY <1>1, <2>1, TailOnce
<1>3. target[b] = db[r] /\ feeder[b] = "registered"
  BY <1>1, <1>2 DEF Shape, Locking, Logs
<1> HIDE DEF b
<1>4. r \in 1 .. Stored + NumRequests
  BY RequestFacts
<1>5. Live(c)' <=> Live(c)
  BY <1>1 DEF Live, tailVars
<1>6. CASE c # b \/ c \in broken
  <2>1. got'[c] = got[c]
    BY <1>1, <1>2, <1>4, <1>6, Delivered DEF Shape
  <2>2. Live(c) => (c \in ToSet(todo') <=> c \in ToSet(todo))
    BY <1>2, <1>6 DEF Live
  <2> QED BY <1>1, <1>5, <2>1, <2>2, CountsKept DEF tailVars
<1>7. CASE c = b /\ c \notin broken
  <2>1. Live(c) /\ feeder[c] = "registered"
    BY <1>1, <1>3, <1>7 DEF Deliver, Live
  <2>2. Receiving(c)
    BY <2>1 DEF Counts
  <2>3. /\ got'[c][r] = got[c][r] + 1
        /\ \A q \in Requests : q # r => got'[c][q] = got[c][q]
    BY <1>1, <1>2, <1>4, <1>7, Delivered DEF Shape
  <2>4. Read(c)' = Read(c)
    BY <1>1 DEF Read, tailVars
  <2>5. Times(c, r) = {Of(Read(c), r)}
    BY <1>1, <1>2, <1>7 DEF Times
  <2>6. Times(c, r)' = {Of(Read(c), r) + 1}
    BY <1>1, <1>2, <1>3, <1>7, <2>4 DEF Times, tailVars
  <2>7. \A q \in Requests : q # r => Times(c, q)' = Times(c, q)
    <3>1. \A q \in Requests : q # r => pc[q] # "send"
      BY <1>1 DEF Shape, Locking
    <3> QED BY <1>1, <2>4, <3>1 DEF Times, tailVars
  <2>8. Receiving(c)'
    <3>1. got'[c][r] \in Times(c, r)'
      BY <2>2, <2>3, <2>5, <2>6 DEF Receiving
    <3>2. \A q \in Requests : q # r => got'[c][q] \in Times(c, q)'
      BY <2>2, <2>3, <2>7 DEF Receiving
    <3>3. \A q \in missed'[c] : pc'[q] = "done"
      BY <1>1, <2>2 DEF Receiving
    <3> QED BY <3>1, <3>2, <3>3 DEF Receiving
  <2>9. snap'[c] <= Len(log'[target'[c]]) /\ \A q \in missed'[c] : Announced(c, q)'
    BY <1>1, <2>1 DEF Counts, Announced, tailVars
  <2>10. feeder'[c] = "registered"
    BY <1>1, <2>1 DEF tailVars
  <2> QED BY <1>5, <2>1, <2>8, <2>9, <2>10 DEF Counts
<1> QED BY <1>6, <1>7

\* A step of another tail.
LEMMA CountsOfOther ==
    ASSUME NEW c \in Tails, Counts(c), Shape, Shape', NEW b \in Tails, b # c,
           \/ Open(b) \/ View(b) \/ SendStored(b) \/ Register(b)
           \/ Break(b) \/ Leave(b) \/ UnTail(b)
    PROVE  Counts(c)'
<1> USE DEF Shape, Types
<1>1. UNCHANGED <<log, pc, db, todo>>
  BY DEF Open, View, SendStored, Register, Break, Leave, UnTail, logVars
<1>2. /\ feeder'[c] = feeder[c] /\ backlog'[c] = backlog[c] /\ target'[c] = target[c]
      /\ snap'[c] = snap[c] /\ missed'[c] = missed[c]
  <2>1. CASE Open(b) \/ View(b)
    BY <2>1 DEF Open, View, history
  <2>2. CASE SendStored(b) \/ Register(b)
    BY <2>2 DEF SendStored, Register, history
  <2>3. CASE Break(b) \/ Leave(b) \/ UnTail(b)
    BY <2>3 DEF Break, Leave, UnTail, history
  <2> QED BY <2>1, <2>2, <2>3
<1>3. handler'[c] = handler[c]
  BY DEF Open, View, SendStored, Register, Break, Leave, UnTail
<1>4. c \in broken' <=> c \in broken
  <2>1. broken' = broken \/ broken' = broken \cup {b}
    BY DEF Open, View, SendStored, Register, Break, Leave, UnTail
  <2> QED BY <2>1
<1>5. got'[c] = got[c]
  <2>1. CASE SendStored(b)
    BY <2>1 DEF SendStored, Deliver
  <2>2. CASE Open(b) \/ View(b) \/ Register(b)
    BY <2>2 DEF Open, View, Register, history
  <2>3. CASE Break(b) \/ Leave(b) \/ UnTail(b)
    BY <2>3 DEF Break, Leave, UnTail, history
  <2> QED BY <2>1, <2>2, <2>3
<1>6. Live(c)' <=> Live(c)
  BY <1>3, <1>4 DEF Live
<1> QED BY <1>1, <1>2, <1>5, <1>6, CountsKept

LEMMA CountsOfOpen ==
    ASSUME NEW c \in Tails, Counts(c), Shape, Shape', Open(c)
    PROVE  Counts(c)'
<1>1. /\ feeder'[c] = "start" /\ handler'[c] = "select" /\ feeder[c] = "idle"
      /\ UNCHANGED <<got, snap, missed>>
  BY DEF Open, history, Shape, Types, Ends
<1>2. Fresh(c)'
  BY <1>1 DEF Counts, Fresh
<1> QED BY <1>1, <1>2 DEF Counts, Fresh

\* The read transaction finds everything that has been put.
LEMMA CountsOfView ==
    ASSUME NEW c \in Tails, Counts(c), Shape, Shape', View(c)
    PROVE  Counts(c)'
<1> DEFINE d == target[c]
           l == log[d]
           w == Walk(d)
<1>1. /\ feeder[c] = "start" /\ feeder'[c] = "view" /\ backlog'[c] = w
      /\ snap'[c] = IF Live(c) THEN Len(l) ELSE 0
      /\ UNCHANGED <<logVars, handler, target, broken, got, missed>>
  BY DEF View, Shape, Types
<1>2. d \in Dbs /\ l \in Seq(Nat) /\ Once(l)
  BY <1>1 DEF Shape, Types, Ends, Logs
<1>3. w \in Seq(Nat) /\ ToSet(w) = ToSet(l) /\ Once(w)
  BY <1>2, WalkFindsAll
<1>4. Fresh(c)
  BY <1>1 DEF Counts
<1>5. Live(c)' <=> Live(c)
  BY <1>1 DEF Live
<1>6. ASSUME Live(c) PROVE Read(c)' = ToSet(l)
  <2>1. Read(c)' = {l[i] : i \in 1 .. Len(l)}
    BY <1>1, <1>6 DEF Read, logVars
  <2>2. DOMAIN l = 1 .. Len(l)
    BY <1>2
  <2> HIDE DEF l
  <2> QED BY <2>1, <2>2 DEF ToSet
<1>7. ASSUME Live(c) PROVE Viewing(c)'
  <2>1. Sent(c)' = {}
    BY <1>1, <1>3, <1>6, <1>7 DEF Sent
  <2>2. \A r \in Requests : got'[c][r] = 0
    BY <1>1, <1>4 DEF Fresh
  <2>3. ASSUME NEW r \in Requests, Announced(c, r)' PROVE r \in Read(c)'
    <3>1. pc[r] \in {"send", "done"} /\ db[r] = d
      BY <1>1, <2>3 DEF Announced, logVars
    <3> QED BY <1>6, <1>7, <3>1 DEF Shape, Logs, IsPut
  <2>4. \A r \in Requests : got'[c][r] = Of(Sent(c)', r)
    BY <2>1, <2>2 DEF Of
  <2>5. Once(backlog'[c]) /\ ToSet(backlog'[c]) \subseteq Read(c)'
    BY <1>1, <1>3, <1>6, <1>7
  <2> QED BY <2>3, <2>4, <2>5 DEF Viewing
<1>8. ASSUME Live(c) PROVE snap'[c] <= Len(log'[target'[c]]) /\ missed'[c] = {}
  <2>1. Len(l) \in Nat
    BY <1>2
  <2> QED BY <1>1, <1>4, <1>8, <2>1 DEF Fresh, logVars
<1>9. \A r \in Requests : got'[c][r] = 0
  BY <1>1, <1>4 DEF Fresh
<1> QED BY <1>1, <1>5, <1>7, <1>8, <1>9 DEF Counts

LEMMA CountsOfSendStored ==
    ASSUME NEW c \in Tails, Counts(c), Shape, Shape', SendStored(c)
    PROVE  Counts(c)'
<1> DEFINE b == backlog[c]
           n == Head(b)
<1>1. /\ feeder[c] = "view" /\ b # <<>> /\ Deliver(c, n)
      /\ backlog'[c] = Tail(b)
      /\ UNCHANGED <<logVars, feeder, handler, target, broken, snap, missed>>
  BY DEF SendStored, Shape, Types
<1>2. Live(c)' <=> Live(c)
  BY <1>1 DEF Live
<1>3. Read(c)' = Read(c)
  BY <1>1 DEF Read, logVars
<1>4. CASE c \in broken
  <2>1. got' = got
    BY <1>1, <1>4 DEF Deliver
  <2>2. ~ Live(c)
    BY <1>4 DEF Live
  <2> QED BY <1>1, <1>2, <2>1, <2>2 DEF Counts
<1>5. CASE c \notin broken
  <2>1. Live(c)
    BY <1>1, <1>5 DEF Deliver, Live
  <2>2. /\ Viewing(c) /\ snap[c] <= Len(log[target[c]])
        /\ \A r \in missed[c] : Announced(c, r)
    BY <1>1, <2>1 DEF Counts
  <2>3. /\ b \in Seq(Nat) /\ Once(b) /\ ToSet(b) \subseteq Read(c)
    BY <2>2 DEF Shape, Types, Viewing
  <2>4. /\ n \in ToSet(b) /\ ToSet(b) = ToSet(Tail(b)) \cup {n}
        /\ Once(Tail(b)) /\ n \notin ToSet(Tail(b))
    BY <1>1, <2>3, TailOnce
  <2>5. n \in 1 .. Stored + NumRequests
    <3>1. target[c] \in Dbs /\ log[target[c]] \in Seq(Nat) /\ snap[c] \in Nat
      BY <1>1 DEF Shape, Types, Ends
    <3> DEFINE l == log[target[c]]
    <3>2. n \in Read(c)
      BY <2>3, <2>4
    <3>3. PICK i \in 1 .. snap[c] : n = l[i]
      BY <3>2 DEF Read
    <3> HIDE DEF l, n
    <3>4. l \in Seq(Nat) /\ i \in 1 .. Len(l)
      BY <2>2, <3>1 DEF l
    <3>5. n \in ToSet(l)
      BY <3>3, <3>4, Elements
    <3>6. Entry(target[c], n)
      BY <3>1, <3>5 DEF Shape, Logs, l
    <3> QED BY <3>6, RequestFacts DEF Entry
  <2> HIDE DEF n, b
  <2>6. /\ got'[c][n] = got[c][n] + 1
        /\ \A r \in Requests : r # n => got'[c][r] = got[c][r]
    BY <1>1, <1>5, <2>5, Delivered DEF Shape
  <2>7. n \notin Sent(c) /\ Sent(c)' = Sent(c) \cup {n}
    BY <1>1, <1>3, <2>3, <2>4 DEF Sent, b
  <2>8. \A r \in Requests : got'[c][r] = Of(Sent(c)', r)
    BY <2>2, <2>6, <2>7 DEF Viewing, Of
  <2>9. \A r \in Requests : Announced(c, r)' <=> Announced(c, r)
    BY <1>1 DEF Announced, logVars
  <2>10. Viewing(c)'
    BY <1>1, <1>3, <2>2, <2>3, <2>4, <2>8, <2>9 DEF Viewing
  <2>11. snap'[c] <= Len(log'[target'[c]]) /\ \A r \in missed'[c] : Announced(c, r)'
    BY <1>1, <2>2 DEF Announced, logVars
  <2>12. feeder'[c] = "view"
    BY <1>1
  <2> QED BY <1>2, <2>1, <2>10, <2>11, <2>12 DEF Counts
<1> QED BY <1>4, <1>5

\* Nobody holds the lock, so that an announcement is over or has not begun.
LEMMA CountsOfRegister ==
    ASSUME NEW c \in Tails, Counts(c), Shape, Shape', Register(c)
    PROVE  Counts(c)'
<1>1. /\ feeder[c] = "view" /\ backlog[c] = <<>> /\ lock = Null
      /\ feeder'[c] = "registered"
      /\ UNCHANGED <<log, lock, todo, pc, db, backlog, handler, target, broken, history>>
  BY DEF Register, Shape, Types
<1>2. \A r \in Requests : pc[r] # "send"
  BY <1>1, RequestFacts DEF Shape, Locking
<1>3. Live(c)' <=> Live(c)
  BY <1>1 DEF Live
<1>4. ASSUME Live(c) PROVE Receiving(c)'
  <2>1. Viewing(c) /\ missed[c] \subseteq Requests /\ \A r \in missed[c] : Announced(c, r)
    BY <1>1, <1>4 DEF Counts, Shape, Types
  <2>2. Sent(c) = Read(c)
    BY <1>1 DEF Sent, ToSet
  <2>3. Read(c)' = Read(c)
    BY <1>1 DEF Read, history
  <2>4. \A r \in missed'[c] : pc'[r] = "done"
    BY <1>1, <1>2, <2>1 DEF Announced, history
  <2>5. ASSUME NEW r \in Requests PROVE got'[c][r] \in Times(c, r)'
    <3>1. got'[c][r] = Of(Read(c), r)
      BY <1>1, <2>1, <2>2 DEF Viewing, history
    <3>2. CASE pc[r] = "done" /\ db[r] = target[c] /\ r \notin missed[c]
      <4>1. r \in Read(c)
        BY <2>1, <3>2 DEF Viewing, Announced
      <4>2. Times(c, r)' = {1, Of(Read(c), r) + 1}
        BY <1>1, <2>3, <3>2 DEF Times, history
      <4> QED BY <3>1, <4>1, <4>2 DEF Of
    <3>3. CASE ~ (pc[r] = "done" /\ db[r] = target[c] /\ r \notin missed[c])
      <4>1. Times(c, r)' = {Of(Read(c), r)}
        BY <1>1, <1>2, <2>3, <3>3 DEF Times, history
      <4> QED BY <3>1, <4>1
    <3> QED BY <3>2, <3>3
  <2> QED BY <2>4, <2>5 DEF Receiving
<1>5. Live(c) => snap'[c] <= Len(log'[target'[c]]) /\ \A r \in missed'[c] : Announced(c, r)'
  BY <1>1 DEF Counts, Announced, history
<1>6. ~ Live(c) => \A r \in Requests : got'[c][r] = 0
  BY <1>1 DEF Counts, history
<1> QED BY <1>1, <1>3, <1>4, <1>5, <1>6 DEF Counts

LEMMA CountsOfBreak ==
    ASSUME NEW c \in Tails, Counts(c), Shape, Shape', Break(c)
    PROVE  Counts(c)'
<1>1. /\ c \in broken' /\ snap'[c] = 0 /\ missed'[c] = {}
      /\ got'[c] = [n \in DOMAIN got[c] |-> 0]
  BY DEF Break, Shape, Types
<1>2. \A r \in Requests : got'[c][r] = 0
  <2>1. DOMAIN got[c] = 1 .. Stored + NumRequests
    BY DEF Shape, Types
  <2> QED BY <1>1, <2>1, RequestFacts
<1>3. Fresh(c)' /\ ~ Live(c)'
  BY <1>1, <1>2 DEF Fresh, Live
<1> QED BY <1>2, <1>3 DEF Counts

LEMMA CountsOfLeaving ==
    ASSUME NEW c \in Tails, Counts(c), Shape, Shape', Leave(c) \/ UnTail(c)
    PROVE  Counts(c)'
<1>1. ~ Live(c) /\ ~ Live(c)'
  BY DEF Leave, UnTail, Live, Shape, Types, Ends
<1>2. UNCHANGED <<log, pc, db, todo, feeder, backlog, target, got, snap, missed>>
  BY DEF Leave, UnTail, logVars, history
<1> QED BY <1>1, <1>2, CountsKept

LEMMA CountsStep ==
    ASSUME NEW c \in Tails, Counts(c), Shape, Shape', [Next]_vars
    PROVE  Counts(c)'
<1>1. CASE UNCHANGED vars
  BY <1>1, CountsKept DEF vars, logVars, tailVars, history, Live
<1>2. ASSUME NEW r \in Requests,
             Evaluated(r) \/ Put(r) \/ TakeLock(r) \/ Announce(r) \/ Unlock(r)
      PROVE  Counts(c)'
  BY <1>2, CountsOfEvaluated, CountsOfPut, CountsOfTakeLock, CountsOfAnnounce, CountsOfUnlock
<1>3. ASSUME NEW b \in Tails,
             \/ Open(b) \/ View(b) \/ SendStored(b) \/ Register(b)
             \/ Break(b) \/ Leave(b) \/ UnTail(b)
      PROVE  Counts(c)'
  <2>1. CASE b # c
    BY <1>3, <2>1, CountsOfOther
  <2>2. CASE b = c
    BY <1>3, <2>2, CountsOfOpen, CountsOfView, CountsOfSendStored, CountsOfRegister,
       CountsOfBreak, CountsOfLeaving
  <2> QED BY <2>1, <2>2
<1> QED BY <1>1, <1>2, <1>3 DEF Next

LEMMA LogInvariant == Spec => []LogInv
<1>1. Init => LogInv
  BY ShapeStart, CountsStart DEF LogInv
<1>2. LogInv /\ [Next]_vars => LogInv'
  BY ShapeStep, CountsStep DEF LogInv
<1> QED BY <1>1, <1>2, PTL DEF Spec

\* Where r is in its log.
LEMMA PositionIs ==
    ASSUME Shape, NEW r \in Requests, IsPut(r)
    PROVE  /\ Position(r) \in 1 .. Len(log[db[r]]) /\ log[db[r]][Position(r)] = r
           /\ \A i \in 1 .. Len(log[db[r]]) : log[db[r]][i] = r => i = Position(r)
<1> DEFINE l == log[db[r]]
           I == {i \in 1 .. Len(l) : l[i] = r}
<1>1. l \in Seq(Nat) /\ Once(l) /\ r \in ToSet(l)
  BY DEF Shape, Types, Logs, IsPut
<1>2. Position(r) = IF I # {} THEN Min(I) ELSE 0
  BY DEF Position, SelectInSeq
<1> HIDE DEF l
<1>3. PICK k \in 1 .. Len(l) : l[k] = r
  BY <1>1, Elements
<1>4. \A i \in 1 .. Len(l) : l[i] = r => i = k
  BY <1>1, <1>3 DEF Once
<1>5. I = {k}
  BY <1>3, <1>4
<1>6. Len(l) \in Nat /\ k \in Nat
  BY <1>1
<1>7. Min(I) = k
  BY <1>5, <1>6 DEF Min
<1>8. Position(r) = k
  BY <1>2, <1>5, <1>7
<1> QED BY <1>3, <1>4, <1>8 DEF l

\* A tail that is registered has everything that was logged, but for what was
\* put after tailDB had read the log and announced before it registered.
THEOREM LossIsInTheWindow == Spec => []LostOnlyInWindow
<1>1. LogInv => LostOnlyInWindow
  <2> SUFFICES ASSUME LogInv, NEW c \in Tails, NEW r \in Requests,
                      Live(c), feeder[c] = "registered",
                      Logged(r), db[r] = target[c], got[c][r] = 0
               PROVE  r \in missed[c] /\ Position(r) > snap[c]
    BY DEF LostOnlyInWindow
  <2>1. Receiving(c) /\ snap[c] <= Len(log[target[c]])
    BY DEF LogInv, Counts
  <2>2. 0 \in Times(c, r)
    BY <2>1 DEF Receiving
  <2>3. r \in missed[c] /\ r \notin Read(c)
    BY <2>2 DEF Times, Of, Logged
  <2>4. IsPut(r)
    BY DEF Logged, IsPut
  <2> DEFINE p == Position(r)
             l == log[target[c]]
  <2>5. p \in 1 .. Len(l) /\ l[p] = r
    BY <2>4, PositionIs DEF LogInv
  <2>6. snap[c] \in Nat /\ p \in Nat
    BY <2>5 DEF LogInv, Shape, Types
  <2>7. p \notin 1 .. snap[c]
    BY <2>3, <2>5 DEF Read
  <2> HIDE DEF p
  <2>8. p > snap[c]
    BY <2>5, <2>6, <2>7
  <2> QED BY <2>3, <2>8 DEF p
<1> QED BY <1>1, LogInvariant, PTL

\* A tail is sent a transaction twice at most, and only one that was in the log
\* tailDB read and was announced after it had registered.
THEOREM SecondIsARace == Spec => []TwiceOnlyIfRacing
<1>1. LogInv => TwiceOnlyIfRacing
  <2> SUFFICES ASSUME LogInv, NEW c \in Tails, NEW r \in Requests
               PROVE  /\ got[c][r] > 0 => db[r] = target[c]
                      /\ got[c][r] > 1 => /\ got[c][r] = 2 /\ r \notin missed[c]
                                          /\ Position(r) <= snap[c]
    BY DEF TwiceOnlyIfRacing
  <2>1. Counts(c) /\ Shape
    BY DEF LogInv
  <2>2. CASE got[c][r] = 0
    BY <2>2
  <2>3. CASE got[c][r] # 0
    <3>1. Live(c) /\ feeder[c] \in {"view", "registered"}
      BY <2>1, <2>3 DEF Counts, Fresh, Shape, Types
    <3>2. /\ target[c] \in Dbs /\ log[target[c]] \in Seq(Nat)
          /\ snap[c] \in Nat /\ snap[c] <= Len(log[target[c]])
      BY <2>1, <3>1 DEF Counts, Shape, Types, Ends
    <3> DEFINE l == log[target[c]]
    <3>3. r \in Read(c) => /\ db[r] = target[c] /\ IsPut(r)
                           /\ \E i \in 1 .. Len(l) : i <= snap[c] /\ l[i] = r
      <4> SUFFICES ASSUME r \in Read(c)
                   PROVE  /\ db[r] = target[c] /\ IsPut(r)
                          /\ \E i \in 1 .. Len(l) : i <= snap[c] /\ l[i] = r
        OBVIOUS
      <4>1. PICK i \in 1 .. snap[c] : l[i] = r
        BY DEF Read
      <4> HIDE DEF l
      <4>2. l \in Seq(Nat) /\ i \in 1 .. Len(l) /\ i <= snap[c]
        BY <3>2 DEF l
      <4>3. r \in ToSet(l)
        BY <4>1, <4>2, Elements
      <4>4. Entry(target[c], r)
        BY <2>1, <3>2, <4>3 DEF Shape, Logs, l
      <4>5. db[r] = target[c]
        BY <4>4, RequestFacts DEF Entry
      <4>6. IsPut(r)
        BY <2>1, <3>2, <4>3, <4>5 DEF Shape, Logs, l
      <4> QED BY <4>1, <4>2, <4>5, <4>6
    <3>4. r \in Read(c) => Position(r) <= snap[c]
      BY <2>1, <3>3, PositionIs
    <3>5. CASE feeder[c] = "view"
      <4>1. got[c][r] = Of(Sent(c), r)
        BY <2>1, <3>1, <3>5 DEF Counts, Viewing
      <4>2. got[c][r] = 1 /\ r \in Read(c)
        BY <2>3, <4>1 DEF Of, Sent
      <4> QED BY <3>3, <4>2
    <3>6. CASE feeder[c] = "registered"
      <4>1. Receiving(c) /\ got[c][r] \in Times(c, r)
        BY <2>1, <3>1, <3>6 DEF Counts, Receiving
      <4>2. CASE r \in Read(c)
        <5>1. Of(Read(c), r) = 1
          BY <4>2 DEF Of
        <5>2. got[c][r] \in {1, 2}
          BY <4>1, <5>1 DEF Times
        <5>3. got[c][r] = 2 => r \notin missed[c]
          BY <4>1, <5>1 DEF Times, Receiving
        <5> QED BY <3>3, <3>4, <4>2, <5>2, <5>3
      <4>3. CASE r \notin Read(c)
        <5>1. Of(Read(c), r) = 0
          BY <4>3 DEF Of
        <5>2. got[c][r] = 1 /\ db[r] = target[c]
          BY <2>3, <4>1, <5>1 DEF Times
        <5> QED BY <5>2
      <4> QED BY <4>2, <4>3
    <3> QED BY <3>1, <3>5, <3>6
  <2> QED BY <2>2, <2>3
<1> QED BY <1>1, LogInvariant, PTL
=============================================================================
