-------------------------- MODULE ClientTreeProofs --------------------------
EXTENDS ClientTree, SequenceTheorems, FiniteSetTheorems, NaturalsInduction,
        WellFoundedInduction, TLAPS
(***************************************************************************)
(* What is proved of the tree a page shows (client/query.js), for every    *)
(* number of transactions, every tree of them and every order they arrive  *)
(* in.  The module has three parts.                                        *)
(*                                                                         *)
(*   What is reached.  Drawn and Rooted compute the same closure in waves, *)
(*   one over the children by generation, the other over the transactions  *)
(*   that have arrived.  A wave that is not the last adds an element, so   *)
(*   that both take enough of them to end with the least closed set.       *)
(*                                                                         *)
(*   Sorted children.  ByGen has a place for every transaction.            *)
(*                                                                         *)
(*   The page.  PageInv says of the children of a generation that they     *)
(*   are of those that have arrived for it, one for each generation, none  *)
(*   missing.  So one step down the children is one step down the          *)
(*   transactions (DrawnIsRooted).                                         *)
(***************************************************************************)

-----------------------------------------------------------------------------
(***************************************************************************)
(* What is reached from the initial state                                  *)
(***************************************************************************)

\* A set of numbers has a least one: the minimal counterexample of an induction.
LEMMA Least ==
    ASSUME NEW S \in SUBSET Nat, S # {}
    PROVE  \E n \in S : \A k \in S : n <= k
<1> DEFINE Less == {ss \in Nat \X Nat : ss[1] < ss[2]}
<1>1. IsWellFoundedOn(Less, Nat)
  BY NatLessThanWellFounded DEF OpToRel
<1>2. PICK n \in S : \A k \in S : ~ (<<k, n>> \in Less)
  BY <1>1, WFMin
<1>3. ASSUME NEW k \in S PROVE n <= k
  <2>1. k < n => <<k, n>> \in Less
    OBVIOUS
  <2> QED BY <1>2, <2>1
<1> QED BY <1>3

\* The sets reached from {0} in 0, 1, .. N steps of F.
Waves(U, F, N) ==
    {w \in [0 .. N -> SUBSET U] :
        /\ w[0] = {0}
        /\ \A n \in 1 .. N : w[n] = w[n - 1] \cup F[w[n - 1]]}

LEMMA SomeWaves ==
    ASSUME NEW U, 0 \in U, NEW F \in [SUBSET U -> SUBSET U]
    PROVE  \A N \in Nat : Waves(U, F, N) # {}
<1> DEFINE S == {N \in Nat : Waves(U, F, N) = {}}
<1>1. SUFFICES ASSUME S # {} PROVE FALSE
  OBVIOUS
<1>2. PICK N \in S : \A k \in S : N <= k
  <2>1. S \in SUBSET Nat
    OBVIOUS
  <2> HIDE DEF S
  <2> QED BY <1>1, <2>1, Least
<1>3. N \in Nat /\ Waves(U, F, N) = {}
  OBVIOUS
<1>4. CASE N = 0
  <2> DEFINE w == [n \in 0 .. 0 |-> {0}]
  <2>1. w \in [0 .. 0 -> SUBSET U] /\ w[0] = {0}
    OBVIOUS
  <2>2. w \in Waves(U, F, 0)
    BY <2>1 DEF Waves
  <2> QED BY <1>3, <1>4, <2>2
<1>5. CASE N # 0
  <2>1. N - 1 \in Nat /\ N - 1 \notin S
    BY <1>2, <1>3, <1>5
  <2>2. PICK v \in Waves(U, F, N - 1) : TRUE
    BY <2>1
  <2>3. /\ v \in [0 .. N - 1 -> SUBSET U] /\ v[0] = {0}
        /\ \A n \in 1 .. N - 1 : v[n] = v[n - 1] \cup F[v[n - 1]]
    BY <2>2 DEF Waves
  <2>4. v[N - 1] \in SUBSET U /\ F[v[N - 1]] \in SUBSET U
    BY <2>1, <2>3
  <2> DEFINE w == [n \in 0 .. N |-> IF n = N THEN v[N - 1] \cup F[v[N - 1]] ELSE v[n]]
  <2>5. \A n \in 0 .. N : n # N => n \in 0 .. N - 1
    BY <1>3
  <2>6. w \in [0 .. N -> SUBSET U]
    BY <2>3, <2>4, <2>5
  <2>7. w[0] = {0}
    BY <1>3, <1>5, <2>3
  <2>8. ASSUME NEW n \in 1 .. N PROVE w[n] = w[n - 1] \cup F[w[n - 1]]
    <3>1. n - 1 \in 0 .. N - 1 /\ w[n - 1] = v[n - 1]
      BY <1>3
    <3>2. CASE n = N
      BY <3>1, <3>2
    <3>3. CASE n # N
      <4>1. n \in 1 .. N - 1 /\ w[n] = v[n]
        BY <1>3, <3>3
      <4> QED BY <2>3, <3>1, <4>1
    <3> QED BY <3>2, <3>3
  <2>9. w \in Waves(U, F, N)
    BY <2>6, <2>7, <2>8 DEF Waves
  <2> QED BY <1>3, <2>9
<1> QED BY <1>4, <1>5
\* A wave is the one before it and one step of F.
LEMMA WaveBefore ==
    ASSUME NEW U, NEW F \in [SUBSET U -> SUBSET U], NEW N \in Nat, NEW w \in Waves(U, F, N),
           NEW n \in 1 .. N
    PROVE  /\ n - 1 \in 0 .. N
           /\ w[n - 1] \in SUBSET U /\ F[w[n - 1]] \in SUBSET U /\ w[n] \in SUBSET U
           /\ w[n] = w[n - 1] \cup F[w[n - 1]]
<1>1. n - 1 \in 0 .. N /\ n \in 0 .. N
  OBVIOUS
<1> QED BY <1>1 DEF Waves

\* No wave loses the initial state.
LEMMA FirstStays ==
    ASSUME NEW U, NEW F \in [SUBSET U -> SUBSET U], NEW N \in Nat, NEW w \in Waves(U, F, N)
    PROVE  0 \in w[N]
<1> DEFINE S == {n \in 0 .. N : 0 \notin w[n]}
<1>1. SUFFICES ASSUME S # {} PROVE FALSE
  OBVIOUS
<1>2. PICK n \in S : \A k \in S : n <= k
  <2>1. S \in SUBSET Nat
    OBVIOUS
  <2> HIDE DEF S
  <2> QED BY <1>1, <2>1, Least
<1>3. n \in 0 .. N /\ 0 \notin w[n]
  OBVIOUS
<1>4. n # 0
  BY <1>3 DEF Waves
<1>5. n \in 1 .. N /\ n - 1 \in 0 .. N /\ n - 1 \notin S
  BY <1>2, <1>3, <1>4
<1>6. 0 \in w[n - 1] /\ w[n] = w[n - 1] \cup F[w[n - 1]]
  BY <1>5, WaveBefore
<1> QED BY <1>3, <1>6

\* The waves do not leave a set that F does not leave.
LEMMA LastWaveIsLeast ==
    ASSUME NEW U, NEW F \in [SUBSET U -> SUBSET U], NEW N \in Nat, NEW w \in Waves(U, F, N),
           NEW C \in SUBSET U, 0 \in C, \A T \in SUBSET C : F[T] \in SUBSET C
    PROVE  w[N] \in SUBSET C
<1> DEFINE S == {n \in 0 .. N : w[n] \notin SUBSET C}
<1>1. SUFFICES ASSUME S # {} PROVE FALSE
  OBVIOUS
<1>2. PICK n \in S : \A k \in S : n <= k
  <2>1. S \in SUBSET Nat
    OBVIOUS
  <2> HIDE DEF S
  <2> QED BY <1>1, <2>1, Least
<1>3. n \in 0 .. N /\ w[n] \notin SUBSET C
  OBVIOUS
<1>4. n # 0
  BY <1>3 DEF Waves
<1>5. n \in 1 .. N /\ n - 1 \in 0 .. N /\ n - 1 \notin S
  BY <1>2, <1>3, <1>4
<1>6. w[n - 1] \in SUBSET C
  BY <1>5
<1>7. w[n] = w[n - 1] \cup F[w[n - 1]]
  BY <1>5, WaveBefore
<1> QED BY <1>3, <1>6, <1>7

\* A wave that F adds nothing to is the last one, too.
LEMMA ClosedWaves ==
    ASSUME NEW U, NEW F \in [SUBSET U -> SUBSET U], NEW N \in Nat, NEW w \in Waves(U, F, N),
           NEW p \in 0 .. N, F[w[p]] \subseteq w[p]
    PROVE  F[w[N]] \subseteq w[N]
<1> DEFINE S == {n \in p .. N : ~ (F[w[n]] \subseteq w[n])}
<1>1. SUFFICES ASSUME S # {} PROVE FALSE
  OBVIOUS
<1>2. PICK n \in S : \A k \in S : n <= k
  <2>1. S \in SUBSET Nat
    OBVIOUS
  <2> HIDE DEF S
  <2> QED BY <1>1, <2>1, Least
<1>3. n \in p .. N /\ n # p /\ ~ (F[w[n]] \subseteq w[n])
  OBVIOUS
<1>4. n \in 1 .. N /\ n - 1 \in p .. N /\ n - 1 \notin S
  BY <1>2, <1>3
<1>5. F[w[n - 1]] \subseteq w[n - 1]
  BY <1>4
<1>6. w[n] = w[n - 1] \cup F[w[n - 1]]
  BY <1>4, WaveBefore
<1>7. w[n] = w[n - 1]
  BY <1>5, <1>6
<1> QED BY <1>3, <1>5, <1>7

\* Every wave that is not closed has one element more than the one before, and
\* there are only so many.
LEMMA LastWaveIsClosed ==
    ASSUME NEW U, IsFiniteSet(U), NEW F \in [SUBSET U -> SUBSET U], NEW N \in Nat,
           NEW w \in Waves(U, F, N), Cardinality(U) <= N + 1
    PROVE  F[w[N]] \subseteq w[N]
<1> SUFFICES ASSUME ~ (F[w[N]] \subseteq w[N]) PROVE FALSE
  OBVIOUS
<1>1. \A n \in 0 .. N : ~ (F[w[n]] \subseteq w[n])
  BY ClosedWaves
<1>2. \A n \in 0 .. N : w[n] \in SUBSET U /\ IsFiniteSet(w[n]) /\ Cardinality(w[n]) \in Nat
  <2> TAKE n \in 0 .. N
  <2>1. w[n] \in SUBSET U
    BY DEF Waves
  <2>2. IsFiniteSet(w[n])
    BY <2>1, FS_Subset
  <2> QED BY <2>1, <2>2, FS_CardinalityType
<1> DEFINE S == {n \in 0 .. N : Cardinality(w[n]) < n + 1}
<1>3. CASE S = {}
  <2>1. Cardinality(w[N]) >= N + 1
    BY <1>2, <1>3
  <2>2. Cardinality(w[N]) <= Cardinality(U) /\ Cardinality(U) \in Nat
    BY <1>2, FS_Subset, FS_CardinalityType
  <2>3. Cardinality(w[N]) = Cardinality(U)
    BY <1>2, <2>1, <2>2
  <2>4. w[N] = U
    BY <1>2, <2>3, FS_Subset
  <2> QED BY <1>1, <2>4
<1>4. CASE S # {}
  <2>1. PICK n \in S : \A k \in S : n <= k
    <3>1. S \in SUBSET Nat
      OBVIOUS
    <3> HIDE DEF S
    <3> QED BY <1>4, <3>1, Least
  <2>2. n \in 0 .. N /\ Cardinality(w[n]) < n + 1
    OBVIOUS
  <2>3. n # 0
    <3>1. w[0] = {0} /\ Cardinality({0}) = 1
      BY FS_Singleton DEF Waves
    <3>2. ASSUME n = 0 PROVE FALSE
      <4>1. Cardinality(w[n]) = 1
        BY <3>1, <3>2
      <4> QED BY <2>2, <3>2, <4>1
    <3> QED BY <3>2
  <2>4. n \in 1 .. N /\ n - 1 \in 0 .. N /\ n - 1 \notin S
    BY <2>1, <2>2, <2>3
  <2>5. Cardinality(w[n - 1]) >= (n - 1) + 1
    BY <1>2, <2>4
  <2>6. w[n] = w[n - 1] \cup F[w[n - 1]]
    BY <2>4, WaveBefore
  <2>7. w[n - 1] \in SUBSET w[n] /\ w[n - 1] # w[n]
    BY <1>1, <2>4, <2>6
  <2>8. Cardinality(w[n - 1]) <= Cardinality(w[n]) /\ Cardinality(w[n - 1]) # Cardinality(w[n])
    BY <1>2, <2>2, <2>7, FS_Subset
  <2> QED BY <1>2, <2>2, <2>4, <2>5, <2>8
<1> QED BY <1>3, <1>4

\* Two ways to compute the waves end with the same set, if each takes enough of
\* them.
LEMMA SameEnd ==
    ASSUME NEW U, IsFiniteSet(U), 0 \in U, NEW F \in [SUBSET U -> SUBSET U],
           \A S \in SUBSET U : \A T \in SUBSET S : F[T] \subseteq F[S],
           NEW M \in Nat, NEW v \in Waves(U, F, M), Cardinality(U) <= M + 1,
           NEW N \in Nat, NEW w \in Waves(U, F, N), Cardinality(U) <= N + 1
    PROVE  v[M] = w[N]
<1>1. /\ F[v[M]] \subseteq v[M] /\ v[M] \in SUBSET U
      /\ F[w[N]] \subseteq w[N] /\ w[N] \in SUBSET U
  <2>1. F[v[M]] \subseteq v[M] /\ F[w[N]] \subseteq w[N]
    BY LastWaveIsClosed
  <2> QED BY <2>1 DEF Waves
<1>2. 0 \in v[M] /\ 0 \in w[N]
  BY FirstStays
<1>3. ASSUME NEW n \in Nat, NEW x \in Waves(U, F, n),
             NEW C \in SUBSET U, 0 \in C, F[C] \subseteq C
      PROVE  x[n] \in SUBSET C
  <2>1. \A T \in SUBSET C : F[T] \in SUBSET C
    BY <1>3
  <2> QED BY <1>3, <2>1, LastWaveIsLeast
<1>4. v[M] \in SUBSET w[N]
  BY <1>1, <1>2, <1>3
<1>5. w[N] \in SUBSET v[M]
  BY <1>1, <1>2, <1>3
<1> QED BY <1>4, <1>5
-----------------------------------------------------------------------------
(***************************************************************************)
(* Sorted children                                                         *)
(***************************************************************************)

\* No two transactions of S have one generation.
Apart(S) == \A t, u \in S : t.gen = u.gen => t = u

\* No two places of s have one generation.
ApartIn(s) == \A k, l \in DOMAIN s : s[k].gen = s[l].gen => k = l

\* There are as many places as transactions, and each is taken by one.
LEMMA PlacesAreTaken ==
    ASSUME NEW S, IsFiniteSet(S), \A t \in S : t.gen \in Int, Apart(S)
    PROVE  /\ \A t \in S : /\ Cardinality(Older(S, t)) \in Nat
                           /\ Cardinality(Older(S, t)) < Cardinality(S)
           /\ \A k \in 1 .. Cardinality(S) : \E t \in S : Cardinality(Older(S, t)) = k - 1
           /\ \A t, u \in S : Cardinality(Older(S, t)) = Cardinality(Older(S, u)) => t = u
<1> DEFINE n == Cardinality(S)
           rank(t) == Cardinality(Older(S, t))
           f == [t \in S |-> rank(t) + 1]
<1>1. n \in Nat
  BY FS_CardinalityType
<1>2. \A t \in S : Older(S, t) \in SUBSET S /\ t \notin Older(S, t)
  BY DEF Older
<1>3. \A t \in S : IsFiniteSet(Older(S, t)) /\ rank(t) \in Nat
  BY <1>2, FS_Subset, FS_CardinalityType
<1>4. \A t \in S : rank(t) < n
  <2> TAKE t \in S
  <2>1. rank(t) <= n /\ (n = rank(t) => S = Older(S, t))
    BY <1>2, FS_Subset
  <2> QED BY <1>1, <1>2, <1>3, <2>1
<1>5. ASSUME NEW t \in S, NEW u \in S, t.gen < u.gen PROVE rank(t) # rank(u)
  <2>1. /\ Older(S, t) \in SUBSET Older(S, u)
        /\ t \in Older(S, u) /\ t \notin Older(S, t)
    BY <1>5 DEF Older
  <2>2. rank(u) = rank(t) => Older(S, u) = Older(S, t)
    BY <1>3, <2>1, FS_Subset
  <2> QED BY <2>1, <2>2
<1>6. \A t, u \in S : rank(t) = rank(u) => t = u
  <2> TAKE t \in S, u \in S
  <2>1. t.gen < u.gen \/ u.gen < t.gen \/ t.gen = u.gen
    OBVIOUS
  <2> QED BY <1>5, <2>1 DEF Apart
<1> HIDE DEF n, rank
<1>7. f \in Injection(S, 1 .. n)
  <2>1. \A t \in S : rank(t) + 1 \in 1 .. n
    BY <1>1, <1>3, <1>4
  <2>2. f \in [S -> 1 .. n]
    BY <2>1
  <2>3. ASSUME NEW t \in S, NEW u \in S, f[t] = f[u] PROVE t = u
    <3>1. rank(t) + 1 = rank(u) + 1
      BY <2>3
    <3>2. rank(t) = rank(u)
      BY <1>3, <3>1
    <3> QED BY <1>6, <3>2
  <2> HIDE DEF f
  <2> QED BY <2>2, <2>3 DEF Injection, IsInjective
<1>8. IsFiniteSet(1 .. n) /\ Cardinality(1 .. n) = n
  BY <1>1, FS_Interval
<1> HIDE DEF f
<1>9. f \in Surjection(S, 1 .. n)
  BY <1>7, <1>8, FS_Injection DEF n
<1>10. ASSUME NEW k \in 1 .. n PROVE \E t \in S : rank(t) = k - 1
  <2>1. PICK t \in S : f[t] = k
    BY <1>9 DEF Surjection
  <2>2. rank(t) + 1 = k
    BY <2>1 DEF f
  <2> QED BY <1>3, <2>2
<1> QED BY <1>3, <1>4, <1>6, <1>10 DEF rank, n

\* Sorting loses nothing and repeats nothing.
LEMMA Sorted ==
    ASSUME NEW S, IsFiniteSet(S), \A t \in S : t.gen \in Int, Apart(S)
    PROVE  ByGen(S) \in Seq(S) /\ ToSet(ByGen(S)) = S /\ ApartIn(ByGen(S))
<1> DEFINE n == Cardinality(S)
           s == ByGen(S)
           rank(t) == Cardinality(Older(S, t))
<1>1. n \in Nat
  BY FS_CardinalityType
<1>2. s = [k \in 1 .. n |-> CHOOSE t \in S : rank(t) = k - 1]
  BY DEF ByGen
<1>3. /\ \A t \in S : rank(t) \in Nat /\ rank(t) < n
      /\ \A k \in 1 .. n : \E t \in S : rank(t) = k - 1
      /\ \A t, u \in S : rank(t) = rank(u) => t = u
  BY PlacesAreTaken
<1> HIDE DEF s, n, rank
<1>4. \A k \in 1 .. n : s[k] \in S /\ rank(s[k]) = k - 1
  BY <1>2, <1>3
<1>5. s \in [1 .. n -> S]
  BY <1>2, <1>4
<1>6. s \in Seq(S) /\ Len(s) = n /\ DOMAIN s = 1 .. n
  BY <1>1, <1>5, IsASeq
<1>7. \A t \in S : \E k \in 1 .. n : s[k] = t
  <2> TAKE t \in S
  <2>1. rank(t) + 1 \in 1 .. n /\ (rank(t) + 1) - 1 = rank(t)
    BY <1>1, <1>3
  <2>2. s[rank(t) + 1] \in S /\ rank(s[rank(t) + 1]) = rank(t)
    BY <1>4, <2>1
  <2> QED BY <1>3, <2>1, <2>2
<1>8. ToSet(s) = S
  BY <1>4, <1>6, <1>7 DEF ToSet
<1>9. ASSUME NEW k \in 1 .. n, NEW l \in 1 .. n, s[k].gen = s[l].gen PROVE k = l
  <2>1. s[k] = s[l]
    BY <1>4, <1>9 DEF Apart
  <2>2. rank(s[k]) = k - 1 /\ rank(s[l]) = l - 1
    BY <1>4
  <2> QED BY <2>1, <2>2
<1>10. ApartIn(s)
  BY <1>6, <1>9 DEF ApartIn
<1> QED BY <1>6, <1>8, <1>10 DEF s
-----------------------------------------------------------------------------
(***************************************************************************)
(* The page                                                                *)
(***************************************************************************)

\* A transaction with a generation has its own, above its parent's.
Logged ==
    /\ IsFiniteSet(logged) /\ logged \in SUBSET Transac /\ last \in Nat
    /\ \A t \in logged : \/ t.gen \in 1 .. last /\ t.parent < t.gen
                         \/ t.gen = -1 /\ t.parent = 0 /\ ~ t.ok
    /\ \A t, u \in logged : t.gen > 0 /\ t.gen = u.gen => t = u

Arrived(g) == {t \in arrived : t.parent = g}

\* The page knows the generations it has heard of.  The children of one are of
\* those that have arrived for it, one for each generation, and none is missing.
Tree ==
    /\ arrived \subseteq logged
    /\ DOMAIN gens = {0} \cup {t.gen : t \in arrived} \cup {t.parent : t \in arrived}
    /\ \A g \in DOMAIN gens : /\ gens[g] \in Seq(Transac) /\ ApartIn(gens[g])
                              /\ ToSet(gens[g]) \subseteq Arrived(g)
    /\ \A t \in arrived : \E c \in ToSet(gens[t.parent]) : c.gen = t.gen

\* The head is at something that has arrived, the newest success at first.
AtHead ==
    /\ gotos \in Nat
    /\ head = 0 \/ \E t \in arrived : t.gen = head
    /\ gotos = 0 => /\ \A t \in arrived : t.ok => t.gen <= head
                    /\ head = 0 \/ \E t \in arrived : t.ok /\ t.gen = head

PageInv == Logged /\ Tree /\ AtHead

LEMMA PageStart == Init => PageInv
<1> SUFFICES ASSUME Init PROVE PageInv
  OBVIOUS
<1>1. logged = {} /\ arrived = {} /\ last = 0 /\ gotos = 0 /\ head = 0
      /\ gens = [g \in {0} |-> <<>>]
  BY DEF Init
<1>2. Logged
  BY <1>1, FS_EmptySet DEF Logged
<1>3. <<>> \in Seq(Transac) /\ ApartIn(<<>>) /\ ToSet(<<>>) = {}
  BY DEF ApartIn, ToSet
<1>4. Tree
  BY <1>1, <1>3 DEF Tree
<1>5. AtHead
  BY <1>1 DEF AtHead
<1> QED BY <1>2, <1>4, <1>5 DEF PageInv

\* What is known of the children of any generation.
LEMMA Children ==
    ASSUME Tree, NEW g
    PROVE  /\ ChildrenOf(g) \in Seq(Transac) /\ ApartIn(ChildrenOf(g))
           /\ ToSet(ChildrenOf(g)) \subseteq Arrived(g)
<1>1. <<>> \in Seq(Transac) /\ ApartIn(<<>>) /\ ToSet(<<>>) = {}
  BY DEF ApartIn, ToSet
<1> QED BY <1>1 DEF Tree, ChildrenOf

\* The children of t's parent after t: no child is lost and t is one, unless
\* there is one of its generation.
LEMMA ChildAdded ==
    ASSUME NEW children \in Seq(Transac), ApartIn(children), NEW t \in Transac
    PROVE  LET new == WithChild(children, t)
           IN  /\ new \in Seq(Transac) /\ ApartIn(new)
               /\ ToSet(new) \subseteq ToSet(children) \cup {t}
               /\ \A u \in ToSet(children) \cup {t} : \E c \in ToSet(new) : c.gen = u.gen
<1> DEFINE new == WithChild(children, t)
           S   == ToSet(children) \cup {t}
<1>1. ToSet(children) \in SUBSET Transac /\ IsFiniteSet(ToSet(children))
  <2> DEFINE n == Len(children)
             T == ToSet(children)
  <2>1. n \in Nat /\ children \in [1 .. n -> Transac] /\ DOMAIN children = 1 .. n
    OBVIOUS
  <2>2. T \in SUBSET Transac /\ \A c \in T : \E k \in 1 .. n : children[k] = c
    BY <2>1 DEF ToSet
  <2>3. children \in [1 .. n -> T]
    BY <2>1 DEF ToSet
  <2> HIDE DEF n, T
  <2>4. children \in Surjection(1 .. n, T)
    BY <2>2, <2>3 DEF Surjection
  <2>5. IsFiniteSet(T)
    BY <2>1, <2>4, FS_Interval, FS_Surjection
  <2> QED BY <2>2, <2>5 DEF T
<1>2. CASE \E k \in DOMAIN children : children[k].gen = t.gen
  <2>1. new = children
    BY <1>2 DEF WithChild
  <2>2. \E c \in ToSet(children) : c.gen = t.gen
    BY <1>2 DEF ToSet
  <2> QED BY <2>1, <2>2
<1>3. CASE ~ \E k \in DOMAIN children : children[k].gen = t.gen
  <2>1. new = ByGen(S)
    BY <1>3 DEF WithChild
  <2>2. IsFiniteSet(S) /\ \A u \in S : u \in Transac /\ u.gen \in Int
    BY <1>1, FS_AddElement DEF Transac
  <2>3. Apart(S)
    <3>1. \A u \in ToSet(children) : \E k \in DOMAIN children : children[k] = u
      BY DEF ToSet
    <3>2. \A u, v \in ToSet(children) : u.gen = v.gen => u = v
      BY <3>1 DEF ApartIn
    <3>3. \A u \in ToSet(children) : u.gen # t.gen
      BY <1>3, <3>1
    <3> QED BY <3>2, <3>3 DEF Apart
  <2> HIDE DEF S
  <2>4. ByGen(S) \in Seq(S) /\ ToSet(ByGen(S)) = S /\ ApartIn(ByGen(S))
    BY <2>2, <2>3, Sorted
  <2>5. ByGen(S) \in Seq(Transac)
    BY <2>2, <2>4
  <2> QED BY <2>1, <2>4, <2>5 DEF S
<1> QED BY <1>2, <1>3
\* A transaction that arrives, again or for the first time, in any order.
LEMMA TreeReceives ==
    ASSUME Logged, Tree, NEW t \in logged, Receive(t)
    PROVE  Tree'
<1> DEFINE D == DOMAIN gens \cup {t.gen, t.parent}
           new(g) == IF g = t.parent THEN WithChild(ChildrenOf(g), t) ELSE ChildrenOf(g)
<1>1. /\ t \in Transac /\ arrived' = arrived \cup {t} /\ logged' = logged
      /\ gens' = WithTransac(t)
  BY DEF Receive, Logged
<1>2. t.gen # t.parent /\ t.gen # 0 /\ t.parent \in Nat /\ t.gen \in Int
  BY <1>1 DEF Logged, Transac
<1>3. gens' = [g \in D |-> new(g)]
  <2>1. \A g \in D : (CASE g = t.parent -> WithChild(ChildrenOf(g), t)
                        [] g = t.gen    -> OwnChildren(t)
                        [] OTHER        -> ChildrenOf(g)) = new(g)
    BY <1>2 DEF OwnChildren
  <2> QED BY <1>1, <2>1 DEF WithTransac
<1>4. D = {0} \cup {u.gen : u \in arrived'} \cup {u.parent : u \in arrived'}
  BY <1>1 DEF Tree
<1>5. \A u \in arrived : u.parent \in DOMAIN gens /\ gens[u.parent] = ChildrenOf(u.parent)
  BY DEF Tree, ChildrenOf
<1>6. \A u \in arrived : \E c \in ToSet(ChildrenOf(u.parent)) : c.gen = u.gen
  BY <1>5 DEF Tree
<1>7. \A g : /\ ChildrenOf(g) \in Seq(Transac) /\ ApartIn(ChildrenOf(g))
             /\ ToSet(ChildrenOf(g)) \subseteq Arrived(g)
  BY Children
<1>8. /\ new(t.parent) \in Seq(Transac) /\ ApartIn(new(t.parent))
      /\ ToSet(new(t.parent)) \subseteq ToSet(ChildrenOf(t.parent)) \cup {t}
      /\ \A u \in ToSet(ChildrenOf(t.parent)) \cup {t} :
             \E c \in ToSet(new(t.parent)) : c.gen = u.gen
  BY <1>1, <1>7, ChildAdded
<1>9. \A g : g # t.parent => new(g) = ChildrenOf(g)
  OBVIOUS
<1> HIDE DEF new
<1>10. \A g : Arrived(g)' = IF g = t.parent THEN Arrived(g) \cup {t} ELSE Arrived(g)
  BY <1>1 DEF Arrived
<1>11. \A g \in D : /\ gens'[g] \in Seq(Transac) /\ ApartIn(gens'[g])
                    /\ ToSet(gens'[g]) \subseteq Arrived(g)'
  <2> TAKE g \in D
  <2>1. gens'[g] = new(g)
    BY <1>3
  <2>2. CASE g = t.parent
    BY <1>7, <1>8, <1>10, <2>1, <2>2
  <2>3. CASE g # t.parent
    BY <1>7, <1>9, <1>10, <2>1, <2>3
  <2> QED BY <2>2, <2>3
<1>12. \A u \in arrived' : \E c \in ToSet(gens'[u.parent]) : c.gen = u.gen
  <2> TAKE u \in arrived'
  <2>1. u.parent \in D
    BY <1>4
  <2>2. gens'[u.parent] = new(u.parent)
    BY <1>3, <2>1
  <2>3. CASE u = t
    BY <1>8, <2>2, <2>3
  <2>4. CASE u # t /\ u.parent = t.parent
    <3>1. PICK c \in ToSet(ChildrenOf(t.parent)) : c.gen = u.gen
      BY <1>1, <1>6, <2>4
    <3> QED BY <1>8, <2>2, <2>4, <3>1
  <2>5. CASE u # t /\ u.parent # t.parent
    BY <1>1, <1>6, <1>9, <2>2, <2>5
  <2> QED BY <2>3, <2>4, <2>5
<1>13. arrived' \subseteq logged'
  BY <1>1 DEF Tree
<1>14. DOMAIN gens' = D
  BY <1>3
<1> HIDE DEF D
<1> QED BY <1>4, <1>11, <1>12, <1>13, <1>14 DEF Tree
-----------------------------------------------------------------------------
(***************************************************************************)
(* What is drawn                                                           *)
(***************************************************************************)

Known == {0} \cup {t.gen : t \in arrived}

\* The generations whose parents are in S.
Below == [S \in SUBSET Known |-> {t.gen : t \in {u \in arrived : u.parent \in S}}]

LEMMA BelowFacts ==
    /\ 0 \in Known /\ Below \in [SUBSET Known -> SUBSET Known]
    /\ \A S \in SUBSET Known : Below[S] = {t.gen : t \in {u \in arrived : u.parent \in S}}
    /\ \A S \in SUBSET Known : \A T \in SUBSET S : Below[T] \subseteq Below[S]
<1> DEFINE below(S) == {t.gen : t \in {u \in arrived : u.parent \in S}}
<1>1. \A S \in SUBSET Known : below(S) \in SUBSET Known
  BY DEF Known
<1>2. \A S \in SUBSET Known : Below[S] = below(S)
  BY DEF Below
<1>3. Below \in [SUBSET Known -> SUBSET Known]
  BY <1>1 DEF Below
<1>4. \A S \in SUBSET Known : \A T \in SUBSET S : Below[T] \subseteq Below[S]
  <2> TAKE S \in SUBSET Known
  <2> TAKE T \in SUBSET S
  <2>1. T \in SUBSET Known /\ below(T) \subseteq below(S)
    OBVIOUS
  <2> HIDE DEF below
  <2> QED BY <1>2, <2>1
<1> QED BY <1>2, <1>3, <1>4 DEF Known

\* There are as many waves as it takes.
LEMMA KnownSize ==
    ASSUME Logged, Tree
    PROVE  /\ IsFiniteSet(Known) /\ Cardinality(Known) \in Nat
           /\ Cardinality(DOMAIN gens) \in Nat /\ Cardinality(arrived) \in Nat
           /\ Cardinality(Known) <= Cardinality(DOMAIN gens) + 1
           /\ Cardinality(Known) <= Cardinality(arrived) + 1
<1> DEFINE G == {t.gen : t \in arrived}
           P == {t.parent : t \in arrived}
           f == [t \in arrived |-> t.gen]
           h == [t \in arrived |-> t.parent]
<1>1. IsFiniteSet(arrived) /\ Cardinality(arrived) \in Nat
  BY FS_Subset, FS_CardinalityType DEF Logged, Tree
<1>2. f \in Surjection(arrived, G) /\ h \in Surjection(arrived, P)
  BY DEF Surjection
<1> HIDE DEF f, h
<1>3. IsFiniteSet(G) /\ Cardinality(G) <= Cardinality(arrived) /\ IsFiniteSet(P)
  BY <1>1, <1>2, FS_Surjection
<1>4. Known = G \cup {0} /\ DOMAIN gens = (G \cup {0}) \cup P
  BY DEF Known, Tree
<1> HIDE DEF G, P
<1>5. IsFiniteSet(Known) /\ Cardinality(Known) \in Nat /\ Cardinality(G) \in Nat
  BY <1>3, <1>4, FS_AddElement, FS_CardinalityType
<1>6. Cardinality(Known) <= Cardinality(G) + 1
  <2>1. Cardinality(Known) = IF 0 \in G THEN Cardinality(G) ELSE Cardinality(G) + 1
    BY <1>3, <1>4, FS_AddElement
  <2> QED BY <1>5, <2>1
<1>7. IsFiniteSet(DOMAIN gens)
  BY <1>3, <1>4, <1>5, FS_Union
<1>8. Cardinality(DOMAIN gens) \in Nat /\ Cardinality(Known) <= Cardinality(DOMAIN gens)
  BY <1>4, <1>7, FS_CardinalityType, FS_Subset
<1> QED BY <1>1, <1>3, <1>5, <1>6, <1>8

\* Whatever starts and goes on like waves is waves.
Follows(f, U, F, N) ==
    /\ f[0] = {0}
    /\ \A n \in 1 .. N : f[n - 1] \in SUBSET U => f[n] = f[n - 1] \cup F[f[n - 1]]

LEMMA Agree ==
    ASSUME NEW U, NEW F \in [SUBSET U -> SUBSET U], NEW N \in Nat, NEW w \in Waves(U, F, N),
           NEW f, Follows(f, U, F, N)
    PROVE  f[N] = w[N]
<1> DEFINE S == {n \in 0 .. N : f[n] # w[n]}
<1>1. SUFFICES ASSUME S # {} PROVE FALSE
  OBVIOUS
<1>2. PICK n \in S : \A k \in S : n <= k
  <2>1. S \in SUBSET Nat
    OBVIOUS
  <2> HIDE DEF S
  <2> QED BY <1>1, <2>1, Least
<1>3. n \in 0 .. N /\ f[n] # w[n]
  OBVIOUS
<1>4. n # 0
  BY <1>3 DEF Waves, Follows
<1>5. n \in 1 .. N /\ n - 1 \in 0 .. N /\ n - 1 \notin S
  BY <1>2, <1>3, <1>4
<1>6. f[n - 1] = w[n - 1]
  BY <1>5
<1>7. w[n] = w[n - 1] \cup F[w[n - 1]] /\ w[n - 1] \in SUBSET U
  BY <1>5 DEF Waves
<1>8. f[n] = f[n - 1] \cup F[f[n - 1]]
  BY <1>5, <1>6, <1>7 DEF Follows
<1> QED BY <1>3, <1>6, <1>7, <1>8

LEMMA RootedIs ==
    ASSUME Logged, Tree, NEW w \in Waves(Known, Below, Cardinality(arrived))
    PROVE  Rooted = w[Cardinality(arrived)]
<1> DEFINE N == Cardinality(arrived)
           grow(S) == S \cup {t.gen : t \in {u \in arrived : u.parent \in S}}
           Step(f) == [n \in 0 .. N |-> IF n = 0 THEN {0} ELSE grow(f[n - 1])]
           walk == CHOOSE f : f = Step(f)
<1>1. Rooted = walk[N]
  BY DEF Rooted
<1>2. N \in Nat
  BY KnownSize
<1>3. w \in [0 .. N -> SUBSET Known] /\ w[0] = {0}
      /\ \A n \in 1 .. N : w[n] = w[n - 1] \cup Below[w[n - 1]]
  BY DEF Waves
<1>4. \A S \in SUBSET Known : grow(S) = S \cup Below[S]
  BY BelowFacts
<1> HIDE DEF grow, N
<1>5. w = Step(w)
  <2>1. \A n \in 0 .. N : w[n] = IF n = 0 THEN {0} ELSE grow(w[n - 1])
    <3> TAKE n \in 0 .. N
    <3>1. CASE n = 0
      BY <1>3, <3>1
    <3>2. CASE n # 0
      <4>1. n \in 1 .. N /\ n - 1 \in 0 .. N
        BY <1>2, <3>2
      <4>2. w[n - 1] \in SUBSET Known
        BY <1>3, <4>1
      <4> QED BY <1>3, <1>4, <3>2, <4>1, <4>2
    <3> QED BY <3>1, <3>2
  <2> QED BY <1>3, <2>1
<1>6. walk = Step(walk)
  BY <1>5
<1> HIDE DEF walk
<1>7. walk[0] = {0}
  <2>1. 0 \in 0 .. N
    BY <1>2
  <2> QED BY <1>6, <2>1
<1>8. ASSUME NEW n \in 1 .. N, walk[n - 1] \in SUBSET Known
      PROVE  walk[n] = walk[n - 1] \cup Below[walk[n - 1]]
  <2>1. n \in 0 .. N /\ n # 0
    BY <1>2
  <2>2. walk[n] = grow(walk[n - 1])
    BY <1>6, <2>1
  <2> QED BY <1>4, <1>8, <2>2
<1>9. walk[N] = w[N]
  <2>1. w \in Waves(Known, Below, N) /\ Below \in [SUBSET Known -> SUBSET Known]
    BY BelowFacts DEF N
  <2>2. Follows(walk, Known, Below, N)
    BY <1>7, <1>8 DEF Follows
  <2> QED BY <1>2, <2>1, <2>2, Agree
<1> QED BY <1>1, <1>9 DEF N
\* The children that are drawn are of the generations of those that have arrived.
LEMMA ChildGens ==
    ASSUME Tree, NEW g
    PROVE  {c.gen : c \in ToSet(ChildrenOf(g))} = {t.gen : t \in Arrived(g)}
<1>1. \A c \in ToSet(ChildrenOf(g)) : c \in Arrived(g)
  BY Children
<1>2. ASSUME NEW t \in Arrived(g) PROVE \E c \in ToSet(ChildrenOf(g)) : c.gen = t.gen
  <2>1. t \in arrived /\ t.parent = g /\ g \in DOMAIN gens
    BY DEF Arrived, Tree
  <2>2. ChildrenOf(g) = gens[g]
    BY <2>1 DEF ChildrenOf
  <2> QED BY <2>1, <2>2 DEF Tree
<1> QED BY <1>1, <1>2

LEMMA DrawnIs ==
    ASSUME Logged, Tree, NEW w \in Waves(Known, Below, Cardinality(DOMAIN gens))
    PROVE  Drawn = w[Cardinality(DOMAIN gens)]
<1> DEFINE N == Cardinality(DOMAIN gens)
           below(S) == UNION {{c.gen : c \in ToSet(ChildrenOf(g))} : g \in S}
           Step(f) == [n \in 0 .. N |-> IF n = 0 THEN {0} ELSE f[n - 1] \cup below(f[n - 1])]
           walk == CHOOSE f : f = Step(f)
<1>1. Drawn = walk[N]
  BY DEF Drawn
<1>2. N \in Nat
  BY KnownSize
<1>3. w \in [0 .. N -> SUBSET Known] /\ w[0] = {0}
      /\ \A n \in 1 .. N : w[n] = w[n - 1] \cup Below[w[n - 1]]
  BY DEF Waves
<1>4. ASSUME NEW S \in SUBSET Known PROVE below(S) = Below[S]
  <2>1. \A g : {c.gen : c \in ToSet(ChildrenOf(g))} = {t.gen : t \in Arrived(g)}
    BY ChildGens
  <2>2. below(S) = UNION {{t.gen : t \in Arrived(g)} : g \in S}
    BY <2>1
  <2>3. UNION {{t.gen : t \in Arrived(g)} : g \in S} =
            {t.gen : t \in {u \in arrived : u.parent \in S}}
    BY DEF Arrived
  <2> HIDE DEF below
  <2> QED BY <2>2, <2>3, BelowFacts
<1> HIDE DEF below, N
<1>5. w = Step(w)
  <2>1. \A n \in 0 .. N : w[n] = IF n = 0 THEN {0} ELSE w[n - 1] \cup below(w[n - 1])
    <3> TAKE n \in 0 .. N
    <3>1. CASE n = 0
      BY <1>3, <3>1
    <3>2. CASE n # 0
      <4>1. n \in 1 .. N /\ n - 1 \in 0 .. N
        BY <1>2, <3>2
      <4>2. w[n - 1] \in SUBSET Known
        BY <1>3, <4>1
      <4> QED BY <1>3, <1>4, <3>2, <4>1, <4>2
    <3> QED BY <3>1, <3>2
  <2> QED BY <1>3, <2>1
<1>6. walk = Step(walk)
  BY <1>5
<1> HIDE DEF walk
<1>7. walk[0] = {0}
  <2>1. 0 \in 0 .. N
    BY <1>2
  <2> QED BY <1>6, <2>1
<1>8. ASSUME NEW n \in 1 .. N, walk[n - 1] \in SUBSET Known
      PROVE  walk[n] = walk[n - 1] \cup Below[walk[n - 1]]
  <2>1. n \in 0 .. N /\ n # 0
    BY <1>2
  <2>2. walk[n] = walk[n - 1] \cup below(walk[n - 1])
    BY <1>6, <2>1
  <2> QED BY <1>4, <1>8, <2>2
<1>9. walk[N] = w[N]
  <2>1. w \in Waves(Known, Below, N) /\ Below \in [SUBSET Known -> SUBSET Known]
    BY BelowFacts DEF N
  <2>2. Follows(walk, Known, Below, N)
    BY <1>7, <1>8 DEF Follows
  <2> QED BY <1>2, <2>1, <2>2, Agree
<1> QED BY <1>1, <1>9 DEF N

\* What is drawn is what has all its ancestors, with the initial state and
\* with every child of its members.
LEMMA DrawnIsRooted ==
    ASSUME Logged, Tree
    PROVE  /\ Drawn = Rooted /\ 0 \in Rooted /\ Rooted \in SUBSET Known
           /\ \A t \in arrived : t.parent \in Rooted => t.gen \in Rooted
<1> DEFINE M == Cardinality(DOMAIN gens)
           N == Cardinality(arrived)
<1>1. /\ IsFiniteSet(Known) /\ M \in Nat /\ N \in Nat
      /\ Cardinality(Known) <= M + 1 /\ Cardinality(Known) <= N + 1
  BY KnownSize
<1>2. /\ 0 \in Known /\ Below \in [SUBSET Known -> SUBSET Known]
      /\ \A S \in SUBSET Known : \A T \in SUBSET S : Below[T] \subseteq Below[S]
  BY BelowFacts
<1>3. PICK v \in Waves(Known, Below, M) : Drawn = v[M]
  <2>1. Waves(Known, Below, M) # {}
    BY <1>1, <1>2, SomeWaves
  <2> QED BY <2>1, DrawnIs
<1>4. PICK w \in Waves(Known, Below, N) : Rooted = w[N]
  <2>1. Waves(Known, Below, N) # {}
    BY <1>1, <1>2, SomeWaves
  <2> QED BY <2>1, RootedIs
<1> HIDE DEF M, N
<1>5. v[M] = w[N]
  <2> DEFINE U == Known
             F == Below
  <2>1. /\ IsFiniteSet(U) /\ 0 \in U /\ F \in [SUBSET U -> SUBSET U]
        /\ Cardinality(U) <= M + 1 /\ Cardinality(U) <= N + 1
    BY <1>1, <1>2
  <2>2. \A S \in SUBSET U : \A T \in SUBSET S : F[T] \subseteq F[S]
    BY <1>2
  <2>3. M \in Nat /\ N \in Nat /\ v \in Waves(U, F, M) /\ w \in Waves(U, F, N)
    BY <1>1
  <2> HIDE DEF U, F
  <2> QED BY <2>1, <2>2, <2>3, SameEnd
<1>6. 0 \in w[N] /\ Below[w[N]] \subseteq w[N]
  BY <1>1, <1>2, FirstStays, LastWaveIsClosed
<1>7. w[N] \in SUBSET Known
  BY <1>1 DEF Waves
<1>8. Below[w[N]] = {t.gen : t \in {u \in arrived : u.parent \in w[N]}}
  BY <1>7, BelowFacts
<1> QED BY <1>3, <1>4, <1>5, <1>6, <1>7, <1>8
-----------------------------------------------------------------------------
(***************************************************************************)
(* The page's steps and what they keep                                     *)
(***************************************************************************)

\* An entry is drawn at a place of what is reached, and shows what has arrived.
LEMMA EntryFacts ==
    ASSUME Logged, Tree, NEW e \in Entries
    PROVE  \E g \in Rooted : \E k \in DOMAIN ChildrenOf(g) :
              /\ e = [at |-> <<g, k>>, shows |-> ChildrenOf(g)[k]]
              /\ e.at = <<g, k>> /\ e.shows = ChildrenOf(g)[k]
              /\ e.shows \in arrived /\ e.shows.parent = g
<1>1. PICK g \in Drawn : \E k \in DOMAIN ChildrenOf(g) :
              e = [at |-> <<g, k>>, shows |-> ChildrenOf(g)[k]]
  BY DEF Entries
<1>2. PICK k \in DOMAIN ChildrenOf(g) : e = [at |-> <<g, k>>, shows |-> ChildrenOf(g)[k]]
  BY <1>1
<1>3. ChildrenOf(g)[k] \in Arrived(g)
  <2>1. ChildrenOf(g)[k] \in ToSet(ChildrenOf(g))
    BY DEF ToSet
  <2> QED BY <2>1, Children
<1>4. g \in Rooted
  BY DrawnIsRooted
<1>5. e.at = <<g, k>> /\ e.shows = ChildrenOf(g)[k]
  BY <1>2
<1>6. e.shows \in arrived /\ e.shows.parent = g
  BY <1>3, <1>5 DEF Arrived
<1> QED BY <1>2, <1>4, <1>5, <1>6

LEMMA LoggedStep ==
    ASSUME Logged, [Next]_vars
    PROVE  Logged'
<1>1. CASE UNCHANGED vars
  BY <1>1 DEF vars, Logged
<1>2. ASSUME NEW parent \in 0 .. last, NEW ok \in BOOLEAN, Evaluate(parent, ok) PROVE Logged'
  <2> DEFINE t == [id |-> Cardinality(logged) + 1, gen |-> last + 1,
                   parent |-> parent, ok |-> ok]
  <2>1. Cardinality(logged) \in Nat /\ last \in Nat
    BY FS_CardinalityType DEF Logged
  <2>2. logged' = logged \cup {t} /\ last' = last + 1
    BY <1>2 DEF Evaluate
  <2>3. t \in Transac /\ t.gen = last + 1 /\ t.parent = parent /\ t.parent < t.gen
    BY <2>1 DEF Transac
  <2> HIDE DEF t
  <2>4. \A u \in logged : u \in Transac /\ u.gen # t.gen
    BY <2>1, <2>3 DEF Logged
  <2>5. IsFiniteSet(logged') /\ logged' \in SUBSET Transac /\ last' \in Nat
    BY <2>1, <2>2, <2>3, FS_AddElement DEF Logged
  <2>6. \A u \in logged' : \/ u.gen \in 1 .. last' /\ u.parent < u.gen
                           \/ u.gen = -1 /\ u.parent = 0 /\ ~ u.ok
    BY <2>1, <2>2, <2>3 DEF Logged
  <2>7. \A u, v \in logged' : u.gen > 0 /\ u.gen = v.gen => u = v
    BY <2>2, <2>4 DEF Logged
  <2> QED BY <2>5, <2>6, <2>7 DEF Logged
<1>3. CASE Fail
  <2> DEFINE t == [id |-> Cardinality(logged) + 1, gen |-> -1, parent |-> 0, ok |-> FALSE]
  <2>1. Cardinality(logged) \in Nat
    BY FS_CardinalityType DEF Logged
  <2>2. logged' = logged \cup {t} /\ last' = last
    BY <1>3 DEF Fail
  <2>3. t \in Transac /\ t.gen = -1 /\ t.parent = 0 /\ ~ t.ok
    BY <2>1 DEF Transac
  <2> HIDE DEF t
  <2>4. IsFiniteSet(logged') /\ logged' \in SUBSET Transac
    BY <2>2, <2>3, FS_AddElement DEF Logged
  <2>5. \A u, v \in logged' : u.gen > 0 /\ u.gen = v.gen => u = v
    BY <2>2, <2>3 DEF Logged
  <2> QED BY <2>2, <2>3, <2>4, <2>5 DEF Logged
<1>4. ASSUME NEW t \in logged, Receive(t) PROVE Logged'
  BY <1>4 DEF Receive, Logged
<1>5. CASE Goto
  BY <1>5 DEF Goto, Logged
<1> QED BY <1>1, <1>2, <1>3, <1>4, <1>5 DEF Next

LEMMA TreeStep ==
    ASSUME Logged, Tree, [Next]_vars
    PROVE  Tree'
<1>1. CASE UNCHANGED <<gens, arrived>> /\ logged \subseteq logged'
  BY <1>1 DEF Tree, Arrived
<1>2. CASE UNCHANGED vars
  BY <1>1, <1>2 DEF vars
<1>3. ASSUME NEW parent, NEW ok, Evaluate(parent, ok) PROVE Tree'
  BY <1>1, <1>3 DEF Evaluate
<1>4. CASE Fail
  BY <1>1, <1>4 DEF Fail
<1>5. CASE Goto
  BY <1>1, <1>5 DEF Goto
<1> QED BY <1>2, <1>3, <1>4, <1>5, TreeReceives DEF Next

LEMMA HeadStep ==
    ASSUME Logged, Tree, AtHead, [Next]_vars
    PROVE  AtHead'
<1>1. CASE UNCHANGED <<gotos, head, arrived>>
  BY <1>1 DEF AtHead
<1>2. CASE UNCHANGED vars
  BY <1>1, <1>2 DEF vars
<1>3. ASSUME NEW parent, NEW ok, Evaluate(parent, ok) PROVE AtHead'
  BY <1>1, <1>3 DEF Evaluate
<1>4. CASE Fail
  BY <1>1, <1>4 DEF Fail
<1>5. ASSUME NEW t \in logged, Receive(t) PROVE AtHead'
  <2>1. /\ arrived' = arrived \cup {t} /\ gotos' = gotos
        /\ head' = IF head < t.gen /\ t.ok THEN t.gen ELSE head
    BY <1>5 DEF Receive, HeadAfter
  <2>2. \A u \in arrived \cup {t} : u.gen \in Int
    BY DEF Logged, Tree, Transac
  <2>3. head \in Int
    BY <2>2 DEF AtHead
  <2>4. CASE head < t.gen /\ t.ok
    <3>1. head' = t.gen /\ t \in arrived'
      BY <2>1, <2>4
    <3>2. \A u \in arrived : u.gen <= head => u.gen <= t.gen
      BY <2>2, <2>3, <2>4
    <3> QED BY <2>1, <2>2, <2>4, <3>1, <3>2 DEF AtHead
  <2>5. CASE ~ (head < t.gen /\ t.ok)
    <3>1. head' = head /\ (t.ok => t.gen <= head)
      BY <2>1, <2>2, <2>3, <2>5
    <3> QED BY <2>1, <3>1 DEF AtHead
  <2> QED BY <2>4, <2>5
<1>6. CASE Goto
  <2>1. PICK e \in Entries : head' \in {e.shows.gen, e.shows.parent}
    BY <1>6 DEF Goto
  <2>2. e.shows \in arrived /\ e.shows.parent \in Rooted
    BY EntryFacts
  <2>3. e.shows.parent = 0 \/ \E t \in arrived : t.gen = e.shows.parent
    BY <2>2, DrawnIsRooted DEF Known
  <2>4. gotos' = gotos + 1 /\ arrived' = arrived /\ gotos \in Nat
    BY <1>6 DEF Goto, AtHead
  <2>5. gotos' \in Nat /\ gotos' # 0
    BY <2>4
  <2>6. head' = 0 \/ \E t \in arrived' : t.gen = head'
    BY <2>1, <2>2, <2>3, <2>4
  <2> QED BY <2>5, <2>6 DEF AtHead
<1> QED BY <1>2, <1>3, <1>4, <1>5, <1>6 DEF Next

LEMMA PageInvariant == Spec => []PageInv
<1>1. PageInv /\ [Next]_vars => PageInv'
  BY LoggedStep, TreeStep, HeadStep DEF PageInv
<1> QED BY <1>1, PageStart, PTL DEF Spec

\* However many transactions there are, in whatever order they arrive, how often
\* and with which of them missing, the page draws those whose ancestors have all
\* arrived, each once (mergeInTransaction, Entry).
THEOREM PageShowsWhatArrived == Spec => []TreeShowsWhatArrived
<1>1. PageInv => TreeShowsWhatArrived
  <2> SUFFICES ASSUME PageInv PROVE TreeShowsWhatArrived
    OBVIOUS
  <2> USE DEF PageInv
  <2> DEFINE rooted == {t \in arrived : t.parent \in Rooted}
  <2>1. \A t \in arrived : t \in logged /\ t.gen \in Int /\ (t.gen > 0 \/ (t.gen = -1 /\ t.parent = 0))
    BY DEF Logged, Tree, Transac
  <2>2. \A e \in Entries : e.shows \in rooted
    BY EntryFacts
  <2>3. ASSUME NEW t \in rooted PROVE \E e \in Entries : e.shows.gen = t.gen
    <3>1. PICK c \in ToSet(ChildrenOf(t.parent)) : c.gen = t.gen
      <4>1. ChildrenOf(t.parent) = gens[t.parent]
        BY DEF Tree, ChildrenOf
      <4> QED BY <4>1 DEF Tree
    <3>2. PICK k \in DOMAIN ChildrenOf(t.parent) : ChildrenOf(t.parent)[k] = c
      BY DEF ToSet
    <3> DEFINE e == [at |-> <<t.parent, k>>, shows |-> ChildrenOf(t.parent)[k]]
    <3>3. e \in Entries
      BY DrawnIsRooted DEF Entries
    <3>4. e.shows.gen = t.gen
      BY <3>1, <3>2
    <3> QED BY <3>3, <3>4
  <2>4. ASSUME NEW d \in Entries, NEW e \in Entries, d.shows.gen = e.shows.gen PROVE d = e
    <3>1. PICK g \in Rooted : \E k \in DOMAIN ChildrenOf(g) :
              /\ d = [at |-> <<g, k>>, shows |-> ChildrenOf(g)[k]]
              /\ d.shows = ChildrenOf(g)[k]
              /\ d.shows \in arrived /\ d.shows.parent = g
      BY EntryFacts
    <3>2. PICK k \in DOMAIN ChildrenOf(g) :
              /\ d = [at |-> <<g, k>>, shows |-> ChildrenOf(g)[k]]
              /\ d.shows = ChildrenOf(g)[k]
              /\ d.shows \in arrived /\ d.shows.parent = g
      BY <3>1
    <3>3. PICK h \in Rooted : \E l \in DOMAIN ChildrenOf(h) :
              /\ e = [at |-> <<h, l>>, shows |-> ChildrenOf(h)[l]]
              /\ e.shows = ChildrenOf(h)[l]
              /\ e.shows \in arrived /\ e.shows.parent = h
      BY EntryFacts
    <3>4. PICK l \in DOMAIN ChildrenOf(h) :
              /\ e = [at |-> <<h, l>>, shows |-> ChildrenOf(h)[l]]
              /\ e.shows = ChildrenOf(h)[l]
              /\ e.shows \in arrived /\ e.shows.parent = h
      BY <3>3
    <3>5. g = h
      <4>1. CASE d.shows.gen > 0
        <5>1. d.shows = e.shows
          BY <2>1, <2>4, <3>2, <3>4, <4>1 DEF Logged
        <5> QED BY <3>2, <3>4, <5>1
      <4>2. CASE ~ (d.shows.gen > 0)
        BY <2>1, <2>4, <3>2, <3>4, <4>2
      <4> QED BY <4>1, <4>2
    <3>6. k = l
      <4>1. ApartIn(ChildrenOf(g))
        BY Children
      <4> QED BY <2>4, <3>2, <3>4, <3>5, <4>1 DEF ApartIn
    <3> QED BY <3>2, <3>4, <3>5, <3>6
  <2>5. {e.shows : e \in {d \in Entries : d.shows.gen > 0}} = {t \in rooted : t.gen > 0}
    <3>1. ASSUME NEW t \in rooted, t.gen > 0
          PROVE  \E e \in Entries : e.shows.gen > 0 /\ e.shows = t
      <4>1. PICK e \in Entries : e.shows.gen = t.gen
        BY <2>3
      <4>2. e.shows \in logged /\ t \in logged
        BY <2>1, <2>2
      <4>3. e.shows = t
        BY <3>1, <4>1, <4>2 DEF Logged
      <4> QED BY <3>1, <4>1, <4>3
    <3> QED BY <2>2, <3>1
  <2>6. {e.shows.gen : e \in Entries} = {t.gen : t \in rooted}
    BY <2>2, <2>3
  <2> QED BY <2>4, <2>5, <2>6 DEF TreeShowsWhatArrived
<1> QED BY <1>1, PageInvariant, PTL

\* Until the user moves it the head is at the newest success that has arrived,
\* whatever arrives when (mergeInTransaction, query.js:79).
THEOREM HeadFollowsSuccess == Spec => []HeadIsNewest
<1>1. PageInv => HeadIsNewest
  <2> SUFFICES ASSUME PageInv, gotos = 0
               PROVE  LET ok == {t \in arrived : t.ok}
                      IN  head = IF ok = {} THEN 0
                                 ELSE CHOOSE g \in {t.gen : t \in ok} : \A t \in ok : t.gen <= g
    BY DEF HeadIsNewest
  <2> DEFINE ok == {t \in arrived : t.ok}
  <2>1. /\ \A t \in ok : t.gen <= head
        /\ head = 0 \/ \E t \in ok : t.gen = head
    BY DEF PageInv, AtHead
  <2>2. \A t \in ok : t.gen \in Nat /\ t.gen > 0
    BY DEF PageInv, Logged, Tree
  <2> DEFINE newest == CHOOSE g \in {t.gen : t \in ok} : \A t \in ok : t.gen <= g
  <2>3. ok = {} => head = 0
    BY <2>1
  <2>4. ASSUME ok # {} PROVE head = newest
    <3> HIDE DEF ok
    <3>1. head \in {t.gen : t \in ok} /\ head \in Nat
      BY <2>1, <2>2, <2>4
    <3>2. ASSUME NEW g \in {t.gen : t \in ok}, \A t \in ok : t.gen <= g PROVE g = head
      <4>1. g <= head /\ head <= g /\ g \in Nat
        BY <2>1, <2>2, <3>1, <3>2
      <4> QED BY <3>1, <4>1
    <3> QED BY <2>1, <3>1, <3>2
  <2> QED BY <2>3, <2>4
<1> QED BY <1>1, PageInvariant, PTL

\* The input box is drawn unless an ancestor of the head has not arrived.
THEOREM InputBoxIsThere == Spec => []InputIsDrawn
<1>1. PageInv => InputIsDrawn
  BY DrawnIsRooted DEF PageInv, AtHead, InputIsDrawn
<1> QED BY <1>1, PageInvariant, PTL
=============================================================================
