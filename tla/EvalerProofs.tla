----------------------------- MODULE EvalerProofs -----------------------------
(***************************************************************************)
(* Proofs about what an evaler keeps, for every size of the file, number   *)
(* of slots and number of generations.                                     *)
(*                                                                         *)
(* First what later steps of the heap keep of an older version and of the  *)
(* table of protections.  Then the driver is shown to use the heap only    *)
(* the way SnapHeap says, so that what is proved of the heap holds of      *)
(* every behaviour of an evaler, and the versions it commits are followed. *)
(***************************************************************************)
EXTENDS Evaler, HeapProofs

USE NumFramesAssumption, SnapAssumption, NullAssumption

-----------------------------------------------------------------------------
(***************************************************************************)
(* What later steps keep of an older version                               *)
(*                                                                         *)
(* Walks up to an id g are compared between two trees that differ only in  *)
(* generations younger than g, or in a node put between others: what a walk *)
(* meets, and with it what a checkout of g finds, is the same.             *)
(***************************************************************************)

\* Two trees that are alike in the generations up to max.
Agree(gs, new, max) ==
    \A i \in Nodes : gs[i] # Null =>
        /\ new[i] # Null
        /\ new[i].gen > max <=> gs[i].gen > max
        /\ ~ (gs[i].gen > max) => new[i].c = gs[i].c

LEMMA AgreeWalk ==
    ASSUME NEW gs, Closed(gs), NEW new, Closed(new), NEW max, Agree(gs, new, max),
           NEW i \in Nodes, gs[i] # Null
    PROVE  Walk(new, i, max, "page") = Walk(gs, i, max, "page")
<1> DEFINE x == [todo |-> <<GenRef(i)>>, met |-> <<>>]
           U == Walking(gs)
           V == Walking(new)
           F == Visit(gs, max, "page")
           G == Visit(new, max, "page")
           R == {uv \in WalkState \X WalkState : uv[1] = uv[2]}
<1>1. PICK u \in Walks(gs, i, max, "page") : Walk(gs, i, max, "page") = u[Visits].met
  BY WalkIs
<1>2. PICK v \in Walks(new, i, max, "page") : Walk(new, i, max, "page") = v[Visits].met
  BY WalkIs DEF Agree
<1>3. <<x, x>> \in R
  <2>1. <<GenRef(i)>> \in Seq(Ref) /\ <<>> \in Seq(Nat)
    BY DEF GenRef, Ref
  <2> QED BY <2>1 DEF WalkState
<1>4. Together(U, F, V, G, R)
  <2> SUFFICES ASSUME NEW a \in U, NEW b \in V, <<a, b>> \in R PROVE <<F[a], G[b]>> \in R
    BY DEF Together
  <2>1. a = b /\ a \in WalkState /\ a.todo \in Seq(Ref)
    BY DEF Walking, WalkState
  <2>2. F[a] \in WalkState /\ G[b] \in WalkState
    BY VisitStays DEF Walking
  <2> DEFINE ref == Head(a.todo)
  <2>3. CASE a.todo = <<>>
    BY <2>1, <2>2, <2>3 DEF Visit
  <2>4. CASE a.todo # <<>>
    <3>1. ref \in Ref /\ ref = a.todo[1] /\ 1 \in DOMAIN a.todo
      BY <2>1, <2>4, HeadTailProperties, LenProperties, EmptySeq
    <3>2. ref.type = "generation" => ref.at \in Nodes /\ gs[ref.at] # Null
      BY <3>1 DEF Walking, Ref
    <3> HIDE DEF ref
    <3>3. ref.type = "generation" =>
             /\ new[ref.at].gen > max <=> gs[ref.at].gen > max
             /\ ~ (gs[ref.at].gen > max) => new[ref.at].c = gs[ref.at].c
      BY <3>2 DEF Agree
    <3>4. F[a] = G[b]
      BY <2>1, <2>4, <3>3 DEF Visit, ref
    <3> QED BY <2>2, <3>4
  <2> QED BY <2>3, <2>4
<1>5. u \in Iterates(U, F, x, Visits) /\ v \in Iterates(V, G, x, Visits) /\ Visits \in Nat
  BY <1>1, <1>2, VisitsType DEF Walks
<1>6. \A n \in 0 .. Visits : <<u[n], v[n]>> \in R
  <2> HIDE DEF U, V, F, G, R, x
  <2> QED BY <1>3, <1>4, <1>5, IteratesStayTogether, Zenon
<1>7. u[Visits] = v[Visits]
  <2>1. Visits \in 0 .. Visits
    BY <1>5
  <2>2. <<u[Visits], v[Visits]>> \in R
    <3> HIDE DEF R
    <3> QED BY <1>6, <2>1
  <2> QED BY <2>2
<1>8. u[Visits].met = v[Visits].met
  BY <1>7
<1> QED BY <1>1, <1>2, <1>8, Zenon

-----------------------------------------------------------------------------
\* A step of G is matched by one of F or by none.
Lags(U, F, V, G, R) ==
    \A u \in U, t \in V : <<u, t>> \in R => <<u, G[t]>> \in R \/ <<F[u], G[t]>> \in R

\* Each state of v is matched by one of w, none of which is beyond it.
Behind(w, v, N, R) == \A n \in 0 .. N : \E m \in 0 .. n : <<w[m], v[n]>> \in R

LEMMA IteratesLag ==
    ASSUME NEW U, NEW F, NEW x, NEW V, NEW G, NEW y, NEW N \in Nat, NEW w, NEW v, NEW R,
           w \in Iterates(U, F, x, N), v \in Iterates(V, G, y, N),
           <<x, y>> \in R, Lags(U, F, V, G, R)
    PROVE  Behind(w, v, N, R)
<1> SUFFICES \A n \in 0 .. N : \E m \in 0 .. n : <<w[m], v[n]>> \in R
  BY DEF Behind
<1>1. /\ w \in [0 .. N -> U] /\ w[0] = x
      /\ \A n \in 1 .. N : w[n] = F[w[n - 1]]
      /\ v \in [0 .. N -> V] /\ v[0] = y
      /\ \A n \in 1 .. N : v[n] = G[v[n - 1]]
  BY DEF Iterates
<1> DEFINE Met(n) == \E m \in 0 .. n : <<w[m], v[n]>> \in R
           S == {n \in 0 .. N : ~ Met(n)}
<1>2. SUFFICES ASSUME S # {} PROVE FALSE
  OBVIOUS
<1>3. PICK n \in S : \A k \in S : n <= k
  <2>1. S \in SUBSET Nat
    OBVIOUS
  <2> QED BY <1>2, <2>1, Least
<1>4. n # 0
  BY <1>1, <1>3
<1>5. n - 1 \in 0 .. N /\ n \in 1 .. N /\ n - 1 \notin S
  BY <1>3, <1>4
<1>6. PICK m \in 0 .. n - 1 : <<w[m], v[n - 1]>> \in R
  BY <1>5
<1>7. w[m] \in U /\ v[n - 1] \in V /\ m \in 0 .. N /\ m + 1 \in 0 .. n /\ m + 1 \in 1 .. N /\ m \in 0 .. n
      /\ (m + 1) - 1 = m
  BY <1>1, <1>5, <1>6
<1>8. <<w[m], G[v[n - 1]]>> \in R \/ <<F[w[m]], G[v[n - 1]]>> \in R
  BY <1>6, <1>7 DEF Lags
<1>9. v[n] = G[v[n - 1]] /\ w[m + 1] = F[w[m]]
  BY <1>1, <1>5, <1>7
<1>10. <<w[m], v[n]>> \in R \/ <<w[m + 1], v[n]>> \in R
  BY <1>8, <1>9
<1>11. Met(n)
  BY <1>7, <1>10
<1> QED BY <1>3, <1>11

\* What a step of F leaves as it is stays.
LEMMA IteratesRest ==
    ASSUME NEW U, NEW F, NEW x, NEW N \in Nat, NEW w \in Iterates(U, F, x, N),
           NEW m \in 0 .. N, F[w[m]] = w[m]
    PROVE  \A n \in m .. N : w[n] = w[m]
<1>1. \A n \in 1 .. N : w[n] = F[w[n - 1]]
  BY DEF Iterates
<1> DEFINE S == {n \in m .. N : w[n] # w[m]}
<1>2. SUFFICES ASSUME S # {} PROVE FALSE
  OBVIOUS
<1>3. PICK n \in S : \A k \in S : n <= k
  <2>1. S \in SUBSET Nat
    OBVIOUS
  <2> QED BY <1>2, <2>1, Least
<1>4. n # m /\ n - 1 \in m .. N /\ n \in 1 .. N /\ n - 1 \notin S
  BY <1>3
<1>5. w[n - 1] = w[m]
  BY <1>4
<1> QED BY <1>1, <1>3, <1>4, <1>5

-----------------------------------------------------------------------------
\* The nodes some slot holds, and the one a walk starts from.
HeldIn(gs, s) == {GenRef(s)} \cup UNION {Children(gs, i) : i \in Made(gs)}

\* There are no more of them than slots, and the start.
LEMMA HeldFit ==
    ASSUME NEW gs \in GensType, NEW P \in SUBSET Frames, Form(gs, P), NEW s
    PROVE  IsFiniteSet(HeldIn(gs, s)) /\ Cardinality(HeldIn(gs, s)) <= Visits
<1> DEFINE slots == Nodes \X (1 .. GENERATION_CHILDREN)
           held  == [t \in slots |-> IF gs[t[1]] # Null /\ t[2] \in DOMAIN gs[t[1]].c
                                     THEN gs[t[1]].c[t[2]] ELSE GenRef(s)]
           refs  == {held[t] : t \in slots}
<1>1. IsFiniteSet(Nodes) /\ Cardinality(Nodes) = MaxNodes
  <2>1. 0 \in Int /\ MaxNodes - 1 \in Int /\ ~ (0 > MaxNodes - 1) /\ (MaxNodes - 1) - 0 + 1 = MaxNodes
    OBVIOUS
  <2> QED BY <2>1, FS_Interval DEF Nodes
<1>2. /\ IsFiniteSet(1 .. GENERATION_CHILDREN)
      /\ Cardinality(1 .. GENERATION_CHILDREN) = GENERATION_CHILDREN
  <2>1. /\ 1 \in Int /\ GENERATION_CHILDREN \in Int /\ ~ (1 > GENERATION_CHILDREN)
        /\ GENERATION_CHILDREN - 1 + 1 = GENERATION_CHILDREN
    OBVIOUS
  <2> QED BY <2>1, FS_Interval
<1>3. IsFiniteSet(slots) /\ Cardinality(slots) = MaxNodes * GENERATION_CHILDREN
  BY <1>1, <1>2, FS_Product
<1>4. IsFiniteSet(refs) /\ Cardinality(refs) <= Cardinality(slots)
  <2>1. held \in Surjection(slots, refs)
    <3> HIDE DEF slots
    <3> QED BY DEF Surjection
  <2> HIDE DEF held, refs, slots
  <2> QED BY <1>3, <2>1, FS_Surjection
<1>5. Cardinality(refs) \in Nat /\ Cardinality(slots) \in Nat
  <2> HIDE DEF slots, refs
  <2> QED BY <1>3, <1>4, FS_CardinalityType
<1>6. /\ IsFiniteSet(refs \cup {GenRef(s)})
      /\ Cardinality(refs \cup {GenRef(s)}) <= Cardinality(refs) + 1
      /\ Cardinality(refs \cup {GenRef(s)}) \in Nat
  <2> DEFINE more == refs \cup {GenRef(s)}
  <2> HIDE DEF refs
  <2>1. IsFiniteSet(more)
    BY <1>4, FS_AddElement
  <2>2. Cardinality(more) = IF GenRef(s) \in refs THEN Cardinality(refs) ELSE Cardinality(refs) + 1
    BY <1>4, FS_AddElement
  <2> HIDE DEF more
  <2>3. Cardinality(more) <= Cardinality(refs) + 1 /\ Cardinality(more) \in Nat
    BY <1>5, <2>2
  <2> QED BY <2>1, <2>3 DEF more
<1>7. ASSUME NEW i \in Made(gs), NEW r \in Children(gs, i) PROVE r \in refs
  <2>1. gs[i].c \in Seq(Ref) /\ i \in Nodes /\ gs[i] # Null
    BY DEF Made, GensType, Generation
  <2>2. PICK k \in DOMAIN gs[i].c : r = gs[i].c[k]
    BY DEF Children, ToSet
  <2>3. k \in 1 .. GENERATION_CHILDREN
    <3>1. DOMAIN gs[i].c = 1 .. Len(gs[i].c) /\ Len(gs[i].c) \in Nat
      BY <2>1, LenProperties
    <3>2. Len(gs[i].c) <= GENERATION_CHILDREN
      BY DEF Form
    <3> QED BY <3>1, <3>2
  <2>4. <<i, k>> \in slots /\ held[<<i, k>>] = r
    BY <2>1, <2>2, <2>3
  <2> HIDE DEF slots, held
  <2> QED BY <2>4
<1>8. HeldIn(gs, s) \subseteq refs \cup {GenRef(s)}
  <2> HIDE DEF refs
  <2> QED BY <1>7 DEF HeldIn
<1>9. IsFiniteSet(HeldIn(gs, s)) /\ Cardinality(HeldIn(gs, s)) <= Cardinality(refs \cup {GenRef(s)})
      /\ Cardinality(HeldIn(gs, s)) \in Nat
  <2> HIDE DEF refs
  <2> QED BY <1>6, <1>8, FS_Subset, FS_CardinalityType
<1>10. Visits = MaxNodes * GENERATION_CHILDREN + 1
  BY DEF Visits
<1> HIDE DEF refs, slots
<1>11. MaxNodes * GENERATION_CHILDREN \in Nat
  BY <1>3, <1>5
<1> DEFINE prod == MaxNodes * GENERATION_CHILDREN
<1> HIDE DEF prod
<1>12. /\ Visits = prod + 1 /\ prod \in Nat /\ Cardinality(slots) = prod
       /\ Cardinality(refs) <= prod
  BY <1>3, <1>4, <1>10, <1>11 DEF prod
<1> QED BY <1>5, <1>6, <1>9, <1>12

\* A walk that has called back for V: V and what it has still to visit are
\* held, and nothing is called back for twice.
Called(gs, s, w, V) ==
    /\ V \in SUBSET HeldIn(gs, s)
    /\ IsInjective(w.todo) /\ ToSet(w.todo) \subseteq HeldIn(gs, s) \ V
    /\ \A i \in Made(gs) : \A r \in Children(gs, i) :
          r \in V \cup ToSet(w.todo) => GenRef(i) \in V

LEMMA CalledStep ==
    ASSUME NEW gs, Closed(gs), NEW P \in SUBSET Frames, Form(gs, P), NEW max,
           NEW s, NEW type, NEW w \in Walking(gs), NEW V, Called(gs, s, w, V), w.todo # <<>>
    PROVE  /\ Head(w.todo) \in HeldIn(gs, s) \ V
           /\ Called(gs, s, Visit(gs, max, type)[w], V \cup {Head(w.todo)})
<1> DEFINE ref   == Head(w.todo)
           rest  == Tail(w.todo)
           todo  == ToSet(w.todo)
           open  == ref.type = "generation" /\ ~ (gs[ref.at].gen > max)
           below == IF open THEN gs[ref.at].c ELSE <<>>
           u     == Visit(gs, max, type)[w]
           V2    == V \cup {ref}
           held  == HeldIn(gs, s)
<1>1. w \in WalkState /\ w.todo \in Seq(Ref)
  BY DEF Walking, WalkState
<1>2. /\ ref \in Ref /\ rest \in Seq(Ref) /\ ref = w.todo[1] /\ 1 \in DOMAIN w.todo
      /\ ref \in todo /\ ToSet(rest) = todo \ {ref} /\ IsInjective(rest)
  <2>1. ref \in Ref /\ rest \in Seq(Ref) /\ ref = w.todo[1] /\ 1 \in DOMAIN w.todo
    BY <1>1, HeadTailProperties, LenProperties, EmptySeq
  <2>2. IsInjective(w.todo)
    BY DEF Called
  <2>3. ref \in todo /\ ToSet(rest) = todo \ {ref} /\ IsInjective(rest)
    BY <1>1, <2>2, HeadAside
  <2> QED BY <2>1, <2>3
<1>3. /\ V \subseteq held /\ todo \subseteq held \ V
      /\ \A i \in Made(gs) : \A r \in Children(gs, i) : r \in V \cup todo => GenRef(i) \in V
  BY DEF Called
<1>4. ref \in held \ V
  BY <1>2, <1>3
<1>5. gs \in GensType
  BY DEF Closed
<1>6. ref.type = "generation" => ref.at \in Made(gs) /\ ref = GenRef(ref.at)
  BY <1>2 DEF Walking, Made, Ref, GenRef
<1>7. u.todo = below \o rest
  <2>1. rest = <<>> \o rest
    BY <1>2, ConcatEmptySeq
  <2> QED BY <1>1, <2>1 DEF Visit
<1> HIDE DEF ref, rest, todo, u, held
<1>8. /\ below \in Seq(Ref) /\ IsInjective(below)
      /\ \A r \in ToSet(below) : ref.type = "generation" /\ r \in Children(gs, ref.at)
  <2>1. CASE open
    <3>1. gs[ref.at].c \in Seq(Ref)
      BY <1>5, <1>6, <2>1 DEF Made, GensType, Generation
    <3> QED BY <1>6, <2>1, <3>1 DEF Form, Children
  <2>2. CASE ~ open
    <3>1. <<>> \in Seq(Ref) /\ IsInjective(<<>>) /\ ToSet(<<>>) = {}
      BY EmptySeq DEF IsInjective, ToSet
    <3> QED BY <2>2, <3>1
  <2> QED BY <2>1, <2>2
<1> HIDE DEF below, open
<1>9. ASSUME NEW r \in ToSet(below)
      PROVE  r \in held /\ r \notin V \cup todo /\ ref = GenRef(ref.at) /\ ref.at \in Made(gs)
             /\ r \in Children(gs, ref.at)
  <2>1. r \in Children(gs, ref.at) /\ ref.at \in Made(gs) /\ ref = GenRef(ref.at)
    BY <1>6, <1>8
  <2>2. r \in held
    BY <2>1 DEF HeldIn, held
  <2>3. r \notin V \cup todo
    BY <1>3, <1>4, <2>1
  <2> QED BY <2>1, <2>2, <2>3
<1>10. /\ ToSet(u.todo) = ToSet(below) \cup (todo \ {ref})
       /\ IsInjective(u.todo)
  <2>1. u.todo = below \o rest
    BY <1>7
  <2>2. ToSet(below) \cap ToSet(rest) = {}
    BY <1>2, <1>9
  <2>3. ToSet(below \o rest) = ToSet(below) \cup ToSet(rest)
    BY <1>2, <1>8, BothApart
  <2>4. IsInjective(below \o rest)
    BY <1>2, <1>8, <2>2, BothApart
  <2> QED BY <1>2, <2>1, <2>3, <2>4
<1>11. V2 \cup ToSet(u.todo) = V \cup todo \cup ToSet(below)
  BY <1>2, <1>10
<1>12. V2 \subseteq held /\ ToSet(u.todo) \subseteq held \ V2
  BY <1>2, <1>3, <1>4, <1>9, <1>10
<1>13. ASSUME NEW i \in Made(gs), NEW r \in Children(gs, i), r \in V2 \cup ToSet(u.todo)
       PROVE  GenRef(i) \in V2
  <2>1. CASE r \in V \cup todo
    BY <1>3, <2>1
  <2>2. CASE r \in ToSet(below)
    <3>1. ref = GenRef(ref.at) /\ ref.at \in Made(gs) /\ r \in Children(gs, ref.at)
      BY <1>9, <2>2
    <3>2. ref.at = i
      BY <3>1 DEF Form
    <3> QED BY <3>1, <3>2
  <2> QED BY <1>11, <1>13, <2>1, <2>2
<1> HIDE DEF V2
<1>14. Called(gs, s, u, V2)
  BY <1>10, <1>12, <1>13 DEF Called, held
<1> QED BY <1>4, <1>14 DEF u, V2, ref, held

\* A walk, one call back after the other.
CalledSoFar(gs, s, w, n) ==
    \E V \in SUBSET HeldIn(gs, s) : Called(gs, s, w, V) /\ (w.todo # <<>> => Cardinality(V) = n)
CalledUpTo(gs, s) == {wn \in WalkState \X Nat : CalledSoFar(gs, s, wn[1], wn[2])}

\* However torn the tree is, a walk from what nothing holds, like the root, is over
\* after as many call backs as Visits.
LEMMA WalkEnds ==
    ASSUME NEW gs, Closed(gs), NEW P \in SUBSET Frames, Form(gs, P),
           NEW s \in Made(gs), \A i \in Made(gs) : GenRef(s) \notin Children(gs, i),
           NEW max, NEW type, NEW w \in Walks(gs, s, max, type)
    PROVE  w[Visits] \in Walking(gs) /\ w[Visits].todo = <<>>
<1> DEFINE held == HeldIn(gs, s)
           U    == Walking(gs)
           F    == Visit(gs, max, type)
           x    == [todo |-> <<GenRef(s)>>, met |-> <<>>]
           G    == [n \in Nat |-> n + 1]
           R    == CalledUpTo(gs, s)
           v    == [n \in 0 .. Visits |-> n]
<1>1. gs \in GensType /\ s \in Nodes /\ Visits \in Nat
  BY VisitsType DEF Closed, Made
<1>2. IsFiniteSet(held) /\ Cardinality(held) <= Visits /\ Cardinality(held) \in Nat
  BY <1>1, HeldFit, FS_CardinalityType
<1>3. w \in Iterates(U, F, x, Visits)
  BY DEF Walks
<1>4. v \in Iterates(Nat, G, 0, Visits)
  <2>1. v \in [0 .. Visits -> Nat] /\ v[0] = 0
    BY <1>1
  <2>2. \A n \in 1 .. Visits : v[n] = n /\ v[n - 1] = n - 1 /\ n - 1 \in Nat /\ (n - 1) + 1 = n
    BY <1>1
  <2>3. \A n \in 1 .. Visits : v[n] = G[v[n - 1]]
    BY <2>2
  <2> HIDE DEF v, G
  <2> QED BY <2>1, <2>3 DEF Iterates
<1>5. <<x, 0>> \in R
  <2>1. <<GenRef(s)>> \in Seq(Ref) /\ <<>> \in Seq(Nat)
    BY <1>1 DEF GenRef, Ref
  <2>2. x \in WalkState
    BY <2>1 DEF WalkState
  <2>3. IsInjective(x.todo) /\ ToSet(x.todo) = {GenRef(s)}
    BY DEF IsInjective, ToSet
  <2>4. GenRef(s) \in held
    BY DEF HeldIn
  <2>5. \A i \in Made(gs) : \A r \in Children(gs, i) : r # GenRef(s)
    OBVIOUS
  <2>6. Cardinality({}) = 0
    BY FS_EmptySet
  <2>7. Called(gs, s, x, {})
    <3> HIDE DEF x
    <3> QED BY <2>3, <2>4, <2>5 DEF Called
  <2> HIDE DEF x
  <2> QED BY <2>2, <2>6, <2>7 DEF CalledUpTo, CalledSoFar
<1>13. \A a, n : <<a, n>> \in R =>
          \E V \in SUBSET held : Called(gs, s, a, V) /\ (a.todo # <<>> => Cardinality(V) = n)
  <2> HIDE DEF x, F, G, U, v
  <2>1. \A a, n : <<a, n>> \in R => CalledSoFar(gs, s, a, n)
    BY DEF CalledUpTo
  <2> QED BY <2>1, Zenon DEF CalledSoFar
<1>6. Together(U, F, Nat, G, R)
  <2> SUFFICES ASSUME NEW a \in U, NEW n \in Nat, <<a, n>> \in R PROVE <<F[a], G[n]>> \in R
    BY DEF Together
  <2>1. PICK V \in SUBSET held : /\ Called(gs, s, a, V)
                                 /\ a.todo # <<>> => Cardinality(V) = n
    <3> HIDE DEF x, F, G
    <3> QED BY <1>13
  <2>2. F[a] \in WalkState /\ G[n] \in Nat /\ G[n] = n + 1
    BY VisitStays DEF Walking
  <2>3. CASE a.todo = <<>>
    <3>1. F[a] = a
      BY <2>3 DEF Visit, Walking
    <3> HIDE DEF F, G
    <3> QED BY <2>1, <2>2, <2>3, <3>1 DEF CalledUpTo, CalledSoFar
  <2>4. CASE a.todo # <<>>
    <3> DEFINE ref == Head(a.todo)
    <3>1. ref \in held \ V /\ Called(gs, s, F[a], V \cup {ref})
      BY <2>1, <2>4, CalledStep
    <3> HIDE DEF ref, F, G
    <3>2. Cardinality(V \cup {ref}) = n + 1
      <4>1. IsFiniteSet(V)
        BY <1>2, FS_Subset
      <4> QED BY <2>1, <2>4, <3>1, <4>1, FS_AddElement
    <3>3. V \cup {ref} \in SUBSET held
      BY <3>1
    <3> QED BY <2>2, <3>1, <3>2, <3>3 DEF CalledUpTo, CalledSoFar
  <2> QED BY <2>3, <2>4
<1>7. \A n \in 0 .. Visits : <<w[n], v[n]>> \in R
  <2> HIDE DEF U, F, G, R, v, x
  <2> QED BY <1>1, <1>3, <1>4, <1>5, <1>6, IteratesStayTogether, Zenon
<1>8. <<w[Visits], Visits>> \in R
  BY <1>1, <1>7
<1> DEFINE end == w[Visits]
<1> HIDE DEF end
<1>9. PICK V \in SUBSET held : /\ Called(gs, s, end, V)
                               /\ end.todo # <<>> => Cardinality(V) = Visits
  <2> HIDE DEF R, x, F, G, U, v
  <2> QED BY <1>13, <1>8 DEF end
<1>10. end \in Walking(gs)
  BY <1>1, <1>3 DEF Iterates, end
<1>11. end.todo = <<>>
  <2> SUFFICES ASSUME end.todo # <<>> PROVE FALSE
    OBVIOUS
  <2> DEFINE ref == Head(end.todo)
  <2>1. ref \in held \ V
    BY <1>9, <1>10, CalledStep
  <2> HIDE DEF ref
  <2>2. IsFiniteSet(V) /\ Cardinality(V \cup {ref}) = Visits + 1
    <3>1. IsFiniteSet(V)
      BY <1>2, FS_Subset
    <3> QED BY <1>9, <2>1, <3>1, FS_AddElement
  <2>3. V \cup {ref} \in SUBSET held
    BY <2>1
  <2>4. Cardinality(V \cup {ref}) <= Cardinality(held)
    BY <1>2, <2>3, FS_Subset
  <2> QED BY <1>1, <1>2, <2>2, <2>4
<1> QED BY <1>10, <1>11 DEF end

-----------------------------------------------------------------------------
\* Walks that end alike: the new one goes on until it is over, and the old one
\* is never further than it.
LEMMA LagWalk ==
    ASSUME NEW gs, Closed(gs), gs[root] # Null, NEW new, Closed(new), new[root] # Null,
           NEW P \in SUBSET Frames, Form(new, P), NEW max, NEW R,
           Lags(Walking(gs), Visit(gs, max, "page"), Walking(new), Visit(new, max, "page"), R),
           <<[todo |-> <<GenRef(root)>>, met |-> <<>>], [todo |-> <<GenRef(root)>>, met |-> <<>>]>> \in R,
           \A u \in Walking(gs), v \in Walking(new) :
              <<u, v>> \in R => u.met = v.met /\ (v.todo = <<>> => u.todo = <<>>)
    PROVE  Walk(new, root, max, "page") = Walk(gs, root, max, "page")
<1> DEFINE x == [todo |-> <<GenRef(root)>>, met |-> <<>>]
           U == Walking(gs)
           V == Walking(new)
           F == Visit(gs, max, "page")
           G == Visit(new, max, "page")
<1>1. root \in Nodes /\ Visits \in Nat
  BY VisitsType DEF root, Nodes
<1>2. PICK u \in Walks(gs, root, max, "page") : Walk(gs, root, max, "page") = u[Visits].met
  BY <1>1, WalkIs
<1>3. PICK v \in Walks(new, root, max, "page") : Walk(new, root, max, "page") = v[Visits].met
  BY <1>1, WalkIs
<1>4. u \in Iterates(U, F, x, Visits) /\ v \in Iterates(V, G, x, Visits)
  BY <1>2, <1>3 DEF Walks
<1>5. Lags(U, F, V, G, R) /\ <<x, x>> \in R
  OBVIOUS
<1>6. v[Visits].todo = <<>>
  <2>1. root \in Made(new) /\ \A i \in Made(new) : GenRef(root) \notin Children(new, i)
    BY <1>1 DEF Made, Form
  <2> QED BY <1>3, <2>1, WalkEnds
<1>7. \A n \in 0 .. Visits : u[n] \in U /\ v[n] \in V
  BY <1>4 DEF Iterates
<1>8. \A a \in U : a.todo = <<>> => F[a] = a
  BY DEF Walking, Visit
<1>9. \A a \in U, b \in V : <<a, b>> \in R => a.met = b.met /\ (b.todo = <<>> => a.todo = <<>>)
  OBVIOUS
<1> HIDE DEF U, F, V, G, x
<1>10. Behind(u, v, Visits, R)
  <2>1. Visits \in Nat
    BY <1>1
  <2>2. u \in Iterates(U, F, x, Visits)
    BY <1>4
  <2>3. v \in Iterates(V, G, x, Visits)
    BY <1>4
  <2>4. <<x, x>> \in R
    BY <1>5
  <2>5. Lags(U, F, V, G, R)
    BY <1>5
  <2> QED BY <2>1, <2>2, <2>3, <2>4, <2>5, IteratesLag, Zenon
<1>11. PICK m \in 0 .. Visits : <<u[m], v[Visits]>> \in R
  BY <1>1, <1>10 DEF Behind
<1>12. u[m].met = v[Visits].met /\ u[m].todo = <<>>
  BY <1>1, <1>6, <1>7, <1>9, <1>11
<1>13. F[u[m]] = u[m]
  BY <1>7, <1>8, <1>12
<1>14. \A n \in m .. Visits : u[n] = u[m]
  BY <1>1, <1>4, <1>13, IteratesRest
<1>15. u[Visits] = u[m]
  BY <1>1, <1>14
<1> QED BY <1>2, <1>3, <1>12, <1>15

\* What a call back for the next node to visit leads to.
LEMMA VisitIs ==
    ASSUME NEW gs, Closed(gs), NEW max, NEW w \in Walking(gs), w.todo # <<>>
    PROVE  LET ref  == Head(w.todo)
               rest == Tail(w.todo)
               u    == Visit(gs, max, "page")[w]
           IN  /\ ref \in Ref /\ rest \in Seq(Ref) /\ w.met \in Seq(Nat)
               /\ ref.type = "generation" =>
                     /\ ref.at \in Nodes /\ gs[ref.at] # Null /\ gs[ref.at].c \in Seq(Ref)
                     /\ u.met = w.met
                     /\ u.todo = IF gs[ref.at].gen > max THEN rest ELSE gs[ref.at].c \o rest
               /\ ref.type # "generation" =>
                     /\ ref.type = "page" /\ ref.at \in Frames
                     /\ u.met = Append(w.met, ref.at)
                     /\ u.todo = rest
<1> DEFINE ref  == Head(w.todo)
           rest == Tail(w.todo)
           u    == Visit(gs, max, "page")[w]
<1>1. w \in WalkState /\ w.todo \in Seq(Ref) /\ w.met \in Seq(Nat)
  BY DEF Walking, WalkState
<1>2. ref \in Ref /\ rest \in Seq(Ref) /\ ref = w.todo[1] /\ 1 \in DOMAIN w.todo
  BY <1>1, HeadTailProperties, LenProperties, EmptySeq
<1>3. /\ ref.type = "generation" /\ gs[ref.at].gen > max => u = [todo |-> rest, met |-> w.met]
      /\ ref.type = "generation" /\ ~ (gs[ref.at].gen > max) =>
            u = [todo |-> gs[ref.at].c \o rest, met |-> w.met]
      /\ ref.type = "page" => u = [todo |-> <<>> \o rest, met |-> Append(w.met, ref.at)]
  BY <1>1 DEF Visit
<1>4. <<>> \o rest = rest
  BY <1>2, ConcatEmptySeq
<1> HIDE DEF ref, rest, u
<1>5. ref.type = "generation" =>
        ref.at \in Nodes /\ gs[ref.at] # Null /\ gs[ref.at].c \in Seq(Ref)
  BY <1>2 DEF Walking, Ref, Closed, GensType, Generation
<1>6. ref.type # "generation" => ref.type = "page" /\ ref.at \in Frames
  BY <1>2 DEF Ref
<1>7. ASSUME ref.type = "generation"
      PROVE  u.met = w.met /\ u.todo = IF gs[ref.at].gen > max THEN rest ELSE gs[ref.at].c \o rest
  <2>1. CASE gs[ref.at].gen > max
    BY <1>3, <1>7, <2>1
  <2>2. CASE ~ (gs[ref.at].gen > max)
    <3> DEFINE both == gs[ref.at].c \o rest
    <3> HIDE DEF both
    <3>1. u = [todo |-> both, met |-> w.met]
      BY <1>3, <1>7, <2>2, Zenon DEF both
    <3>2. u.met = w.met /\ u.todo = both
      BY <3>1
    <3> QED BY <2>2, <3>2, Zenon DEF both
  <2> QED BY <2>1, <2>2
<1>8. ref.type # "generation" => u.met = Append(w.met, ref.at) /\ u.todo = rest
  BY <1>3, <1>4, <1>6
<1> QED BY <1>1, <1>2, <1>5, <1>6, <1>7, <1>8 DEF ref, rest, u

\* A sequence with one more element in front.
LEMMA HeadOfOne ==
    ASSUME NEW S, NEW e \in S, NEW s \in Seq(S)
    PROVE  /\ <<e>> \o s # <<>>
           /\ Head(<<e>> \o s) = e
           /\ Tail(<<e>> \o s) = s
<1> DEFINE b == <<e>> \o s
           t == Tail(b)
<1>1. <<e>> \in Seq(S) /\ Len(<<e>>) = 1 /\ <<e>>[1] = e
  OBVIOUS
<1>2. b \in Seq(S)
  BY <1>1, ConcatProperties
<1>3. Len(b) = 1 + Len(s) /\ Len(s) \in Nat
  BY <1>1, ConcatProperties, LenProperties
<1>4. \A k \in 1 .. 1 + Len(s) : b[k] = IF k <= 1 THEN <<e>>[k] ELSE s[k - 1]
  BY <1>1, ConcatProperties
<1> HIDE DEF b
<1>5. b # <<>>
  BY <1>2, <1>3, EmptySeq
<1>6. Head(b) = b[1]
  BY <1>2, <1>5, HeadTailProperties
<1>7. b[1] = e
  BY <1>1, <1>3, <1>4
<1>8. t \in Seq(S)
  BY <1>2, <1>5, HeadTailProperties
<1>9. Len(t) = Len(s)
  BY <1>2, <1>3, <1>5, HeadTailProperties
<1>10. \A k \in 1 .. Len(s) : t[k] = b[k + 1]
  BY <1>2, <1>3, <1>5, HeadTailProperties
<1> HIDE DEF t
<1>11. \A k \in 1 .. Len(s) : t[k] = s[k]
  <2> SUFFICES ASSUME NEW k \in 1 .. Len(s) PROVE t[k] = s[k]
    OBVIOUS
  <2>1. k + 1 \in 1 .. 1 + Len(s) /\ ~ (k + 1 <= 1) /\ (k + 1) - 1 = k
    BY <1>3
  <2>2. b[k + 1] = s[k]
    BY <1>4, <2>1
  <2> QED BY <1>10, <2>2
<1>12. t = s
  BY <1>8, <1>9, <1>11, SeqEqual
<1> QED BY <1>5, <1>6, <1>7, <1>12 DEF b, t

-----------------------------------------------------------------------------
\* The new node is about to be visited in the split tree where its parent is in
\* the other.
Parted(i, n) ==
    {uv \in WalkState \X WalkState :
        /\ uv[1].met = uv[2].met
        /\ \/ uv[1].todo = uv[2].todo
           \/ /\ uv[1].todo # <<>> /\ uv[2].todo # <<>>
              /\ Head(uv[1].todo) = GenRef(i) /\ Head(uv[2].todo) = GenRef(n)
              /\ Tail(uv[1].todo) = Tail(uv[2].todo)}

LEMMA PartedIs ==
    ASSUME NEW i, NEW n, NEW u \in WalkState, NEW v \in WalkState
    PROVE  <<u, v>> \in Parted(i, n) <=>
              /\ u.met = v.met
              /\ \/ u.todo = v.todo
                 \/ /\ u.todo # <<>> /\ v.todo # <<>>
                    /\ Head(u.todo) = GenRef(i) /\ Head(v.todo) = GenRef(n)
                    /\ Tail(u.todo) = Tail(v.todo)
BY DEF Parted

LEMMA SplitIs ==
    ASSUME NEW gs \in GensType, NEW i \in Made(gs), NEW n \in Nodes, gs[n] = Null
    PROVE  LET new == NewGenBetween(gs, i, n)
           IN  /\ new[n] = gs[i]
               /\ new[i].gen = gs[i].gen /\ new[i].c = <<GenRef(n)>>
               /\ \A j \in Nodes : j # n /\ j # i => new[j] = gs[j]
<1> DEFINE new == NewGenBetween(gs, i, n)
           g   == [gs[i] EXCEPT !.c = <<GenRef(n)>>]
<1>1. i \in Nodes /\ gs[i] \in Generation /\ i # n
  BY DEF Made, GensType
<1>2. new = [gs EXCEPT ![n] = gs[i], ![i] = g]
  BY <1>1 DEF NewGenBetween, GensType
<1>3. g.c = <<GenRef(n)>> /\ g.gen = gs[i].gen
  BY <1>1 DEF Generation
<1> HIDE DEF g, new
<1>4. /\ new[n] = gs[i] /\ new[i] = g
      /\ \A j \in Nodes : j # n /\ j # i => new[j] = gs[j]
  BY <1>1, <1>2 DEF GensType
<1> QED BY <1>3, <1>4 DEF new

\* A split tree is walked like the tree it was split from.
LEMMA SplitVisit ==
    ASSUME NEW gs, Closed(gs), NEW i \in Made(gs), NEW n \in Nodes, gs[n] = Null,
           NEW new, Closed(new), new = NewGenBetween(gs, i, n), NEW max
    PROVE  Lags(Walking(gs), Visit(gs, max, "page"), Walking(new), Visit(new, max, "page"),
                Parted(i, n))
<1> DEFINE F == Visit(gs, max, "page")
           G == Visit(new, max, "page")
           R == Parted(i, n)
<1> SUFFICES ASSUME NEW u \in Walking(gs), NEW v \in Walking(new), <<u, v>> \in R
             PROVE  <<u, G[v]>> \in R \/ <<F[u], G[v]>> \in R
  BY DEF Lags
<1> DEFINE ur == Head(u.todo)
           vr == Head(v.todo)
           us == Tail(u.todo)
           vs == Tail(v.todo)
           u1 == F[u]
           v1 == G[v]
<1>1. u \in WalkState /\ v \in WalkState /\ u1 \in WalkState /\ v1 \in WalkState
  BY VisitStays DEF Walking
<1>2. /\ u.met = v.met
      /\ \/ u.todo = v.todo
         \/ /\ u.todo # <<>> /\ v.todo # <<>> /\ ur = GenRef(i) /\ vr = GenRef(n) /\ us = vs
  BY <1>1, PartedIs
<1>3. gs \in GensType /\ i \in Nodes /\ gs[i] # Null
  BY DEF Closed, Made
<1>4. /\ new[n] = gs[i]
      /\ new[i].gen = gs[i].gen /\ new[i].c = <<GenRef(n)>>
      /\ \A j \in Nodes : j # n /\ j # i => new[j] = gs[j]
  BY <1>3, SplitIs
<1>u. u.todo # <<>> =>
         /\ us \in Seq(Ref)
         /\ ur.type = "generation" =>
               /\ ur.at \in Nodes /\ gs[ur.at] # Null /\ gs[ur.at].c \in Seq(Ref)
               /\ u1.met = u.met
               /\ u1.todo = IF gs[ur.at].gen > max THEN us ELSE gs[ur.at].c \o us
         /\ ur.type # "generation" =>
               u1.met = Append(u.met, ur.at) /\ u1.todo = us
  BY VisitIs
<1>v. v.todo # <<>> =>
         /\ vr.type = "generation" =>
               /\ v1.met = v.met
               /\ v1.todo = IF new[vr.at].gen > max THEN vs ELSE new[vr.at].c \o vs
         /\ vr.type # "generation" =>
               v1.met = Append(v.met, vr.at) /\ v1.todo = vs
  BY VisitIs
<1>e. /\ u.todo = <<>> => u1 = u
      /\ v.todo = <<>> => v1 = v
  BY <1>1 DEF Visit
<1>r. /\ ur = GenRef(i) => ur.type = "generation" /\ ur.at = i
      /\ vr = GenRef(n) => vr.type = "generation" /\ vr.at = n
  BY RefsDiffer
<1>5. CASE u.todo = <<>>
  <2>1. u.todo = v.todo
    BY <1>2, <1>5
  <2>2. u1 = u /\ v1 = v
    BY <1>5, <1>e, <2>1
  <2> QED BY <2>2
<1>6. CASE u.todo # <<>> /\ u.todo = v.todo
  <2>1. ur = vr /\ us = vs /\ v.todo # <<>>
    BY <1>6
  <2> HIDE DEF F, G, R, ur, vr, us, vs, u1, v1
  <2>2. CASE ur.type # "generation"
    <3>1. u1.met = v1.met /\ u1.todo = v1.todo
      BY <1>2, <1>6, <1>u, <1>v, <2>1, <2>2
    <3>2. <<u1, v1>> \in R
      BY <1>1, <3>1, PartedIs DEF R
    <3> QED BY <3>2 DEF u1, v1
  <2>3. CASE ur.type = "generation" /\ ur.at # i
    <3>1. ur.at # n /\ ur.at \in Nodes
      BY <1>6, <1>u, <2>3
    <3>2. new[ur.at] = gs[ur.at]
      BY <1>4, <2>3, <3>1
    <3>3. u1.met = v1.met /\ u1.todo = v1.todo
      <4>1. u1.met = u.met /\ u1.todo = IF gs[ur.at].gen > max THEN us ELSE gs[ur.at].c \o us
        BY <1>6, <1>u, <2>3
      <4>2. v1.met = v.met /\ v1.todo = IF gs[ur.at].gen > max THEN us ELSE gs[ur.at].c \o us
        BY <1>v, <2>1, <2>3, <3>2
      <4> QED BY <1>2, <4>1, <4>2
    <3>4. <<u1, v1>> \in R
      BY <1>1, <3>3, PartedIs DEF R
    <3> QED BY <3>4 DEF u1, v1
  <2>4. CASE ur.type = "generation" /\ ur.at = i
    <3>1. CASE gs[i].gen > max
      <4>1. u1.met = u.met /\ u1.todo = us
        BY <1>6, <1>u, <2>4, <3>1
      <4>2. v1.met = v.met /\ v1.todo = vs
        BY <1>4, <1>v, <2>1, <2>4, <3>1
      <4>3. <<u1, v1>> \in R
        BY <1>1, <1>2, <2>1, <4>1, <4>2, PartedIs DEF R
      <4> QED BY <4>3 DEF u1, v1
    <3>2. CASE ~ (gs[i].gen > max)
      <4>1. v1.met = v.met /\ v1.todo = <<GenRef(n)>> \o vs
        BY <1>4, <1>v, <2>1, <2>4, <3>2
      <4>2. us \in Seq(Ref) /\ GenRef(n) \in Ref
        BY <1>6, <1>u DEF GenRef, Ref
      <4>3. v1.todo # <<>> /\ Head(v1.todo) = GenRef(n) /\ Tail(v1.todo) = us
        <5> DEFINE both == <<GenRef(n)>> \o us
        <5>1. both # <<>> /\ Head(both) = GenRef(n) /\ Tail(both) = us
          BY <4>2, HeadOfOne
        <5> HIDE DEF both
        <5> QED BY <2>1, <4>1, <5>1 DEF both
      <4>4. ur = GenRef(i)
        <5>1. ur \in Ref
          BY <1>6, VisitIs DEF ur
        <5> QED BY <2>4, <5>1 DEF Ref, GenRef
      <4>5. <<u, v1>> \in R
        BY <1>1, <1>2, <1>6, <4>1, <4>3, <4>4, PartedIs DEF R, ur, us
      <4> QED BY <4>5 DEF v1
    <3> QED BY <3>1, <3>2
  <2> QED BY <2>2, <2>3, <2>4
<1>7. CASE u.todo # <<>> /\ v.todo # <<>> /\ ur = GenRef(i) /\ vr = GenRef(n) /\ us = vs
  <2>1. ur.type = "generation" /\ ur.at = i /\ vr.type = "generation" /\ vr.at = n
    BY <1>7, <1>r
  <2> HIDE DEF F, G, R, ur, vr, us, vs, u1, v1
  <2>2. u1.met = u.met /\ u1.todo = IF gs[i].gen > max THEN us ELSE gs[i].c \o us
    BY <1>7, <1>u, <2>1
  <2>3. v1.met = v.met /\ v1.todo = IF gs[i].gen > max THEN us ELSE gs[i].c \o us
    BY <1>4, <1>7, <1>v, <2>1
  <2>4. <<u1, v1>> \in R
    BY <1>1, <1>2, <2>2, <2>3, PartedIs DEF R
  <2> QED BY <2>4 DEF u1, v1
<1> QED BY <1>2, <1>5, <1>6, <1>7

-----------------------------------------------------------------------------
\* Where the elements of s are in t, the others of which are all x.
Places(s, t, x) ==
    {e \in [1 .. Len(s) -> 1 .. Len(t)] :
        /\ \A k \in 1 .. Len(s) : t[e[k]] = s[k]
        /\ \A k \in 1 .. Len(s) : \A m \in 1 .. Len(s) : k < m => e[k] < e[m]
        /\ \A j \in 1 .. Len(t) : t[j] # x => \E k \in 1 .. Len(s) : e[k] = j}

\* s is t with some of its elements x left out.
Thin(s, t, x) == Places(s, t, x) # {}

LEMMA ThinSame ==
    ASSUME NEW S, NEW s \in Seq(S), NEW x
    PROVE  Thin(s, s, x)
<1>1. Len(s) \in Nat
  BY LenProperties
<1> DEFINE e == [k \in 1 .. Len(s) |-> k]
<1>2. e \in Places(s, s, x)
  BY <1>1 DEF Places
<1> QED BY <1>2 DEF Thin

LEMMA ThinAppend ==
    ASSUME NEW S, NEW s \in Seq(S), NEW x \in S
    PROVE  Thin(s, Append(s, x), x)
<1> DEFINE t == Append(s, x)
<1>1. /\ Len(s) \in Nat /\ Len(t) = Len(s) + 1 /\ t[Len(s) + 1] = x
      /\ \A k \in 1 .. Len(s) : t[k] = s[k]
  BY AppendProperties, LenProperties
<1> HIDE DEF t
<1> DEFINE e == [k \in 1 .. Len(s) |-> k]
<1>2. e \in [1 .. Len(s) -> 1 .. Len(t)]
  BY <1>1
<1>3. \A k \in 1 .. Len(s) : t[e[k]] = s[k]
  BY <1>1
<1>4. ASSUME NEW j \in 1 .. Len(t), t[j] # x PROVE \E k \in 1 .. Len(s) : e[k] = j
  <2>1. j \in 1 .. Len(s)
    BY <1>1, <1>4
  <2> QED BY <2>1
<1>5. \A k \in 1 .. Len(s) : \A m \in 1 .. Len(s) : k < m => e[k] < e[m]
  OBVIOUS
<1> HIDE DEF e
<1>6. e \in Places(s, t, x)
  BY <1>2, <1>3, <1>4, <1>5 DEF Places
<1> QED BY <1>6 DEF Thin, t

LEMMA ThinEmpty ==
    ASSUME NEW S, NEW s \in Seq(S), NEW x, Thin(s, <<>>, x)
    PROVE  s = <<>>
<1>1. PICK e \in Places(s, <<>>, x) : TRUE
  BY DEF Thin
<1>2. e \in [1 .. Len(s) -> 1 .. 0] /\ Len(s) \in Nat
  BY <1>1, LenProperties DEF Places
<1>3. Len(s) = 0
  <2> SUFFICES ASSUME Len(s) # 0 PROVE FALSE
    OBVIOUS
  <2>1. 1 \in 1 .. Len(s)
    BY <1>2
  <2>2. e[1] \in 1 .. 0
    BY <1>2, <2>1
  <2> QED BY <2>2
<1> QED BY <1>3, EmptySeq

LEMMA ThinTail ==
    ASSUME NEW S, NEW s \in Seq(S), NEW t \in Seq(S), t # <<>>, NEW x, Thin(s, t, x)
    PROVE  \/ s # <<>> /\ Head(s) = Head(t) /\ Thin(Tail(s), Tail(t), x)
           \/ Head(t) = x /\ Thin(s, Tail(t), x)
<1> DEFINE ss == Tail(s)
           tt == Tail(t)
<1>1. PICK e \in Places(s, t, x) : TRUE
  BY DEF Thin
<1>2. /\ e \in [1 .. Len(s) -> 1 .. Len(t)]
      /\ \A k \in 1 .. Len(s) : t[e[k]] = s[k]
      /\ \A k \in 1 .. Len(s) : \A m \in 1 .. Len(s) : k < m => e[k] < e[m]
      /\ \A j \in 1 .. Len(t) : t[j] # x => \E k \in 1 .. Len(s) : e[k] = j
  BY <1>1 DEF Places
<1>3. Len(s) \in Nat /\ Len(t) \in Nat /\ Len(t) > 0
  BY LenProperties, EmptySeq
<1>4. /\ Head(t) = t[1] /\ Len(tt) = Len(t) - 1
      /\ \A k \in 1 .. Len(t) - 1 : tt[k] = t[k + 1]
  BY HeadTailProperties
<1> HIDE DEF tt
<1>5. CASE s # <<>> /\ e[1] = 1
  <2>1. /\ Head(s) = s[1] /\ Len(ss) = Len(s) - 1 /\ Len(s) > 0
        /\ \A k \in 1 .. Len(s) - 1 : ss[k] = s[k + 1]
    BY <1>3, <1>5, HeadTailProperties, EmptySeq
  <2> HIDE DEF ss
  <2>2. 1 \in 1 .. Len(s)
    BY <1>3, <2>1
  <2>3. Head(s) = Head(t)
    BY <1>2, <1>4, <1>5, <2>1, <2>2
  <2>4. \A k \in 1 .. Len(s) - 1 : k + 1 \in 1 .. Len(s) /\ 1 < k + 1
    BY <1>3
  <2>5. \A k \in 1 .. Len(s) - 1 : e[k + 1] \in 2 .. Len(t)
    BY <1>2, <1>3, <1>5, <2>2, <2>4
  <2> DEFINE d == [k \in 1 .. Len(s) - 1 |-> e[k + 1] - 1]
  <2>6. d \in [1 .. Len(ss) -> 1 .. Len(tt)]
    <3>1. \A k \in 1 .. Len(s) - 1 : e[k + 1] - 1 \in 1 .. Len(t) - 1
      BY <1>3, <2>5
    <3> QED BY <1>4, <2>1, <3>1
  <2>7. ASSUME NEW k \in 1 .. Len(ss) PROVE tt[d[k]] = ss[k]
    <3>0. k \in 1 .. Len(s) - 1 /\ e[k + 1] \in 2 .. Len(t) /\ d[k] = e[k + 1] - 1
      BY <2>1, <2>5
    <3>1. d[k] \in 1 .. Len(t) - 1 /\ d[k] + 1 = e[k + 1] /\ k \in 1 .. Len(s) - 1
      BY <1>3, <3>0
    <3> HIDE DEF d
    <3>2. tt[d[k]] = t[e[k + 1]]
      BY <1>4, <3>1
    <3> QED BY <1>2, <2>1, <2>4, <3>1, <3>2
  <2>8. ASSUME NEW k \in 1 .. Len(ss), NEW m \in 1 .. Len(ss), k < m PROVE d[k] < d[m]
    <3>1. k + 1 \in 1 .. Len(s) /\ m + 1 \in 1 .. Len(s) /\ k + 1 < m + 1
      BY <1>3, <2>1, <2>8
    <3>2. e[k + 1] < e[m + 1]
      BY <1>2, <3>1
    <3>3. e[k + 1] \in 1 .. Len(t) /\ e[m + 1] \in 1 .. Len(t)
      BY <1>2, <3>1
    <3>4. d[k] = e[k + 1] - 1 /\ d[m] = e[m + 1] - 1
      BY <2>1
    <3> HIDE DEF d
    <3> QED BY <1>3, <3>2, <3>3, <3>4
  <2>9. ASSUME NEW j \in 1 .. Len(tt), tt[j] # x PROVE \E k \in 1 .. Len(ss) : d[k] = j
    <3>1. j + 1 \in 1 .. Len(t) /\ t[j + 1] # x /\ j + 1 # 1
      BY <1>3, <1>4, <2>9
    <3>2. PICK k \in 1 .. Len(s) : e[k] = j + 1
      BY <1>2, <3>1
    <3>3. k # 1
      BY <1>5, <3>1, <3>2
    <3>4. k - 1 \in 1 .. Len(s) - 1 /\ (k - 1) + 1 = k
      BY <1>3, <3>3
    <3>5. d[k - 1] = j
      BY <3>2, <3>4
    <3> QED BY <2>1, <3>4, <3>5
  <2> HIDE DEF d
  <2>10. d \in Places(ss, tt, x)
    BY <2>6, <2>7, <2>8, <2>9 DEF Places
  <2> QED BY <1>5, <2>3, <2>10 DEF Thin, ss, tt
<1>6. CASE s = <<>> \/ e[1] # 1
  <2>1. ASSUME NEW k \in 1 .. Len(s) PROVE e[k] \in 2 .. Len(t)
    <3>1. s # <<>> /\ 1 \in 1 .. Len(s)
      BY <1>3, EmptySeq
    <3>2. e[1] \in 1 .. Len(t) /\ e[1] # 1 /\ e[k] \in 1 .. Len(t)
      BY <1>2, <1>6, <3>1
    <3>3. k = 1 \/ 1 < k
      OBVIOUS
    <3>4. k = 1 \/ e[1] < e[k]
      BY <1>2, <3>1, <3>3
    <3> QED BY <1>3, <3>2, <3>4
  <2>2. t[1] = x
    <3> SUFFICES ASSUME t[1] # x PROVE FALSE
      OBVIOUS
    <3>1. 1 \in 1 .. Len(t)
      BY <1>3
    <3>2. PICK k \in 1 .. Len(s) : e[k] = 1
      BY <1>2, <3>1
    <3>3. e[k] \in 2 .. Len(t)
      BY <2>1
    <3> QED BY <1>3, <3>2, <3>3
  <2> DEFINE d == [k \in 1 .. Len(s) |-> e[k] - 1]
  <2>3. d \in [1 .. Len(s) -> 1 .. Len(tt)]
    <3>1. \A k \in 1 .. Len(s) : e[k] - 1 \in 1 .. Len(t) - 1
      BY <1>3, <2>1
    <3> QED BY <1>4, <3>1
  <2>4. ASSUME NEW k \in 1 .. Len(s) PROVE tt[d[k]] = s[k]
    <3>1. d[k] \in 1 .. Len(t) - 1 /\ d[k] + 1 = e[k]
      BY <1>3, <2>1
    <3> HIDE DEF d
    <3>2. tt[d[k]] = t[e[k]]
      BY <1>4, <3>1
    <3> QED BY <1>2, <3>2
  <2>5. ASSUME NEW k \in 1 .. Len(s), NEW m \in 1 .. Len(s), k < m PROVE d[k] < d[m]
    <3>1. e[k] < e[m] /\ e[k] \in Nat /\ e[m] \in Nat
      BY <1>2, <1>3, <2>5
    <3> QED BY <3>1
  <2>6. ASSUME NEW j \in 1 .. Len(tt), tt[j] # x PROVE \E k \in 1 .. Len(s) : d[k] = j
    <3>1. j + 1 \in 1 .. Len(t) /\ t[j + 1] # x
      BY <1>3, <1>4, <2>6
    <3>2. PICK k \in 1 .. Len(s) : e[k] = j + 1
      BY <1>2, <3>1
    <3>3. d[k] = j
      BY <3>2
    <3> QED BY <3>3
  <2> HIDE DEF d
  <2>7. d \in Places(s, tt, x)
    BY <2>3, <2>4, <2>5, <2>6 DEF Places
  <2> QED BY <1>4, <2>2, <2>7 DEF Thin, tt
<1> QED BY <1>5, <1>6

LEMMA ThinConcat ==
    ASSUME NEW S, NEW s \in Seq(S), NEW t \in Seq(S), NEW r \in Seq(S), NEW q \in Seq(S), NEW x,
           Thin(s, t, x), Thin(r, q, x)
    PROVE  Thin(s \o r, t \o q, x)
<1> DEFINE a == s \o r
           b == t \o q
           ls == Len(s)
           lt == Len(t)
           lr == Len(r)
           lq == Len(q)
<1>1. PICK e \in Places(s, t, x) : TRUE
  BY DEF Thin
<1>2. PICK d \in Places(r, q, x) : TRUE
  BY DEF Thin
<1>3. ls \in Nat /\ lt \in Nat /\ lr \in Nat /\ lq \in Nat
  BY LenProperties
<1>4. /\ Len(a) = ls + lr
      /\ \A k \in 1 .. ls + lr : a[k] = IF k <= ls THEN s[k] ELSE r[k - ls]
  BY ConcatProperties
<1>5. /\ Len(b) = lt + lq
      /\ \A k \in 1 .. lt + lq : b[k] = IF k <= lt THEN t[k] ELSE q[k - lt]
  BY ConcatProperties
<1>6. /\ e \in [1 .. ls -> 1 .. lt]
      /\ \A k \in 1 .. ls : t[e[k]] = s[k]
      /\ \A k \in 1 .. ls : \A m \in 1 .. ls : k < m => e[k] < e[m]
      /\ \A j \in 1 .. lt : t[j] # x => \E k \in 1 .. ls : e[k] = j
  BY <1>1 DEF Places
<1>7. /\ d \in [1 .. lr -> 1 .. lq]
      /\ \A k \in 1 .. lr : q[d[k]] = r[k]
      /\ \A k \in 1 .. lr : \A m \in 1 .. lr : k < m => d[k] < d[m]
      /\ \A j \in 1 .. lq : q[j] # x => \E k \in 1 .. lr : d[k] = j
  BY <1>2 DEF Places
<1> HIDE DEF a, b, ls, lt, lr, lq
<1> DEFINE f == [k \in 1 .. ls + lr |-> IF k <= ls THEN e[k] ELSE d[k - ls] + lt]
<1>8. ASSUME NEW k \in 1 .. ls + lr
      PROVE  \/ k \in 1 .. ls /\ k <= ls /\ f[k] = e[k] /\ e[k] \in 1 .. lt
             \/ ~ (k <= ls) /\ k - ls \in 1 .. lr /\ f[k] = d[k - ls] + lt /\ d[k - ls] \in 1 .. lq
  BY <1>3, <1>6, <1>7
<1>9. \A k \in 1 .. ls : k \in 1 .. ls + lr /\ f[k] = e[k]
  BY <1>3
<1>10. ASSUME NEW k \in 1 .. lr PROVE k + ls \in 1 .. ls + lr /\ f[k + ls] = d[k] + lt
  <2>1. k + ls \in 1 .. ls + lr /\ ~ (k + ls <= ls) /\ (k + ls) - ls = k
    BY <1>3
  <2> QED BY <2>1
<1>11. f \in [1 .. ls + lr -> 1 .. lt + lq]
  <2>1. ASSUME NEW k \in 1 .. ls + lr PROVE f[k] \in 1 .. lt + lq
    <3> HIDE DEF f
    <3>1. CASE f[k] = e[k] /\ e[k] \in 1 .. lt
      BY <1>3, <3>1
    <3>2. CASE f[k] = d[k - ls] + lt /\ d[k - ls] \in 1 .. lq
      <4> DEFINE y == d[k - ls]
      <4>1. y \in 1 .. lq /\ f[k] = y + lt
        BY <3>2
      <4> HIDE DEF y
      <4> QED BY <1>3, <4>1
    <3> QED BY <1>8, <3>1, <3>2
  <2> QED BY <2>1
<1> HIDE DEF f
<1>12. ASSUME NEW k \in 1 .. ls + lr PROVE b[f[k]] = a[k]
  <2>1. CASE k \in 1 .. ls /\ k <= ls /\ f[k] = e[k] /\ e[k] \in 1 .. lt
    <3>1. e[k] \in 1 .. lt + lq /\ e[k] <= lt
      BY <1>3, <2>1
    <3>2. b[e[k]] = t[e[k]]
      BY <1>5, <3>1
    <3> QED BY <1>4, <1>6, <2>1, <3>2
  <2>2. CASE ~ (k <= ls) /\ k - ls \in 1 .. lr /\ f[k] = d[k - ls] + lt /\ d[k - ls] \in 1 .. lq
    <3> DEFINE m == k - ls
               dm == d[m]
    <3>1. m \in 1 .. lr /\ dm \in 1 .. lq /\ f[k] = dm + lt
      BY <2>2
    <3>2. a[k] = r[m]
      BY <1>4, <2>2
    <3>3. q[dm] = r[m]
      BY <1>7, <3>1
    <3> HIDE DEF m, dm
    <3>4. dm + lt \in 1 .. lt + lq /\ ~ (dm + lt <= lt) /\ (dm + lt) - lt = dm
      BY <1>3, <3>1
    <3>5. b[dm + lt] = q[dm]
      BY <1>5, <3>4
    <3> QED BY <3>1, <3>2, <3>3, <3>5
  <2> QED BY <1>8, <2>1, <2>2
<1>13. ASSUME NEW k \in 1 .. ls + lr, NEW m \in 1 .. ls + lr, k < m PROVE f[k] < f[m]
  <2>1. CASE m <= ls
    <3>1. k \in 1 .. ls /\ m \in 1 .. ls
      BY <1>3, <1>13, <2>1
    <3> QED BY <1>6, <1>9, <1>13, <3>1
  <2>2. CASE ~ (m <= ls) /\ k <= ls
    <3>1. k \in 1 .. ls /\ f[k] = e[k] /\ e[k] \in 1 .. lt
      BY <1>8, <2>2
    <3>2. f[m] = d[m - ls] + lt /\ d[m - ls] \in 1 .. lq
      BY <1>8, <2>2
    <3> QED BY <1>3, <3>1, <3>2
  <2>3. CASE ~ (m <= ls) /\ ~ (k <= ls)
    <3>1. /\ k - ls \in 1 .. lr /\ f[k] = d[k - ls] + lt /\ d[k - ls] \in 1 .. lq
          /\ m - ls \in 1 .. lr /\ f[m] = d[m - ls] + lt /\ d[m - ls] \in 1 .. lq
      BY <1>8, <2>3
    <3>2. k - ls < m - ls
      BY <1>3, <1>13
    <3>3. d[k - ls] < d[m - ls]
      BY <1>7, <3>1, <3>2
    <3> QED BY <1>3, <3>1, <3>3
  <2> QED BY <2>1, <2>2, <2>3
<1>14. ASSUME NEW j \in 1 .. lt + lq, b[j] # x PROVE \E k \in 1 .. ls + lr : f[k] = j
  <2>1. CASE j <= lt
    <3>1. j \in 1 .. lt /\ t[j] # x
      BY <1>3, <1>5, <1>14, <2>1
    <3>2. PICK k \in 1 .. ls : e[k] = j
      BY <1>6, <3>1
    <3> QED BY <1>9, <3>2
  <2>2. CASE ~ (j <= lt)
    <3>1. j - lt \in 1 .. lq /\ q[j - lt] # x /\ (j - lt) + lt = j
      BY <1>3, <1>5, <1>14, <2>2
    <3>2. PICK k \in 1 .. lr : d[k] = j - lt
      BY <1>7, <3>1
    <3> QED BY <1>10, <3>1, <3>2
  <2> QED BY <2>1, <2>2
<1>15. f \in Places(a, b, x)
  BY <1>4, <1>5, <1>11, <1>12, <1>13, <1>14 DEF Places
<1> QED BY <1>15 DEF Thin, a, b

\* Generation n is to be visited, or not, in addition.
Besides(n) ==
    {uv \in WalkState \X WalkState :
        uv[1].met = uv[2].met /\ Thin(uv[1].todo, uv[2].todo, GenRef(n))}

LEMMA BesidesIs ==
    ASSUME NEW n, NEW u \in WalkState, NEW v \in WalkState
    PROVE  <<u, v>> \in Besides(n) <=> u.met = v.met /\ Thin(u.todo, v.todo, GenRef(n))
BY DEF Besides

\* Generation n hung in a slot of generation t.
Hung(gs, new, t, n) ==
    /\ \A j \in Made(gs) : new[j] # Null /\ new[j].gen = gs[j].gen
    /\ \A j \in Made(gs) : j # t => new[j].c = gs[j].c
    /\ new[t].c = Append(gs[t].c, GenRef(n))

\* A generation that is too young changes nothing for the walk.
LEMMA HungVisit ==
    ASSUME NEW gs, Closed(gs), NEW new, Closed(new), NEW t \in Made(gs), NEW n \in Made(gs),
           Hung(gs, new, t, n), NEW max, gs[n].gen > max
    PROVE  Lags(Walking(gs), Visit(gs, max, "page"), Walking(new), Visit(new, max, "page"),
                Besides(n))
<1> DEFINE F == Visit(gs, max, "page")
           G == Visit(new, max, "page")
           R == Besides(n)
           x == GenRef(n)
<1> SUFFICES ASSUME NEW u \in Walking(gs), NEW v \in Walking(new), <<u, v>> \in R
             PROVE  <<u, G[v]>> \in R \/ <<F[u], G[v]>> \in R
  BY DEF Lags
<1> DEFINE ur == Head(u.todo)
           vr == Head(v.todo)
           us == Tail(u.todo)
           vs == Tail(v.todo)
           u1 == F[u]
           v1 == G[v]
<1>1. u \in WalkState /\ v \in WalkState /\ u1 \in WalkState /\ v1 \in WalkState
  BY VisitStays DEF Walking
<1>2. /\ u.met = v.met /\ Thin(u.todo, v.todo, x)
      /\ u.todo \in Seq(Ref) /\ v.todo \in Seq(Ref)
  BY <1>1, BesidesIs DEF WalkState
<1>3. gs \in GensType /\ t \in Nodes /\ gs[t] # Null /\ n \in Nodes /\ gs[n] # Null /\ x \in Ref
      /\ x.type = "generation" /\ x.at = n
  BY RefsDiffer DEF Closed, Made, GenRef, Ref
<1>4. /\ \A j \in Made(gs) : new[j] # Null /\ new[j].gen = gs[j].gen
      /\ \A j \in Made(gs) : j # t => new[j].c = gs[j].c
      /\ new[t].c = Append(gs[t].c, x)
  BY DEF Hung
<1>u. u.todo # <<>> =>
         /\ us \in Seq(Ref)
         /\ ur.type = "generation" =>
               /\ ur.at \in Nodes /\ gs[ur.at] # Null /\ gs[ur.at].c \in Seq(Ref)
               /\ u1.met = u.met
               /\ u1.todo = IF gs[ur.at].gen > max THEN us ELSE gs[ur.at].c \o us
         /\ ur.type # "generation" =>
               u1.met = Append(u.met, ur.at) /\ u1.todo = us
  BY VisitIs
<1>v. v.todo # <<>> =>
         /\ vs \in Seq(Ref)
         /\ vr.type = "generation" =>
               /\ new[vr.at].c \in Seq(Ref)
               /\ v1.met = v.met
               /\ v1.todo = IF new[vr.at].gen > max THEN vs ELSE new[vr.at].c \o vs
         /\ vr.type # "generation" =>
               v1.met = Append(v.met, vr.at) /\ v1.todo = vs
  BY VisitIs
<1>5. CASE v.todo = <<>>
  <2>1. v1 = v
    BY <1>1, <1>5 DEF Visit
  <2> QED BY <2>1
<1>6. CASE v.todo # <<>>
  <2>1. \/ u.todo # <<>> /\ ur = vr /\ Thin(us, vs, x)
        \/ vr = x /\ Thin(u.todo, vs, x)
    <3> HIDE DEF x
    <3> QED BY <1>2, <1>6, ThinTail
  <2> HIDE DEF F, G, R, ur, vr, us, vs, u1, v1, x
  <2>2. CASE vr = x /\ Thin(u.todo, vs, x)
    <3>a. vr.type = "generation" /\ vr.at = n
      BY <1>3, <2>2, Zenon
    <3>b. new[n].gen = gs[n].gen
      BY <1>4
    <3>c. new[vr.at].gen > max
      BY <3>a, <3>b, Zenon
    <3>d. v1.todo = IF new[vr.at].gen > max THEN vs ELSE new[vr.at].c \o vs
      BY <1>6, <1>v, <3>a, Zenon
    <3>1. v1.met = v.met /\ v1.todo = vs
      <4>1. v1.met = v.met
        BY <1>6, <1>v, <3>a
      <4>2. v1.todo = vs
        BY <3>c, <3>d
      <4> QED BY <4>1, <4>2
    <3>2. <<u, v1>> \in R
      BY <1>1, <1>2, <2>2, <3>1, BesidesIs DEF R, x
    <3> QED BY <3>2 DEF v1
  <2>3. CASE u.todo # <<>> /\ ur = vr /\ Thin(us, vs, x)
    <3>1. CASE ur.type # "generation"
      <4>1. u1.met = Append(u.met, ur.at) /\ u1.todo = us
        BY <1>u, <2>3, <3>1
      <4>2. v1.met = Append(v.met, ur.at) /\ v1.todo = vs
        BY <1>6, <1>v, <2>3, <3>1
      <4>k. u1.met = v1.met
        BY <1>2, <2>3, <4>1, <4>2
      <4>l. Thin(u1.todo, v1.todo, x)
        BY <2>3, <4>1, <4>2, Zenon
      <4>3. <<u1, v1>> \in R
        BY <1>1, <4>k, <4>l, BesidesIs DEF R, x
      <4> QED BY <4>3 DEF u1, v1
    <3>2. CASE ur.type = "generation" /\ gs[ur.at].gen > max
      <4>0. ur.at \in Made(gs)
        BY <1>u, <2>3, <3>2 DEF Made
      <4>1. u1.met = u.met /\ u1.todo = us
        BY <1>u, <2>3, <3>2
      <4>2. v1.met = v.met /\ v1.todo = vs
        BY <1>4, <1>6, <1>v, <2>3, <3>2, <4>0
      <4>k. u1.met = v1.met
        BY <1>2, <2>3, <4>1, <4>2
      <4>l. Thin(u1.todo, v1.todo, x)
        BY <2>3, <4>1, <4>2, Zenon
      <4>3. <<u1, v1>> \in R
        BY <1>1, <4>k, <4>l, BesidesIs DEF R, x
      <4> QED BY <4>3 DEF u1, v1
    <3>3. CASE ur.type = "generation" /\ ~ (gs[ur.at].gen > max)
      <4> DEFINE uc == gs[ur.at].c
                 vc == new[ur.at].c
      <4>0. ur.at \in Made(gs) /\ uc \in Seq(Ref) /\ us \in Seq(Ref)
        BY <1>u, <2>3, <3>3 DEF Made
      <4>1. vc \in Seq(Ref) /\ vs \in Seq(Ref)
        BY <1>6, <1>v, <2>3, <3>3
      <4>2. u1.met = u.met /\ u1.todo = uc \o us
        BY <1>u, <2>3, <3>3
      <4>a. vr.type = "generation" /\ vr.at = ur.at
        BY <2>3, <3>3, Zenon
      <4>b. new[ur.at].gen = gs[ur.at].gen
        BY <1>4, <4>0
      <4>c. ~ (new[vr.at].gen > max)
        BY <3>3, <4>a, <4>b, Zenon
      <4>d. v1.todo = IF new[vr.at].gen > max THEN vs ELSE new[vr.at].c \o vs
        BY <1>6, <1>v, <4>a, Zenon
      <4>e. v1.met = v.met
        BY <1>6, <1>v, <4>a, Zenon
      <4>f. v1.todo = new[vr.at].c \o vs
        BY <4>c, <4>d
      <4>3. v1.met = v.met /\ v1.todo = vc \o vs
        BY <4>a, <4>e, <4>f
      <4>4. Thin(uc, vc, x)
        <5>1. CASE ur.at = t
          <6>1. vc = Append(uc, x)
            BY <1>4, <5>1
          <6> HIDE DEF vc, uc
          <6> QED BY <1>3, <4>0, <6>1, ThinAppend
        <5>2. CASE ur.at # t
          <6>1. vc = uc
            BY <1>4, <4>0, <5>2
          <6> HIDE DEF vc, uc
          <6> QED BY <4>0, <6>1, ThinSame
        <5> QED BY <5>1, <5>2
      <4> HIDE DEF uc, vc
      <4>5. Thin(uc \o us, vc \o vs, x)
        BY <2>3, <4>0, <4>1, <4>4, ThinConcat
      <4>k. u1.met = v1.met
        BY <1>2, <2>3, <4>2, <4>3
      <4>l. Thin(u1.todo, v1.todo, x)
        BY <4>2, <4>3, <4>5, Zenon
      <4>6. <<u1, v1>> \in R
        BY <1>1, <4>k, <4>l, BesidesIs DEF R, x
      <4> QED BY <4>6 DEF u1, v1
    <3> QED BY <3>1, <3>2, <3>3
  <2> QED BY <2>1, <2>2, <2>3
<1> QED BY <1>5, <1>6

\* The two ways to make room for a new generation leave the walk as it was.
LEMMA SplitWalk ==
    ASSUME NEW gs, Closed(gs), NEW P \in SUBSET Frames, Form(gs, P), gs[root] # Null,
           NEW i \in Made(gs), NEW n \in Nodes, gs[n] = Null, n # root,
           NEW new, Closed(new), new = NewGenBetween(gs, i, n), NEW max
    PROVE  Walk(new, root, max, "page") = Walk(gs, root, max, "page")
<1> DEFINE x == [todo |-> <<GenRef(root)>>, met |-> <<>>]
           R == Parted(i, n)
<1>1. gs \in GensType /\ new \in GensType /\ root \in Nodes
  BY DEF Closed, root, Nodes
<1>2. Form(new, P) /\ Made(new) = Made(gs) \cup {n}
  <2>1. LET nw == NewGenBetween(gs, i, n)
        IN  /\ Form(nw, P) /\ (Whole(gs, P) => Whole(nw, P))
            /\ Made(nw) = Made(gs) \cup {n}
            /\ Len(nw[i].c) = 1
    BY <1>1, SplitForm, Zenon
  <2> QED BY <2>1
<1>3. new[root] # Null
  BY <1>1, <1>2 DEF Made
<1>4. x \in WalkState
  <2>1. <<GenRef(root)>> \in Seq(Ref) /\ <<>> \in Seq(Nat)
    BY <1>1 DEF GenRef, Ref
  <2> QED BY <2>1 DEF WalkState
<1>5. <<x, x>> \in R
  BY <1>4, PartedIs
<1>6. \A u \in Walking(gs), v \in Walking(new) :
         <<u, v>> \in R => u.met = v.met /\ (v.todo = <<>> => u.todo = <<>>)
  BY PartedIs DEF Walking
<1>7. Lags(Walking(gs), Visit(gs, max, "page"), Walking(new), Visit(new, max, "page"), R)
  BY SplitVisit
<1> HIDE DEF R
<1> QED BY <1>2, <1>3, <1>5, <1>6, <1>7, LagWalk

LEMMA HungWalk ==
    ASSUME NEW gs, Closed(gs), gs[root] # Null, NEW new, Closed(new),
           NEW P \in SUBSET Frames, Form(new, P),
           NEW t \in Made(gs), NEW n \in Made(gs), Hung(gs, new, t, n), NEW max, gs[n].gen > max
    PROVE  Walk(new, root, max, "page") = Walk(gs, root, max, "page")
<1> DEFINE x == [todo |-> <<GenRef(root)>>, met |-> <<>>]
           R == Besides(n)
<1>1. root \in Nodes /\ root \in Made(gs)
  BY DEF root, Nodes, Made
<1>3. new[root] # Null
  BY <1>1 DEF Hung
<1>4. x \in WalkState /\ <<GenRef(root)>> \in Seq(Ref)
  <2>1. <<GenRef(root)>> \in Seq(Ref) /\ <<>> \in Seq(Nat)
    BY <1>1 DEF GenRef, Ref
  <2> QED BY <2>1 DEF WalkState
<1>5. <<x, x>> \in R
  <2>1. Thin(<<GenRef(root)>>, <<GenRef(root)>>, GenRef(n))
    BY <1>4, ThinSame
  <2> QED BY <1>4, <2>1, BesidesIs
<1>6. ASSUME NEW u \in Walking(gs), NEW v \in Walking(new), <<u, v>> \in R
      PROVE  u.met = v.met /\ (v.todo = <<>> => u.todo = <<>>)
  <2>1. u.met = v.met /\ Thin(u.todo, v.todo, GenRef(n)) /\ u.todo \in Seq(Ref)
    BY <1>6, BesidesIs DEF Walking, WalkState
  <2> QED BY <2>1, ThinEmpty
<1>7. Lags(Walking(gs), Visit(gs, max, "page"), Walking(new), Visit(new, max, "page"), R)
  BY HungVisit
<1> HIDE DEF R
<1> QED BY <1>3, <1>5, <1>6, <1>7, LagWalk

-----------------------------------------------------------------------------
\* What is in a sequence, after some steps on it.
LEMMA TailWithin ==
    ASSUME NEW S, NEW s \in Seq(S), s # <<>>
    PROVE  Head(s) \in ToSet(s) /\ ToSet(Tail(s)) \subseteq ToSet(s)
<1> DEFINE t == Tail(s)
<1>1. /\ t \in Seq(S) /\ Head(s) = s[1] /\ 1 \in DOMAIN s
      /\ \A k \in DOMAIN t : k + 1 \in DOMAIN s /\ t[k] = s[k + 1]
  BY HeadTailProperties, LenProperties, EmptySeq
<1> HIDE DEF t
<1>2. \A e \in ToSet(t) : e \in ToSet(s)
  BY <1>1 DEF ToSet
<1>3. Head(s) \in ToSet(s)
  BY <1>1 DEF ToSet
<1> QED BY <1>2, <1>3 DEF t

\* What a walk meets stays within any set that holds its start and, of the
\* generations in it that are not skipped, all they hold.
Within(gs, max, K) ==
    /\ K \subseteq Ref
    /\ \A r \in K : r.type = "generation" /\ ~ (gs[r.at].gen > max) =>
          gs[r.at] # Null /\ Children(gs, r.at) \subseteq K

MetWithin(K, type) ==
    {w \in WalkState : /\ ToSet(w.todo) \subseteq K
                       /\ \A m \in ToSet(w.met) : [type |-> type, at |-> m] \in K}

LEMMA WithinVisit ==
    ASSUME NEW gs, Closed(gs), NEW max, NEW type, NEW K, Within(gs, max, K),
           NEW w \in Walking(gs), w \in MetWithin(K, type)
    PROVE  Visit(gs, max, type)[w] \in MetWithin(K, type)
<1> DEFINE u    == Visit(gs, max, type)[w]
           ref  == Head(w.todo)
           rest == Tail(w.todo)
           met  == IF ref.type = type THEN Append(w.met, ref.at) ELSE w.met
           c    == gs[ref.at].c
<1>1. w \in WalkState /\ w.todo \in Seq(Ref) /\ w.met \in Seq(Nat) /\ u \in WalkState
  BY VisitStays DEF Walking, WalkState
<1>2. ToSet(w.todo) \subseteq K /\ \A m \in ToSet(w.met) : [type |-> type, at |-> m] \in K
  BY DEF MetWithin
<1>3. CASE w.todo = <<>>
  <2>1. u = w
    BY <1>1, <1>3 DEF Visit
  <2> QED BY <2>1
<1>4. CASE w.todo # <<>>
  <2>1. ref \in K /\ ToSet(rest) \subseteq K /\ ref \in Ref /\ rest \in Seq(Ref)
    <3>1. ref \in ToSet(w.todo) /\ ToSet(rest) \subseteq ToSet(w.todo)
      BY <1>1, <1>4, TailWithin
    <3>2. ref \in Ref /\ rest \in Seq(Ref)
      BY <1>1, <1>4, HeadTailProperties
    <3> QED BY <1>2, <3>1, <3>2
  <2>2. /\ ref.type = "generation" /\ gs[ref.at].gen > max =>
              u = [todo |-> rest, met |-> w.met]
        /\ ref.type = "generation" /\ ~ (gs[ref.at].gen > max) =>
              u = [todo |-> c \o rest, met |-> met]
        /\ ref.type # "generation" => u = [todo |-> <<>> \o rest, met |-> met]
    BY <1>1, <1>4 DEF Visit
  <2>3. <<>> \o rest = rest
    BY <2>1, ConcatEmptySeq
  <2> HIDE DEF u, ref, rest
  <2>4. \A m \in ToSet(met) : [type |-> type, at |-> m] \in K
    <3>1. CASE ref.type = type
      <4>1. ref.at \in Nat /\ ref = [type |-> type, at |-> ref.at]
        BY <2>1, <3>1 DEF Ref, Nodes, Frames
      <4>2. ToSet(Append(w.met, ref.at)) \subseteq ToSet(w.met) \cup {ref.at}
        BY <1>1, <4>1, OneMore
      <4> QED BY <1>2, <2>1, <3>1, <4>1, <4>2
    <3>2. CASE ref.type # type
      BY <1>2, <3>2
    <3> QED BY <3>1, <3>2
  <2>5. ASSUME ref.type = "generation", ~ (gs[ref.at].gen > max)
        PROVE  ToSet(c) \subseteq K /\ c \in Seq(Ref)
    <3>1. gs[ref.at] # Null /\ Children(gs, ref.at) \subseteq K /\ ref.at \in Nodes
      BY <2>1, <2>5 DEF Within, Ref
    <3> QED BY <3>1 DEF Children, Closed, GensType, Generation
  <2>6. /\ ToSet(u.todo) \subseteq K
        /\ \A m \in ToSet(u.met) : [type |-> type, at |-> m] \in K
    <3>1. CASE ref.type = "generation" /\ gs[ref.at].gen > max
      BY <1>2, <2>1, <2>2, <3>1
    <3>2. CASE ref.type = "generation" /\ ~ (gs[ref.at].gen > max)
      <4>1. ToSet(c \o rest) \subseteq ToSet(c) \cup ToSet(rest)
        BY <2>1, <2>5, <3>2, BothApart
      <4> DEFINE both == c \o rest
      <4>2. ToSet(both) \subseteq K
        BY <2>1, <2>5, <3>2, <4>1
      <4>3. u = [todo |-> both, met |-> met]
        BY <2>2, <3>2, Zenon
      <4> HIDE DEF both, met
      <4> QED BY <2>4, <4>2, <4>3
    <3>3. CASE ref.type # "generation"
      <4> HIDE DEF met
      <4> QED BY <2>1, <2>2, <2>3, <2>4, <3>3
    <3> QED BY <3>1, <3>2, <3>3
  <2> QED BY <1>1, <2>6 DEF MetWithin, u
<1> QED BY <1>3, <1>4

LEMMA WalkWithin ==
    ASSUME NEW gs, Closed(gs), NEW i \in Made(gs), NEW max, NEW type, NEW K,
           Within(gs, max, K), GenRef(i) \in K
    PROVE  /\ Walk(gs, i, max, type) \in Seq(Nat)
           /\ \A m \in ToSet(Walk(gs, i, max, type)) : [type |-> type, at |-> m] \in K
<1> DEFINE x == [todo |-> <<GenRef(i)>>, met |-> <<>>]
           P == MetWithin(K, type)
           F == Visit(gs, max, type)
           U == Walking(gs)
<1>1. i \in Nodes /\ gs[i] # Null
  BY DEF Made
<1>2. PICK w \in Walks(gs, i, max, type) : Walk(gs, i, max, type) = w[Visits].met
  BY <1>1, WalkIs
<1>3. x \in P
  <2>1. <<GenRef(i)>> \in Seq(Ref) /\ <<>> \in Seq(Nat)
    BY <1>1 DEF GenRef, Ref
  <2>2. ToSet(<<GenRef(i)>>) = {GenRef(i)} /\ ToSet(<<>>) = {}
    BY DEF ToSet
  <2> QED BY <2>1, <2>2 DEF MetWithin, WalkState
<1>4. \A u \in P : u \in U => F[u] \in P
  BY WithinVisit
<1>5. w \in Iterates(U, F, x, Visits) /\ Visits \in Nat
  BY <1>2, VisitsType DEF Walks
<1> HIDE DEF x, P, F, U
<1>6. \A n \in 0 .. Visits : w[n] \in P
  BY <1>3, <1>4, <1>5, IteratesStay, Zenon
<1>7. w[Visits] \in P
  BY <1>5, <1>6
<1> QED BY <1>2, <1>7 DEF P, MetWithin, WalkState

\* What generations that are no older than i, and no younger than max, hold.
Kin(gs, i, max) ==
    {r \in Ref :
        /\ r.type = "generation" => gs[r.at] # Null /\ gs[i].gen <= gs[r.at].gen
        /\ r.type = "page" => \E j \in Made(gs) : /\ r \in Children(gs, j)
                                                  /\ gs[i].gen <= gs[j].gen
                                                  /\ ~ (gs[j].gen > max)}

\* Whatever a walk meets is kin of the generation it starts from.
LEMMA WalkKin ==
    ASSUME NEW gs, Closed(gs), NEW last, NEW index, InOrder(gs, last, index),
           NEW i \in Made(gs), NEW max, NEW type
    PROVE  /\ Walk(gs, i, max, type) \in Seq(Nat)
           /\ \A m \in ToSet(Walk(gs, i, max, type)) : [type |-> type, at |-> m] \in Kin(gs, i, max)
<1> DEFINE kin == Kin(gs, i, max)
<1>1. i \in Nodes /\ gs[i] # Null /\ gs[i].gen \in Nat
  BY DEF Made, Closed, GensType, Generation
<1>2. GenRef(i) \in kin
  BY <1>1, RefsDiffer DEF Kin, GenRef, Ref
<1>3. ASSUME NEW r \in kin, r.type = "generation", ~ (gs[r.at].gen > max)
      PROVE  gs[r.at] # Null /\ Children(gs, r.at) \subseteq kin
  <2>1. r.at \in Nodes /\ gs[r.at] # Null /\ gs[i].gen <= gs[r.at].gen /\ r.at \in Made(gs)
    BY <1>3 DEF Kin, Ref, Made
  <2>2. gs[r.at].c \in Seq(Ref) /\ gs[r.at].gen \in Nat
    BY <2>1 DEF Closed, GensType, Generation
  <2>3. ASSUME NEW k \in DOMAIN gs[r.at].c PROVE gs[r.at].c[k] \in kin
    <3> DEFINE d == gs[r.at].c[k]
    <3>1. d \in Ref /\ d \in Children(gs, r.at)
      BY <2>2, <2>3, ElementOfSeq, LenProperties DEF Children, ToSet
    <3>2. d.type = "generation" =>
             d.at \in Nodes /\ gs[d.at] # Null /\ gs[r.at].gen <= gs[d.at].gen
      BY <2>1, <2>3 DEF InOrder
    <3> HIDE DEF d
    <3>3. d.type = "generation" => gs[d.at].gen \in Nat
      BY <3>2 DEF Closed, GensType, Generation
    <3>4. d.type = "generation" => gs[i].gen <= gs[d.at].gen
      BY <1>1, <2>1, <2>2, <3>2, <3>3
    <3>5. d.type = "page" => d.type # "generation"
      OBVIOUS
    <3> QED BY <1>3, <2>1, <3>1, <3>2, <3>4 DEF Kin, d
  <2> QED BY <2>1, <2>3 DEF Children, ToSet
<1>4. Within(gs, max, kin)
  BY <1>3 DEF Within, Kin
<1> HIDE DEF kin
<1> QED BY <1>2, <1>4, WalkWithin DEF kin

-----------------------------------------------------------------------------
\* What a checkout of g finds, of the pages met whose nodes are ps.
Look(ps, p) == [real |-> ps[p].real, content |-> [used |-> ps[p].used, val |-> ps[p].val],
                committed |-> ps[p].committed]
Shown(met, ps) == {Look(ps, p) : p \in Range(ListOf(met, ps))}

\* The pages met keep their real addresses, where they are or where they have
\* moved, and the committed ones all that they hold.
Bears(met, moved, ps, ps2) ==
    \A q \in ToSet(met) : /\ ps2[moved[q]].real = ps[q].real
                          /\ ps[q].committed => Look(ps2, moved[q]) = Look(ps, q)
AllCommitted(view) == \A p \in view : p.committed

LEMMA ShownKept ==
    ASSUME NEW met \in Seq(Frames), NEW moved \in [Frames -> Frames], NEW ps, NEW ps2,
           AllCommitted(Shown(met, ps)), Bears(met, moved, ps, ps2)
    PROVE  Shown(Over(met, moved), ps2) = Shown(met, ps)
<1> DEFINE list  == ListOf(met, ps)
           list2 == ListOf(Over(met, moved), ps2)
<1>1. DOMAIN list2 = DOMAIN list /\ \A k \in DOMAIN list : list2[k] = moved[list[k]]
  <2>1. \A q \in ToSet(met) : ps2[moved[q]].real = ps[q].real
    BY DEF Bears
  <2> QED BY <2>1, ListMoved
<1>2. \A k \in DOMAIN list : list[k] \in ToSet(met)
  <2>1. \A k \in Firsts(met, ps) : Max(Others(met, ps, k)) \in DOMAIN met
    BY ListedOnce DEF Others
  <2> QED BY <2>1 DEF ListOf, ToSet
<1>3. \A k \in DOMAIN list : Look(ps, list[k]) \in Shown(met, ps)
  BY DEF Shown, Range
<1>4. \A p : Look(ps, p).committed = ps[p].committed
  BY DEF Look
<1> HIDE DEF list, list2
<1>5. \A k \in DOMAIN list : Look(ps2, list2[k]) = Look(ps, list[k])
  BY <1>1, <1>2, <1>3, <1>4 DEF Bears, AllCommitted
<1>6. {Look(ps2, p) : p \in Range(list2)} = {Look(ps, p) : p \in Range(list)}
  BY <1>1, <1>5 DEF Range
<1> QED BY <1>6 DEF Shown, list, list2

\* As of the step under way.
LEMMA ViewKept ==
    ASSUME NEW g, Closed(gens), gens[root] # Null, NEW moved \in [Frames -> Frames],
           PagesIn(gens', root, g) = Over(PagesIn(gens, root, g), moved),
           Bears(PagesIn(gens, root, g), moved, pages, pages'), AllCommitted(View(g))
    PROVE  View(g)' = View(g)
<1> DEFINE met  == PagesIn(gens, root, g)
           met2 == PagesIn(gens', root, g)
<1>1. met \in Seq(Frames) /\ met \in Seq(Nat) /\ met2 \in Seq(Nat)
  <2>1. met \in Seq(Frames)
    BY RelinkWalk DEF PagesIn, root, Nodes
  <2>2. met2 \in Seq(Frames)
    BY <2>1, OverSeq
  <2> QED BY <2>1, <2>2, FramesAreNumbers
<1>2. PagesUpToGen(g) = ListOf(met, pages)
  BY <1>1 DEF PagesUpToGen, SameReal, ListOf, Firsts, Others
<1>3. PagesUpToGen(g)' = ListOf(met2, pages')
  BY <1>1 DEF PagesUpToGen, SameReal, ListOf, Firsts, Others
<1>4. View(g) = Shown(met, pages)
  BY <1>2 DEF View, Shown, Look, Content
<1>5. View(g)' = Shown(met2, pages')
  BY <1>3 DEF View, Shown, Look, Content
<1>6. AllCommitted(Shown(met, pages)) /\ Bears(met, moved, pages, pages')
  BY <1>4, Zenon
<1>7. met2 = Over(met, moved)
  OBVIOUS
<1> HIDE DEF met, met2
<1>8. met \in Seq(Frames)
  BY <1>1
<1>9. Shown(Over(met, moved), pages') = Shown(met, pages)
  BY <1>6, <1>8, ShownKept
<1> QED BY <1>4, <1>5, <1>7, <1>9

\* The pages met are where they were.
LEMMA ViewStays ==
    ASSUME NEW g, Closed(gens), gens[root] # Null,
           PagesIn(gens', root, g) = PagesIn(gens, root, g),
           \A q \in ToSet(PagesIn(gens, root, g)) :
              /\ pages'[q].real = pages[q].real
              /\ pages[q].committed => Look(pages', q) = Look(pages, q),
           AllCommitted(View(g))
    PROVE  View(g)' = View(g)
<1> DEFINE met   == PagesIn(gens, root, g)
           moved == [q \in Frames |-> q]
<1>1. met \in Seq(Frames)
  <2>1. root \in Nodes /\ moved \in [Frames -> Frames]
    BY DEF root, Nodes
  <2> HIDE DEF moved
  <2> QED BY <2>1, RelinkWalk DEF PagesIn
<1>2. ToSet(met) \subseteq Frames /\ moved \in [Frames -> Frames]
  <2>1. ToSet(met) \subseteq Frames
    <3> HIDE DEF met
    <3> QED BY <1>1, ElementOfSeq, LenProperties DEF ToSet
  <2> QED BY <2>1
<1>3. Over(met, moved) = met
  <2>1. \A k \in DOMAIN met : met[k] \in Frames /\ moved[met[k]] = met[k]
    BY <1>2 DEF ToSet
  <2>2. met = [k \in DOMAIN met |-> met[k]]
    <3> HIDE DEF met
    <3> QED BY <1>1, LenProperties
  <2> HIDE DEF met, moved
  <2> QED BY <2>1, <2>2 DEF Over
<1>4. Bears(met, moved, pages, pages')
  <2>1. \A q \in ToSet(met) : moved[q] = q
    BY <1>2
  <2>2. \A q \in ToSet(met) : /\ pages'[q].real = pages[q].real
                              /\ pages[q].committed => Look(pages', q) = Look(pages, q)
    OBVIOUS
  <2> HIDE DEF met, moved
  <2> QED BY <2>1, <2>2 DEF Bears
<1>5. PagesIn(gens', root, g) = Over(met, moved)
  BY <1>3
<1>6. moved \in [Frames -> Frames]
  BY <1>2
<1> HIDE DEF moved
<1> QED BY <1>4, <1>5, <1>6, ViewKept

\* What a checkout of g meets is in generations up to g.
LEMMA MetHeld ==
    ASSUME HeapInv, GensInOrder, HeldOnce, gens[root] # Null, NEW g,
           NEW q \in ToSet(PagesIn(gens, root, g))
    PROVE  /\ q \in AllPages
           /\ \E j \in AllGens : PageRef(q) \in Children(gens, j) /\ ~ (gens[j].gen > g)
<1>1. Closed(gens) /\ root \in Made(gens) /\ Made(gens) = AllGens
  BY HeapFacts DEF Closed, GensInOrder, InOrder, Made, AllGens
<1>2. PageRef(q) \in Kin(gens, root, g)
  BY <1>1, WalkKin DEF GensInOrder, PagesIn, PageRef
<1>3. PageRef(q).type = "page"
  BY RefsDiffer
<1>4. PICK j \in AllGens : PageRef(q) \in Children(gens, j) /\ ~ (gens[j].gen > g)
  BY <1>1, <1>2, <1>3 DEF Kin
<1>5. PageRef(q) \in All(gens, AllPages)
  BY <1>1, <1>4 DEF HeldOnce, Form
<1>6. q \in AllPages
  BY <1>5, RefsDiffer DEF All
<1> QED BY <1>4, <1>6

LEMMA AgreeTrans ==
    ASSUME NEW a, NEW b, NEW c, NEW g, Agree(a, b, g), Agree(b, c, g)
    PROVE  Agree(a, c, g)
<1> SUFFICES ASSUME NEW i \in Nodes, a[i] # Null
             PROVE  /\ c[i] # Null
                    /\ c[i].gen > g <=> a[i].gen > g
                    /\ ~ (a[i].gen > g) => c[i].c = a[i].c
  BY DEF Agree
<1>1. /\ b[i] # Null /\ (b[i].gen > g <=> a[i].gen > g)
      /\ ~ (a[i].gen > g) => b[i].c = a[i].c
  BY DEF Agree
<1>2. /\ c[i] # Null /\ (c[i].gen > g <=> b[i].gen > g)
      /\ ~ (b[i].gen > g) => c[i].c = b[i].c
  BY <1>1 DEF Agree
<1> QED BY <1>1, <1>2, Zenon

LEMMA AttachAgree ==
    ASSUME NEW slot, slot.gens \in GensType, Found(slot), NEW g,
           slot.gens[slot.target].gen > g, NEW ref \in Ref
    PROVE  Agree(slot.gens, Attach(slot, ref), g)
<1> DEFINE gs  == slot.gens
           t   == slot.target
           c2  == Append(gs[t].c, ref)
           new == Attach(slot, ref)
<1>1. t \in Nodes /\ gs[t] \in Generation
  BY DEF Found, GensType
<1>2. new = [gs EXCEPT ![t] = [gs[t] EXCEPT !.c = c2]]
  BY DEF Attach
<1> HIDE DEF c2
<1>3. [gs[t] EXCEPT !.c = c2] # Null /\ [gs[t] EXCEPT !.c = c2].gen = gs[t].gen
  <2>1. c2 \in Seq(Ref)
    BY <1>1 DEF c2, Generation
  <2>2. [gs[t] EXCEPT !.c = c2] \in Generation
    BY <1>1, <2>1 DEF Generation
  <2> QED BY <1>1, <2>2 DEF Generation
<1> DEFINE d == [gs[t] EXCEPT !.c = c2]
<1> HIDE DEF gs, t, new, d
<1>4. \A i \in Nodes : new[i] = IF i = t THEN d ELSE gs[i]
  BY <1>1, <1>2 DEF GensType, gs, d
<1> QED BY <1>1, <1>3, <1>4 DEF Agree, gs, t, new, d

\* The search for a slot in a generation younger than g changes no other.
LEMMA SlotAgrees ==
    ASSUME HeapInv, GensInOrder, NEW i \in AllGens, Found(SlotBelow(i)),
           NEW g, gens[i].gen > g, g \in Nat
    PROVE  LET slot == SlotBelow(i)
           IN  /\ Agree(gens, slot.gens, g) /\ Closed(slot.gens)
               /\ slot.gens[slot.target].gen > g
<1> DEFINE slot  == SlotBelow(i)
           old   == slot.gens
           n     == lastGen + 1
           split == NewGenBetween(gens, i, n)
<1>1. /\ old \in GensType /\ slot.lastGen \in Nodes /\ InOrder(old, slot.lastGen, lastGenIndex)
      /\ \A j \in AllGens : old[j] # Null
      /\ gens \in GensType /\ lastGen \in Nodes
  BY HeapFacts, SlotBelowOrder, SlotBelowType DEF HeapInv, TypeOK
<1>2. Closed(old)
  <2> HIDE DEF slot
  <2> QED BY <1>1 DEF InOrder, Closed
<1>3. i \in Nodes /\ gens[i] # Null /\ i \in Made(gens)
  BY DEF AllGens, Made
<1>4. Agree(gens, old, g) /\ old[i].gen = gens[i].gen
  <2>1. CASE FirstFreeSlot(gens, i) # Null
    <3>1. old = gens
      BY <2>1 DEF SlotBelow
    <3> HIDE DEF slot
    <3> QED BY <3>1 DEF Agree
  <2>2. CASE FirstFreeSlot(gens, i) = Null
    <3>1. old = split /\ slot.lastGen = n
      BY <2>2 DEF SlotBelow
    <3>2. n \in Nodes /\ gens[n] = Null
      BY <1>1, <3>1 DEF GensInOrder, InOrder, Nodes
    <3>3. /\ split[n] = gens[i]
          /\ split[i].gen = gens[i].gen
          /\ \A j \in Nodes : j # n /\ j # i => split[j] = gens[j]
      BY <1>1, <1>3, <3>2, SplitIs
    <3> HIDE DEF slot, split, n
    <3>4. old[i].gen = gens[i].gen /\ \A j \in Nodes : gens[j] # Null /\ j # i => old[j] = gens[j]
      BY <3>1, <3>2, <3>3
    <3>5. ASSUME NEW j \in Nodes, gens[j] # Null
          PROVE  /\ old[j] # Null /\ (old[j].gen > g <=> gens[j].gen > g)
                 /\ ~ (gens[j].gen > g) => old[j].c = gens[j].c
      <4>1. CASE j = i
        BY <1>1, <1>3, <3>4, <4>1 DEF AllGens
      <4>2. CASE j # i
        BY <3>4, <3>5, <4>2
      <4> QED BY <4>1, <4>2
    <3>6. Agree(gens, old, g)
      BY <3>5 DEF Agree
    <3> QED BY <3>4, <3>6
  <2> QED BY <2>1, <2>2
<1>5. slot.target \in Nodes /\ old[slot.target] # Null
  BY DEF Found
<1>6. slot.target = FirstFreeSlot(old, i)
  BY DEF SlotBelow
<1>7. slot.target \in ToSet(GensIn(old, i))
  <2> DEFINE s == GensIn(old, i)
             passing == {k \in DOMAIN s : Len(old[s[k]].c) < GENERATION_CHILDREN}
  <2>1. FirstFreeSlot(old, i) = IF passing = {} THEN Null ELSE s[Min(passing)]
    BY DEF FirstFreeSlot, FirstThat
  <2>2. slot.target # Null
    BY <1>5 DEF Nodes
  <2>3. i \in Made(old)
    BY <1>1, <1>3 DEF Made, AllGens
  <2>4. s \in Seq(Nat)
    <3> HIDE DEF slot
    <3> QED BY <1>1, <1>2, <2>3, WalkKin DEF GensIn
  <2> HIDE DEF slot, s
  <2>5. passing \subseteq Nat
    BY <2>4, LenProperties
  <2>6. passing # {} /\ slot.target = s[Min(passing)]
    BY <1>6, <2>1, <2>2
  <2> HIDE DEF passing
  <2>7. Min(passing) \in passing
    BY <2>5, <2>6, MinIsOne
  <2>8. Min(passing) \in DOMAIN s
    BY <2>7 DEF passing
  <2> QED BY <2>6, <2>8 DEF ToSet, s
<1>8. GenRef(slot.target) \in Kin(old, i, MaxGen)
  <2>1. i \in Made(old)
    BY <1>1, <1>3 DEF Made, AllGens
  <2> HIDE DEF slot
  <2> QED BY <1>1, <1>2, <1>7, <2>1, WalkKin DEF GensIn, GenRef
<1>9. old[i].gen <= old[slot.target].gen
  <2> HIDE DEF slot
  <2> QED BY <1>8, RefsDiffer DEF Kin
<1>10. old[slot.target].gen \in Nat /\ gens[i].gen \in Nat
  <2> HIDE DEF slot
  <2> QED BY <1>1, <1>3, <1>5 DEF GensType, Generation
<1>11. old[slot.target].gen > g
  <2> HIDE DEF slot
  <2> QED BY <1>4, <1>9, <1>10
<1> QED BY <1>2, <1>4, <1>11

-----------------------------------------------------------------------------
\* What a step does to the view of g, where no page of it is uncommitted.
Kept(g) == AllCommitted(View(g)) => View(g)' = View(g)

LEMMA ClosedNow == ASSUME HeapInv, GensInOrder PROVE Closed(gens)
BY DEF HeapInv, TypeOK, GensType, GensInOrder, InOrder, Closed

LEMMA ClosedNext == ASSUME HeapInv', GensInOrder' PROVE Closed(gens')
BY DEF HeapInv, TypeOK, GensType, GensInOrder, InOrder, Closed

\* A step that changes no generation up to g, and no page met but an
\* uncommitted one.
LEMMA AgreeKept ==
    ASSUME HeapInv, GensInOrder, HeapInv', GensInOrder', gens[root] # Null, NEW g,
           Agree(gens, gens', g),
           \A q \in ToSet(PagesIn(gens, root, g)) :
              /\ pages'[q].real = pages[q].real
              /\ pages[q].committed => Look(pages', q) = Look(pages, q)
    PROVE  Kept(g)
<1>1. Closed(gens) /\ Closed(gens') /\ root \in Nodes
  BY ClosedNow, ClosedNext, HeapFacts
<1>2. PagesIn(gens', root, g) = PagesIn(gens, root, g)
  BY <1>1, AgreeWalk DEF PagesIn
<1> QED BY <1>1, <1>2, ViewStays DEF Kept

LEMMA FlagKept ==
    ASSUME HeapInv, GensInOrder, HeldOnce, HeapInv', GensInOrder', gens[root] # Null, NEW g,
           FlagCommitted
    PROVE  Kept(g)
<1> DEFINE gs == AllGens \cap ToSet(GensIn(gens, working))
           ps == AllPages \cap ToSet(PagesIn(gens, working, MaxGen))
<1>1. /\ gens' = [i \in Nodes |-> IF i \in gs THEN [gens[i] EXCEPT !.committed = TRUE]
                                               ELSE gens[i]]
      /\ pages' = [f \in Frames |-> IF f \in ps THEN [pages[f] EXCEPT !.committed = TRUE]
                                                 ELSE pages[f]]
  BY DEF FlagCommitted
<1>2. gs \subseteq AllGens /\ ps \subseteq AllPages
  OBVIOUS
<1> HIDE DEF gs, ps
<1>3. \A i \in AllGens : /\ [gens[i] EXCEPT !.committed = TRUE] # Null
                         /\ [gens[i] EXCEPT !.committed = TRUE].c = gens[i].c
                         /\ [gens[i] EXCEPT !.committed = TRUE].gen = gens[i].gen
  BY HeapFacts DEF Generation
<1>4. Agree(gens, gens', g)
  BY <1>1, <1>2, <1>3 DEF Agree, AllGens
<1>5. ASSUME NEW q \in ToSet(PagesIn(gens, root, g))
      PROVE  /\ pages'[q].real = pages[q].real
             /\ pages[q].committed => Look(pages', q) = Look(pages, q)
  <2>1. q \in Frames /\ pages[q] \in Page
    BY MetHeld, HeapFacts
  <2>2. /\ [pages[q] EXCEPT !.committed = TRUE].real = pages[q].real
        /\ [pages[q] EXCEPT !.committed = TRUE].used = pages[q].used
        /\ [pages[q] EXCEPT !.committed = TRUE].val = pages[q].val
        /\ [pages[q] EXCEPT !.committed = TRUE].committed = TRUE
    BY <2>1 DEF Page
  <2> QED BY <1>1, <2>1, <2>2 DEF Look, Page
<1> QED BY <1>4, <1>5, AgreeKept

\* A page that is met is in no generation younger than g.
LEMMA NotMet ==
    ASSUME HeapInv, GensInOrder, HeldOnce, gens[root] # Null, NEW g,
           NEW i \in AllGens, gens[i].gen > g, NEW q \in ToSet(PagesIn(gens, i, MaxGen)), g \in Nat
    PROVE  q \notin ToSet(PagesIn(gens, root, g))
<1> SUFFICES ASSUME q \in ToSet(PagesIn(gens, root, g)) PROVE FALSE
  OBVIOUS
<1>1. Closed(gens) /\ i \in Made(gens) /\ Made(gens) = AllGens
  BY HeapFacts, ClosedNow DEF Made, AllGens
<1>2. PageRef(q) \in Kin(gens, i, MaxGen)
  BY <1>1, WalkKin DEF GensInOrder, PagesIn, PageRef
<1>3. PICK j \in AllGens : PageRef(q) \in Children(gens, j) /\ gens[i].gen <= gens[j].gen
  BY <1>1, <1>2, RefsDiffer DEF Kin
<1>4. PICK k \in AllGens : PageRef(q) \in Children(gens, k) /\ ~ (gens[k].gen > g)
  BY MetHeld
<1>5. j = k
  BY <1>1, <1>3, <1>4 DEF HeldOnce, Form
<1>6. gens[i].gen \in Nat /\ gens[j].gen \in Nat
  BY HeapFacts DEF Generation
<1> QED BY <1>3, <1>4, <1>5, <1>6

LEMMA SameGensAgree ==
    ASSUME NEW gs, NEW g PROVE Agree(gs, gs, g)
BY DEF Agree

LEMMA MallocFitsKept ==
    ASSUME HeapInv, GensInOrder, HeldOnce, HeapInv', GensInOrder', gens[root] # Null,
           NEW g \in Nat, gens[working].gen > g, NEW size, NEW p, MallocFits(size, p)
    PROVE  Kept(g)
<1>1. /\ p \in AllPages /\ p = FirstPageFit(gens, working, size) /\ gens' = gens
      /\ pages' = [pages EXCEPT ![p].used = @ + size] /\ working # committed
  BY DEF MallocFits
<1>2. working \in AllGens /\ Closed(gens)
  BY <1>1, HeapFacts, ClosedNow DEF HeapInv, TypeOK, MallocFits
<1>3. p \in ToSet(PagesIn(gens, working, MaxGen))
  <2> DEFINE s == PagesIn(gens, working, MaxGen)
             passing == {k \in DOMAIN s : pages[s[k]].used + size <= Units * pages[s[k]].pages}
  <2>1. p = IF passing = {} THEN Null ELSE s[Min(passing)]
    BY <1>1 DEF FirstPageFit, FirstThat
  <2>2. s \in Seq(Nat)
    BY <1>2, WalkKin DEF PagesIn, Made, AllGens, GensInOrder
  <2>3. p # Null
    BY <1>1 DEF AllPages, Frames
  <2> HIDE DEF s
  <2>4. passing \subseteq Nat
    BY <2>2, LenProperties
  <2>5. Min(passing) \in passing
    <3>1. passing # {}
      BY <2>1, <2>3
    <3> HIDE DEF passing
    <3> QED BY <2>4, <3>1, MinIsOne
  <2>6. Min(passing) \in DOMAIN s
    BY <2>5
  <2> QED BY <2>1, <2>3, <2>6 DEF ToSet, s
<1>4. p \notin ToSet(PagesIn(gens, root, g))
  BY <1>2, <1>3, NotMet
<1>5. ASSUME NEW q \in ToSet(PagesIn(gens, root, g))
      PROVE  pages'[q] = pages[q]
  BY <1>1, <1>4, HeapFacts DEF PagesType
<1> QED BY <1>1, <1>5, SameGensAgree, AgreeKept DEF Look

\* A store that does not fault, where no committed page that some generation
\* holds may be stored to.
LEMMA PlainWriteKept ==
    ASSUME HeapInv, GensInOrder, HeldOnce, HeapInv', GensInOrder', gens[root] # Null,
           NEW g, NEW f, PlainWrite(f),
           \A i \in AllGens : \A ref \in ToSet(gens[i].c) :
              ref.type = "page" /\ Covers(ref.at, f) => ~ pages[ref.at].committed
    PROVE  Kept(g)
<1>1. PICK p \in AllPages : Covers(p, f) /\ pages' = [pages EXCEPT ![p].val = lastGenIndex]
  BY DEF PlainWrite
<1>2. gens' = gens /\ pages[p] \in Page /\ p \in Frames
  BY HeapFacts DEF PlainWrite
<1>3. ASSUME NEW q \in ToSet(PagesIn(gens, root, g))
      PROVE  /\ pages'[q].real = pages[q].real
             /\ pages[q].committed => Look(pages', q) = Look(pages, q)
  <2>1. CASE q # p
    <3>1. pages'[q] = pages[q]
      BY <1>1, <2>1, HeapFacts DEF PagesType
    <3> QED BY <3>1 DEF Look
  <2>2. CASE q = p
    <3>1. PICK j \in AllGens : PageRef(q) \in Children(gens, j)
      BY MetHeld
    <3>2. ~ pages[p].committed
      BY <1>1, <2>2, <3>1, RefsDiffer DEF Children
    <3>3. pages'[p].real = pages[p].real
      BY <1>1, <1>2, HeapFacts DEF PagesType, Page
    <3> QED BY <2>2, <3>2, <3>3
  <2> QED BY <2>1, <2>2
<1> QED BY <1>2, <1>3, SameGensAgree, AgreeKept

\* The frame of the next page is in no page there is.
LEMMA FreshNotMet ==
    ASSUME HeapInv, GensInOrder, HeldOnce, gens[root] # Null, NEW n \in Nat \ {0}, RoomFor(n),
           NEW g, NEW q \in ToSet(PagesIn(gens, root, g))
    PROVE  q # FreshPage /\ FreshPage \in Frames /\ q \in AllPages
BY MetHeld, FreshPageIsFree

LEMMA NewPageKept ==
    ASSUME HeapInv, GensInOrder, HeldOnce, HeapInv', GensInOrder', gens[root] # Null,
           NEW g \in Nat, gens[working].gen > g, NEW size \in Nat \ {0},
           MallocDies(size) \/ \E p \in Frames : MallocGrows(size, p)
    PROVE  Kept(g)
<1> DEFINE slot == SlotBelow(working)
           n    == (size \div Units) + 1
<1>1. /\ Found(slot) /\ RoomFor(n) /\ working # committed
      /\ gens' = slot.gens \/ (FreshPage \in Frames /\ gens' = Attach(slot, PageRef(FreshPage)))
  BY DEF MallocGrows, MallocDies
<1>2. PICK node : pages' = [pages EXCEPT ![FreshPage] = node]
  BY DEF MallocGrows, MallocDies
<1>3. working \in AllGens
  BY <1>1, HeapFacts DEF HeapInv, TypeOK, MallocGrows, MallocDies
<1>4. n \in Nat \ {0}
  <2>1. size \div Units \in Nat
    BY Z3
  <2> QED BY <2>1
<1>5. /\ Agree(gens, slot.gens, g) /\ Closed(slot.gens)
      /\ slot.gens[slot.target].gen > g
  BY <1>1, <1>3, SlotAgrees, Zenon
<1> HIDE DEF slot, n
<1>6. Agree(gens, gens', g)
  <2>1. CASE gens' = slot.gens
    BY <1>5, <2>1
  <2>2. CASE FreshPage \in Frames /\ gens' = Attach(slot, PageRef(FreshPage))
    <3>1. PageRef(FreshPage) \in Ref /\ slot.gens \in GensType
      BY <1>5, <2>2 DEF PageRef, Ref, Closed
    <3>2. Agree(slot.gens, Attach(slot, PageRef(FreshPage)), g)
      BY <1>1, <1>5, <3>1, AttachAgree
    <3> QED BY <1>5, <2>2, <3>2, AgreeTrans
  <2> QED BY <1>1, <2>1, <2>2
<1>7. ASSUME NEW q \in ToSet(PagesIn(gens, root, g)) PROVE pages'[q] = pages[q]
  <2>1. q # FreshPage /\ q \in Frames
    BY <1>1, <1>4, FreshNotMet, HeapFacts
  <2> QED BY <1>2, <2>1, HeapFacts DEF PagesType
<1> QED BY <1>6, <1>7, AgreeKept DEF Look

\* The copy has the place of the page, wherever that is.
LEMMA CopyKept ==
    ASSUME HeapInv, GensInOrder, HeldOnce, HeapInv', GensInOrder', gens[root] # Null,
           NEW g \in Nat, gens[working].gen > g, working \in AllGens, Found(SlotBelow(working)),
           NEW p \in AllPages, RoomFor(pages[p].pages),
           Agree(CopyInPlace(SlotBelow(working), p), gens', g),
           pages'[FreshPage] = pages[p],
           \A q \in AllPages : q # p => pages'[q] = pages[q]
    PROVE  Kept(g)
<1> DEFINE slot   == SlotBelow(working)
           old    == slot.gens
           moved  == [q \in Frames |-> IF q = p THEN FreshPage ELSE q]
           placed == Relink(old, moved)
           met    == PagesIn(gens, root, g)
<1>1. /\ Agree(gens, old, g) /\ Closed(old)
  BY SlotAgrees, Zenon
<1>2. /\ Closed(gens) /\ Closed(gens') /\ root \in Nodes
      /\ p \in Frames /\ pages[p].pages \in Nat \ {0}
  BY ClosedNow, ClosedNext, HeapFacts DEF Page
<1>3. FreshPage \in Frames
  BY <1>2, FreshPageIsFree
<1>4. moved \in [Frames -> Frames]
  BY <1>3
<1>5. placed = CopyInPlace(slot, p)
  BY DEF CopyInPlace
<1>6. \A q \in Frames : moved[q] = IF q = p THEN FreshPage ELSE q
  OBVIOUS
<1> HIDE DEF slot, moved
<1>7. old[root] # Null /\ PagesIn(old, root, g) = met
  BY <1>1, <1>2, AgreeWalk DEF PagesIn, Agree
<1>8. Closed(placed) /\ placed[root] # Null /\ PagesIn(placed, root, g) = Over(met, moved)
  <2>1. Walk(placed, root, g, "page") = Over(Walk(old, root, g, "page"), moved)
    BY <1>1, <1>2, <1>4, <1>7, RelinkWalk
  <2>2. Closed(placed) /\ placed[root] # Null
    BY <1>1, <1>2, <1>4, <1>7, RelinkClosed, RelinkType DEF Closed
  <2> QED BY <1>7, <2>1, <2>2 DEF PagesIn
<1> HIDE DEF placed
<1>9. PagesIn(gens', root, g) = Over(met, moved)
  <2>1. Agree(placed, gens', g)
    BY <1>5 DEF slot
  <2>2. Walk(gens', root, g, "page") = Walk(placed, root, g, "page")
    BY <1>2, <1>8, <2>1, AgreeWalk
  <2> QED BY <1>8, <2>2 DEF PagesIn
<1>10. ASSUME NEW q \in ToSet(met) PROVE pages'[moved[q]] = pages[q]
  <2>1. q \in AllPages /\ q \in Frames
    BY MetHeld, HeapFacts
  <2> QED BY <1>6, <2>1
<1>11. Bears(met, moved, pages, pages')
  BY <1>10 DEF Bears, Look
<1> HIDE DEF met
<1>12. ASSUME AllCommitted(View(g)) PROVE View(g)' = View(g)
  BY <1>2, <1>4, <1>9, <1>11, <1>12, ViewKept DEF met
<1> QED BY <1>12 DEF Kept

LEMMA TrappedWriteKept ==
    ASSUME HeapInv, GensInOrder, HeldOnce, HeapInv', GensInOrder', gens[root] # Null,
           NEW g \in Nat, gens[working].gen > g, NEW f \in Frames, TrappedWrite(f)
    PROVE  Kept(g)
<1> DEFINE p      == FindPage(f)
           slot   == SlotBelow(working)
           placed == CopyInPlace(slot, p)
           copied == [slot EXCEPT !.gens = placed]
<1>1. /\ p \in AllPages /\ Found(slot) /\ RoomFor(pages[p].pages)
      /\ gens' = Attach(copied, PageRef(p))
      /\ pages' = [pages EXCEPT ![FreshPage] = CopyOf(p),
                                ![p] = [pages[p] EXCEPT !.committed = FALSE,
                                                        !.val = lastGenIndex]]
      /\ working # committed
  BY DEF TrappedWrite, Trappable
<1>2. working \in AllGens
  BY HeapFacts DEF TrappedWrite, Trappable, HeapInv, TypeOK, AllGens
<1>3. /\ Closed(slot.gens) /\ slot.gens[slot.target].gen > g
  BY <1>1, <1>2, SlotAgrees, Zenon
<1>4. /\ placed \in GensType
      /\ \A j \in Nodes : placed[j] = Null <=> slot.gens[j] = Null
  BY <1>1, <1>2, CopyInPlaceType, Zenon
<1>5. copied.gens = placed /\ copied.target = slot.target
  BY DEF SlotBelow
<1>6. p \in Frames /\ FreshPage \in Frames \ AllPages
  <2>1. p \in Frames /\ pages[p].pages \in Nat \ {0}
    BY <1>1, HeapFacts DEF Page
  <2> HIDE DEF p
  <2> QED BY <1>1, <2>1, FreshPageIsFree
<1>7. placed[slot.target].gen = slot.gens[slot.target].gen
  <2> DEFINE moved == [q \in Frames |-> IF q = p THEN FreshPage ELSE q]
  <2>1. moved \in [Frames -> Frames] /\ placed = Relink(slot.gens, moved)
    BY <1>6 DEF CopyInPlace
  <2>2. slot.target \in Nodes /\ slot.gens[slot.target] # Null /\ slot.gens \in GensType
    BY <1>1, <1>3 DEF Found, Closed
  <2> HIDE DEF moved, placed, slot
  <2> QED BY <2>1, <2>2, RelinkIs
<1>8. PageRef(p) \in Ref
  BY <1>6 DEF PageRef, Ref
<1> HIDE DEF p, slot, copied
<1>9. Found(copied)
  <2> HIDE DEF placed
  <2> QED BY <1>1, <1>4, <1>5 DEF Found, copied, slot, SlotBelow
<1> HIDE DEF placed
<1>10. Agree(placed, gens', g)
  <2>1. Agree(copied.gens, Attach(copied, PageRef(p)), g)
    BY <1>3, <1>4, <1>5, <1>7, <1>8, <1>9, AttachAgree
  <2> QED BY <1>1, <1>5, <2>1
<1>11. pages'[FreshPage] = pages[p] /\ \A q \in AllPages : q # p => pages'[q] = pages[q]
  BY <1>1, <1>6, HeapFacts DEF PagesType, CopyOf
<1> QED BY <1>1, <1>2, <1>10, <1>11, CopyKept DEF placed, slot

LEMMA TrapDiesKept ==
    ASSUME HeapInv, GensInOrder, HeldOnce, HeapInv', GensInOrder', gens[root] # Null,
           NEW g \in Nat, gens[working].gen > g, NEW f \in Frames, TrapDies(f)
    PROVE  Kept(g)
<1> DEFINE p      == FindPage(f)
           slot   == SlotBelow(working)
           placed == CopyInPlace(slot, p)
<1>1. PICK done \in 1 .. 4 :
        /\ gens' = CASE done = 1 -> gens
                     [] done = 2 -> slot.gens
                     [] done > 2 -> placed
        /\ pages' = [pages EXCEPT ![FreshPage] = CopyOf(p), ![p].committed = done < 4]
  BY Zenon DEF TrapDies
<1>2. /\ p \in AllPages /\ Found(slot) /\ RoomFor(pages[p].pages) /\ pages[p].committed
      /\ working # committed
  BY DEF TrapDies, Trappable
<1>3. working \in AllGens
  BY HeapFacts DEF TrapDies, Trappable, HeapInv, TypeOK, AllGens
<1>4. p \in Frames /\ FreshPage \in Frames \ AllPages /\ pages[p] \in Page
      /\ pages[p].pages \in Nat \ {0}
  <2>1. p \in Frames /\ pages[p].pages \in Nat \ {0} /\ pages[p] \in Page
    BY <1>2, HeapFacts DEF Page
  <2> HIDE DEF p
  <2> QED BY <1>2, <2>1, FreshPageIsFree
<1>5. Agree(gens, slot.gens, g)
  BY <1>2, <1>3, SlotAgrees, Zenon
<1> HIDE DEF p, slot, placed
<1>6. /\ \A q \in AllPages : q # p => pages'[q] = pages[q]
      /\ pages'[FreshPage] = pages[p]
      /\ pages'[p] = [pages[p] EXCEPT !.committed = done < 4]
  BY <1>1, <1>2, <1>4, HeapFacts DEF PagesType, CopyOf
<1>7. CASE done > 2
  <2>1. gens' = placed
    BY <1>1, <1>7
  <2>2. Agree(placed, gens', g)
    BY <2>1, SameGensAgree
  <2> QED BY <1>2, <1>3, <1>6, <2>2, CopyKept DEF placed, slot
<1>8. CASE ~ (done > 2)
  <2>1. gens' = gens \/ gens' = slot.gens
    BY <1>1, <1>8
  <2>2. Agree(gens, gens', g)
    BY <1>5, <2>1, SameGensAgree
  <2>3. pages'[p] = pages[p]
    <3>1. (done < 4) = TRUE
      BY <1>8
    <3>2. [pages[p] EXCEPT !.committed = TRUE] = pages[p]
      BY <1>2, <1>4 DEF Page
    <3> QED BY <1>6, <3>1, <3>2
  <2>4. ASSUME NEW q \in ToSet(PagesIn(gens, root, g)) PROVE pages'[q] = pages[q]
    BY <1>6, <2>3, MetHeld
  <2> QED BY <2>2, <2>4, AgreeKept DEF Look
<1> QED BY <1>7, <1>8

LEMMA CheckoutSwapKept ==
    ASSUME HeapInv, GensInOrder, HeldOnce, HeapInv', GensInOrder', gens[root] # Null,
           NEW g, CheckoutSwap
    PROVE  Kept(g)
<1> DEFINE p     == NextToMove
           home  == pages[p].real
           moved == Exchanged(p, home)
           met   == PagesIn(gens, root, g)
<1>1. /\ p \in AllPages /\ gens' = Relink(gens, moved)
      /\ pages' = [pages EXCEPT ![p] = pages[home], ![home] = pages[p]]
  BY DEF CheckoutSwap
<1> HIDE DEF p
<1>2. p \in Frames /\ home \in Frames /\ pages \in PagesType
  BY <1>1, HeapFacts DEF HeapInv, PagesHaveHomes, AllPages
<1> HIDE DEF home
<1>3. moved \in [Frames -> Frames]
  BY <1>2 DEF Exchanged
<1>4. \A q \in Frames : pages'[moved[q]] = pages[q]
  BY <1>1, <1>2 DEF Exchanged, PagesType
<1> HIDE DEF moved
<1>5. Closed(gens) /\ root \in Nodes
  BY ClosedNow, HeapFacts
<1>6. met \in Seq(Frames) /\ PagesIn(gens', root, g) = Over(met, moved)
  BY <1>1, <1>3, <1>5, RelinkWalk DEF PagesIn
<1>7. Bears(met, moved, pages, pages')
  <2>1. ASSUME NEW q \in ToSet(met) PROVE pages'[moved[q]] = pages[q]
    BY <1>4, MetHeld, HeapFacts
  <2> QED BY <2>1 DEF Bears, Look
<1> HIDE DEF met
<1>8. ASSUME AllCommitted(View(g)) PROVE View(g)' = View(g)
  BY <1>3, <1>5, <1>6, <1>7, <1>8, ViewKept DEF met
<1> QED BY <1>8 DEF Kept

\* Up to g, the tree with the generation that snap_begin_mut makes is walked
\* like the tree before.
LEMMA BegunWalk ==
    ASSUME HeapInv, GensInOrder, HeldOnce, committed \in AllGens, lastGenIndex < MaxGen,
           Found(SlotBelow(committed)), SlotBelow(committed).lastGen + 1 \in Nodes, NEW g
    PROVE  LET slot == SlotBelow(committed)
               next == slot.lastGen + 1
               made == [slot.gens EXCEPT ![next] = NewGen(lastGenIndex + 1)]
           IN  /\ Closed(made) /\ made[root] # Null /\ next \in Made(made)
               /\ made[next].gen = lastGenIndex + 1
               /\ Walk(made, root, g, "page") = Walk(gens, root, g, "page")
<1> DEFINE slot  == SlotBelow(committed)
           next  == slot.lastGen + 1
           old   == slot.gens
           node  == NewGen(lastGenIndex + 1)
           made  == [old EXCEPT ![next] = node]
           n     == lastGen + 1
           split == NewGenBetween(gens, committed, n)
<1>1. /\ old \in GensType /\ InOrder(old, slot.lastGen, lastGenIndex)
      /\ \A j \in AllGens : old[j] # Null
      /\ gens \in GensType /\ lastGen \in Nodes /\ slot.lastGen \in Nodes
  BY HeapFacts, SlotBelowOrder, SlotBelowType DEF HeapInv, TypeOK
<1>2. made \in GensType
  BY NewGenType, Zenon
<1>3. InOrder(made, next, lastGenIndex + 1)
  BY BeginOrder, Zenon
<1>4. old[next] = Null /\ next # root
  BY BegunForm, Zenon
<1>5. Closed(gens) /\ root \in Nodes /\ gens[root] # Null /\ committed \in Made(gens)
  BY ClosedNow, HeapFacts DEF HeapInv, TypeOK, Made, AllGens
<1>6. Closed(old) /\ old[root] # Null
  <2> HIDE DEF slot
  <2> QED BY <1>1, <1>5 DEF InOrder, Closed, AllGens
<1>7. Walk(old, root, g, "page") = Walk(gens, root, g, "page")
  <2>1. CASE FirstFreeSlot(gens, committed) # Null
    <3>1. old = gens
      BY <2>1 DEF SlotBelow
    <3> QED BY <3>1
  <2>2. CASE FirstFreeSlot(gens, committed) = Null
    <3>1. old = split /\ slot.lastGen = n
      BY <2>2 DEF SlotBelow
    <3>2. n \in Nodes /\ gens[n] = Null /\ n # root
      BY <1>1, <3>1 DEF GensInOrder, InOrder, Nodes, root
    <3>3. AllPages \in SUBSET Frames /\ Form(gens, AllPages)
      BY DEF AllPages, HeldOnce
    <3> HIDE DEF slot, split, n
    <3>4. Closed(split) /\ split = NewGenBetween(gens, committed, n)
      BY <1>6, <3>1 DEF split
    <3>5. Walk(split, root, g, "page") = Walk(gens, root, g, "page")
      BY <1>5, <3>2, <3>3, <3>4, SplitWalk
    <3> QED BY <3>1, <3>5
  <2> QED BY <2>1, <2>2
<1>8. next \in Nodes
  OBVIOUS
<1>9. node.gen = lastGenIndex + 1
  BY DEF NewGen
<1> HIDE DEF slot, next, node
<1>10. made[next] = node /\ \A j \in Nodes : j # next => made[j] = old[j]
  BY <1>1, <1>8 DEF GensType
<1> HIDE DEF made
<1>11. made[next] # Null
  <2>1. \A j \in AllGens \cup {next} : made[j] # Null
    BY NewGenType, Zenon DEF made, node, next, slot
  <2> QED BY <2>1
<1>12. Closed(made)
  BY <1>2, <1>3 DEF InOrder, Closed
<1>13. Agree(old, made, g)
  BY <1>4, <1>10 DEF Agree
<1>14. Walk(made, root, g, "page") = Walk(old, root, g, "page")
  BY <1>5, <1>6, <1>12, <1>13, AgreeWalk
<1>15. made[root] # Null
  BY <1>4, <1>5, <1>6, <1>10
<1> DEFINE Goal == /\ Closed(made) /\ made[root] # Null /\ next \in Made(made)
                   /\ made[next].gen = lastGenIndex + 1
                   /\ Walk(made, root, g, "page") = Walk(gens, root, g, "page")
<1>16. Goal
  BY <1>7, <1>8, <1>9, <1>10, <1>11, <1>12, <1>14, <1>15 DEF Made
<1> QED BY <1>16 DEF made, node, next, slot

LEMMA BeginKept ==
    ASSUME HeapInv, GensInOrder, HeldOnce, HeapInv', GensInOrder', HeldOnce',
           gens[root] # Null, NEW g \in Nat, g <= lastGenIndex, BeginMut \/ BeginDies
    PROVE  Kept(g)
<1> DEFINE slot == SlotBelow(committed)
           next == slot.lastGen + 1
           node == NewGen(lastGenIndex + 1)
           made == [slot.gens EXCEPT ![next] = node]
           with == [slot EXCEPT !.gens[next] = node]
<1>1. /\ Found(slot) /\ next \in Nodes /\ committed \in AllGens /\ lastGenIndex < MaxGen
      /\ pages' = pages
      /\ gens' = Attach(with, GenRef(next)) \/ gens' = made
  BY DEF HeapInv, TypeOK, BeginMut, BeginDies
<1>2. /\ Closed(made) /\ made[root] # Null /\ next \in Made(made)
      /\ made[next].gen = lastGenIndex + 1
      /\ Walk(made, root, g, "page") = Walk(gens, root, g, "page")
  BY <1>1, BegunWalk, Zenon
<1>3. /\ Made(made) = Made(slot.gens) \cup {next} /\ slot.gens[next] = Null
  BY <1>1, BegunForm, Zenon
<1>4. with.gens = made /\ with.target = slot.target
  BY DEF SlotBelow
<1>5. slot.target \in Made(made) /\ slot.target # next
  BY <1>1, <1>3 DEF Found, Made
<1> HIDE DEF slot, next, node, with
<1>6. Closed(gens) /\ Closed(gens') /\ root \in Nodes /\ lastGenIndex \in Nat
  BY ClosedNow, ClosedNext, HeapFacts DEF HeapInv, TypeOK
<1>7. PagesIn(gens', root, g) = PagesIn(gens, root, g)
  <2>1. CASE gens' = made
    BY <1>2, <2>1 DEF PagesIn
  <2>2. CASE gens' = Attach(with, GenRef(next))
    <3> DEFINE t  == slot.target
               c2 == Append(made[t].c, GenRef(next))
               d  == [made[t] EXCEPT !.c = c2]
    <3>1. gens' = [made EXCEPT ![t] = d]
      BY <1>4, <2>2 DEF Attach
    <3>2. made[t] \in Generation /\ made \in GensType /\ t \in Nodes
      BY <1>2, <1>5 DEF Closed, GensType, Made
    <3> HIDE DEF made, t, c2
    <3>3. d.c = c2 /\ d.gen = made[t].gen
      BY <3>2 DEF Generation
    <3> HIDE DEF d
    <3>4. \A j \in Nodes : gens'[j] = IF j = t THEN d ELSE made[j]
      BY <3>1, <3>2 DEF GensType
    <3>5. d # Null
      <4>1. c2 \in Seq(Ref)
        <5>1. GenRef(next) \in Ref
          BY <1>1 DEF GenRef, Ref
        <5> QED BY <3>2, <5>1 DEF c2, Generation
      <4>2. d \in Generation
        BY <3>2, <4>1 DEF d, Generation
      <4> QED BY <4>2
    <3>6. Hung(made, gens', t, next)
      <4>1. \A j \in Made(made) : gens'[j] # Null /\ gens'[j].gen = made[j].gen
        BY <3>3, <3>4, <3>5 DEF Made
      <4>2. \A j \in Made(made) : j # t => gens'[j].c = made[j].c
        BY <3>4 DEF Made
      <4>3. gens'[t].c = Append(made[t].c, GenRef(next))
        BY <3>2, <3>3, <3>4 DEF c2
      <4> QED BY <4>1, <4>2, <4>3 DEF Hung
    <3>7. AllPages \in SUBSET Frames /\ Form(gens', AllPages)
      BY <1>1 DEF AllPages, HeldOnce
    <3>8. made[next].gen > g
      BY <1>2, <1>6
    <3>9. t \in Made(made)
      BY <1>5 DEF t
    <3>10. Walk(gens', root, g, "page") = Walk(made, root, g, "page")
      BY <1>2, <1>6, <3>6, <3>7, <3>8, <3>9, HungWalk
    <3> QED BY <1>2, <3>10 DEF PagesIn
  <2> QED BY <1>1, <2>1, <2>2
<1>8. \A q \in ToSet(PagesIn(gens, root, g)) :
         /\ pages'[q].real = pages[q].real
         /\ pages[q].committed => Look(pages', q) = Look(pages, q)
  BY <1>1
<1> QED BY <1>6, <1>7, <1>8, ViewStays DEF Kept

-----------------------------------------------------------------------------
\* The generations of gs are in new too, with their ids.
SameIds(gs, new) ==
    \A i \in Nodes : gs[i] # Null => new[i] # Null /\ new[i].gen = gs[i].gen

LEMMA AttachIds ==
    ASSUME NEW slot, slot.gens \in GensType, Found(slot), NEW ref \in Ref
    PROVE  SameIds(slot.gens, Attach(slot, ref))
<1> DEFINE gs == slot.gens
           t  == slot.target
           c2 == Append(gs[t].c, ref)
           d  == [gs[t] EXCEPT !.c = c2]
<1>1. t \in Nodes /\ gs[t] \in Generation
  BY DEF Found, GensType
<1>2. Attach(slot, ref) = [gs EXCEPT ![t] = d]
  BY DEF Attach
<1>3. \A i \in Nodes : Attach(slot, ref)[i] = Null <=> gs[i] = Null
  BY AttachType
<1> HIDE DEF c2
<1>4. d.gen = gs[t].gen
  BY <1>1 DEF Generation
<1> HIDE DEF d, gs, t
<1>5. \A i \in Nodes : Attach(slot, ref)[i] = IF i = t THEN d ELSE gs[i]
  BY <1>1, <1>2 DEF GensType, gs
<1> QED BY <1>3, <1>4, <1>5 DEF SameIds, gs

LEMMA SlotIds ==
    ASSUME HeapInv, GensInOrder, NEW i \in AllGens, Found(SlotBelow(i))
    PROVE  SameIds(gens, SlotBelow(i).gens)
<1> DEFINE n     == lastGen + 1
           split == NewGenBetween(gens, i, n)
<1>1. gens \in GensType /\ lastGen \in Nodes /\ i \in Nodes /\ gens[i] # Null /\ i \in Made(gens)
  BY HeapFacts DEF HeapInv, TypeOK, AllGens, Made
<1>2. \A j \in AllGens : SlotBelow(i).gens[j] # Null
  BY <1>1, SlotBelowType
<1>3. CASE FirstFreeSlot(gens, i) # Null
  BY <1>3 DEF SlotBelow, SameIds
<1>4. CASE FirstFreeSlot(gens, i) = Null
  <2>1. SlotBelow(i).gens = split /\ SlotBelow(i).lastGen = n
    BY <1>4 DEF SlotBelow
  <2>2. n \in Nodes /\ gens[n] = Null
    BY <1>1, <2>1 DEF Found, GensInOrder, InOrder, Nodes
  <2>3. /\ split[i].gen = gens[i].gen
        /\ \A j \in Nodes : j # n /\ j # i => split[j] = gens[j]
    BY <1>1, <2>2, SplitIs
  <2> HIDE DEF split, n
  <2>4. \A j \in Nodes : gens[j] # Null => split[j].gen = gens[j].gen
    BY <2>2, <2>3
  <2> QED BY <1>2, <2>1, <2>4 DEF SameIds, AllGens
<1> QED BY <1>3, <1>4

LEMMA RelinkIds ==
    ASSUME NEW gs \in GensType, NEW moved \in [Frames -> Frames]
    PROVE  SameIds(gs, Relink(gs, moved))
BY RelinkIs DEF SameIds

\* A trap keeps the ids of the generations.
LEMMA TrappedWriteIds ==
    ASSUME HeapInv, GensInOrder, NEW f \in Frames, TrappedWrite(f)
    PROVE  SameIds(gens, gens')
<1> DEFINE p      == FindPage(f)
           slot   == SlotBelow(working)
           placed == CopyInPlace(slot, p)
           with   == [slot EXCEPT !.gens = placed]
<1>1. /\ p \in AllPages /\ Found(slot) /\ RoomFor(pages[p].pages)
      /\ gens' = Attach(with, PageRef(p)) /\ working # committed
  BY DEF TrappedWrite, Trappable
<1>2. working \in AllGens /\ gens[root] # Null
  BY <1>1, HeapFacts DEF HeapInv, TypeOK
<1>3. SameIds(gens, slot.gens)
  BY <1>1, <1>2, SlotIds
<1>4. /\ slot.gens \in GensType /\ placed \in GensType
      /\ \A j \in Nodes : placed[j] = Null <=> slot.gens[j] = Null
  BY <1>1, <1>2, CopyInPlaceType, Zenon
<1>5. with.gens = placed /\ with.lastGen = slot.lastGen /\ with.target = slot.target
  BY DEF SlotBelow
<1>6. FreshPage \in Frames
  BY <1>1, <1>2, HeapFacts, FreshPageIsFree DEF Page
<1>7. [q \in Frames |-> IF q = p THEN FreshPage ELSE q] \in [Frames -> Frames]
  BY <1>6
<1>8. SameIds(slot.gens, placed)
  BY <1>4, <1>7, RelinkIds DEF CopyInPlace
<1> HIDE DEF slot, p, placed, with
<1>9. Found(with)
  BY <1>1, <1>4, <1>5 DEF Found
<1>10. PageRef(p) \in Ref
  BY <1>1 DEF PageRef, Ref, AllPages
<1>11. SameIds(placed, gens')
  BY <1>1, <1>4, <1>5, <1>9, <1>10, AttachIds
<1> QED BY <1>3, <1>8, <1>11 DEF SameIds

\* So does an allocation.
LEMMA MallocIds ==
    ASSUME HeapInv, GensInOrder, NEW size \in Nat \ {0}, NEW p \in Frames, Malloc(size, p)
    PROVE  SameIds(gens, gens')
<1>1. CASE MallocFits(size, p)
  BY <1>1 DEF MallocFits, SameIds
<1>2. CASE MallocGrows(size, p)
  <2> DEFINE slot == SlotBelow(working)
  <2>1. Found(slot) /\ gens' = Attach(slot, PageRef(p)) /\ working # committed
    BY <1>2 DEF MallocGrows
  <2>2. working \in AllGens
    BY <2>1 DEF HeapInv, TypeOK
  <2>3. SameIds(gens, slot.gens)
    BY <2>1, <2>2, SlotIds
  <2>4. slot.gens \in GensType
    BY <2>1, <2>2, HeapFacts, SlotBelowType DEF HeapInv, TypeOK
  <2>5. PageRef(p) \in Ref
    BY DEF PageRef, Ref
  <2> HIDE DEF slot
  <2>6. SameIds(slot.gens, gens')
    BY <2>1, <2>4, <2>5, AttachIds
  <2> QED BY <2>3, <2>6 DEF SameIds
<1> QED BY <1>1, <1>2 DEF Malloc

\* The transaction that was just begun has the newest id.
LEMMA BegunId ==
    ASSUME HeapInv, GensInOrder, HeldOnce, BeginMut
    PROVE  gens'[working'].gen = lastGenIndex'
<1> DEFINE slot == SlotBelow(committed)
           next == slot.lastGen + 1
           node == NewGen(lastGenIndex + 1)
           made == [slot.gens EXCEPT ![next] = node]
           with == [slot EXCEPT !.gens[next] = node]
<1>1. /\ Found(slot) /\ next \in Nodes /\ committed \in AllGens /\ lastGenIndex < MaxGen
      /\ gens' = Attach(with, GenRef(next)) /\ working' = next /\ lastGenIndex' = lastGenIndex + 1
  BY DEF HeapInv, TypeOK, BeginMut
<1>2. Closed(made) /\ made[next].gen = lastGenIndex + 1 /\ made[next] # Null
  <2>1. Closed(made) /\ next \in Made(made) /\ made[next].gen = lastGenIndex + 1
    BY <1>1, BegunWalk, Zenon
  <2> QED BY <2>1 DEF Made
<1>3. Made(made) = Made(slot.gens) \cup {next}
  BY <1>1, BegunForm, Zenon
<1>4. with.gens = made /\ with.target = slot.target /\ with.lastGen = slot.lastGen
  BY DEF SlotBelow
<1> HIDE DEF slot, next, node, with, made
<1>5. Found(with) /\ with.gens \in GensType
  BY <1>1, <1>2, <1>3, <1>4 DEF Found, Made, Closed
<1>6. GenRef(next) \in Ref
  BY <1>1 DEF GenRef, Ref
<1>7. SameIds(made, gens')
  BY <1>1, <1>4, <1>5, <1>6, AttachIds
<1> QED BY <1>1, <1>2, <1>7 DEF SameIds

-----------------------------------------------------------------------------
\* What pages_in_gen adds for a page.
Add(maps, p) == IF pages[p].committed /\ pages[p].real = p
                THEN Append(maps, MapOfPage(FALSE, p)) ELSE maps

Adding(met, D, h) ==
    [d \in SUBSET D |-> IF d = {} THEN <<>> ELSE LET x == Max(d) IN Add(h[d \ {x}], met[x])]

LEMMA AddFold ==
    ASSUME NEW met, NEW n \in Nat, NEW D, D = 1 .. n
    PROVE  \E h : h = Adding(met, D, h)
<1> DEFINE Body(k, h) == [d \in SUBSET (1 .. k) |->
                             IF d = {} THEN <<>> ELSE Add(h[d \ {Max(d)}], met[Max(d)])]
           Bad == {k \in Nat : \A h : h # Body(k, h)}
<1>1. Bad = {}
  <2> SUFFICES ASSUME Bad # {} PROVE FALSE
    OBVIOUS
  <2>1. PICK k \in Bad : \A j \in Bad : k <= j
    <3>1. Bad \in SUBSET Nat
      OBVIOUS
    <3> HIDE DEF Bad
    <3> QED BY <3>1, Least
  <2>2. k \in Nat /\ \A h : h # Body(k, h)
    BY <2>1
  <2>3. CASE k = 0
    <3> DEFINE g == [d \in SUBSET (1 .. k) |-> <<>>]
    <3>1. \A d \in SUBSET (1 .. k) : d = {}
      BY <2>3
    <3>2. g = Body(k, g)
      BY <3>1
    <3> QED BY <2>2, <3>2
  <2>4. CASE k # 0
    <3> DEFINE j == k - 1
    <3>1. j \in Nat /\ j < k /\ k = j + 1
      BY <2>2, <2>4
    <3>2. j \notin Bad
      <4>1. ~(k <= j)
        BY <3>1
      <4> HIDE DEF Bad, j
      <4> QED BY <2>1, <4>1
    <3>3. PICK h : h = Body(j, h)
      BY <3>1, <3>2
    <3> HIDE DEF Bad, j
    <3> DEFINE g == [d \in SUBSET (1 .. k) |->
                        IF d = {} THEN <<>>
                        ELSE IF k \in d THEN Add(h[d \ {k}], met[k]) ELSE h[d]]
    <3>4. \A d \in SUBSET (1 .. k) : k \notin d => d \in SUBSET (1 .. j)
      BY <2>2, <3>1
    <3>5. \A d \in SUBSET (1 .. j) : d \in SUBSET (1 .. k) /\ k \notin d
      BY <2>2, <3>1
    <3>6. \A d \in SUBSET (1 .. j) :
             h[d] = IF d = {} THEN <<>> ELSE Add(h[d \ {Max(d)}], met[Max(d)])
      <4>1. DOMAIN h = SUBSET (1 .. j)
        BY <3>3
      <4> QED BY <3>3
    <3>7. \A d \in SUBSET (1 .. j) : g[d] = h[d]
      BY <3>5, <3>6
    <3>8. ASSUME NEW d \in SUBSET (1 .. k)
          PROVE  g[d] = IF d = {} THEN <<>> ELSE Add(g[d \ {Max(d)}], met[Max(d)])
      <4>1. CASE d = {}
        BY <4>1
      <4>2. CASE k \in d
        <5>1. Max(d) = k
          BY <2>2, <4>2, UpTo
        <5>2. d \ {k} \in SUBSET (1 .. j)
          BY <3>4
        <5>3. g[d] = Add(h[d \ {k}], met[k])
          BY <4>2
        <5>4. g[d \ {k}] = h[d \ {k}]
          BY <3>7, <5>2
        <5> QED BY <4>2, <5>1, <5>3, <5>4
      <4>3. CASE d # {} /\ k \notin d
        <5>1. d \in SUBSET (1 .. j) /\ d \ {Max(d)} \in SUBSET (1 .. j)
          BY <3>4, <4>3
        <5>2. g[d] = h[d] /\ g[d \ {Max(d)}] = h[d \ {Max(d)}]
          BY <3>7, <5>1
        <5> QED BY <3>6, <4>3, <5>1, <5>2
      <4> QED BY <4>1, <4>2, <4>3
    <3>9. DOMAIN g = SUBSET (1 .. k)
      OBVIOUS
    <3> HIDE DEF g
    <3>10. g = [d \in SUBSET (1 .. k) |-> g[d]]
      <4>1. g = [d \in SUBSET (1 .. k) |->
                    IF d = {} THEN <<>>
                    ELSE IF k \in d THEN Add(h[d \ {k}], met[k]) ELSE h[d]]
        BY DEF g
      <4> QED BY <4>1
    <3>11. g = Body(k, g)
      BY <3>8, <3>10
    <3> QED BY <2>2, <3>11
  <2> QED BY <2>3, <2>4
<1>2. n \notin Bad
  BY <1>1
<1>3. \E h : h = Body(n, h)
  BY <1>2
<1>4. \A h : Adding(met, D, h) = Body(n, h)
  BY DEF Adding
<1> HIDE DEF Body
<1> QED BY <1>3, <1>4

\* The list after each page met.
InAddition(w, gs, n, met) ==
    /\ w[0] = <<>> /\ w[n] = ReadOnlyMaps(gs)
    /\ \A k \in 1 .. n : w[k] = Add(w[k - 1], met[k])

LEMMA AddsInTurn ==
    ASSUME NEW gs, NEW n \in Nat, NEW met, met = PagesIn(gs, root, MaxGen), DOMAIN met = 1 .. n
    PROVE  \E w : InAddition(w, gs, n, met)
<1> DEFINE add(maps, p) == IF pages[p].committed /\ pages[p].real = p
                           THEN Append(maps, MapOfPage(FALSE, p)) ELSE maps
           body(h) == [d \in SUBSET DOMAIN met |->
                         IF d = {} THEN <<>>
                         ELSE LET x == Max(d) IN add(h[d \ {x}], met[x])]
           fold == CHOOSE h : h = body(h)
           w    == [k \in 0 .. n |-> fold[1 .. k]]
<1>1. ReadOnlyMaps(gs) = fold[DOMAIN met]
  BY DEF ReadOnlyMaps, FoldLeft, MapThenFoldSet
<1>0. \A maps, p : add(maps, p) = Add(maps, p)
  BY DEF Add
<1> HIDE DEF add
<1>2. \E h : h = body(h)
  <2>1. PICK h : h = Adding(met, DOMAIN met, h)
    BY AddFold
  <2>2. Adding(met, DOMAIN met, h) = body(h)
    BY <1>0 DEF Adding
  <2> QED BY <2>1, <2>2
<1> HIDE DEF body
<1>3. fold = body(fold)
  BY <1>2
<1> HIDE DEF fold
<1>4. \A d \in SUBSET (1 .. n) :
         fold[d] = IF d = {} THEN <<>> ELSE Add(fold[d \ {Max(d)}], met[Max(d)])
  BY <1>0, <1>3 DEF body
<1>5. w[0] = <<>>
  <2>1. 1 .. 0 = {} /\ {} \in SUBSET (1 .. n) /\ 0 \in 0 .. n
    OBVIOUS
  <2>2. fold[{}] = <<>>
    BY <1>4, <2>1
  <2> QED BY <2>1, <2>2
<1>6. ASSUME NEW k \in 1 .. n PROVE w[k] = Add(w[k - 1], met[k])
  <2>1. 1 .. k \in SUBSET (1 .. n) /\ k \in 1 .. k /\ k \in Nat
    OBVIOUS
  <2>2. Max(1 .. k) = k
    BY <2>1, UpTo
  <2>3. (1 .. k) \ {k} = 1 .. (k - 1)
    OBVIOUS
  <2>4. fold[1 .. k] = Add(fold[1 .. (k - 1)], met[k])
    BY <1>4, <2>1, <2>2, <2>3
  <2>5. w[k] = fold[1 .. k] /\ w[k - 1] = fold[1 .. (k - 1)]
    OBVIOUS
  <2> QED BY <2>4, <2>5
<1>7. w[n] = ReadOnlyMaps(gs)
  BY <1>1
<1> HIDE DEF w
<1>8. InAddition(w, gs, n, met)
  BY <1>5, <1>6, <1>7 DEF InAddition
<1> QED BY <1>8

LEMMA AddNames ==
    ASSUME NEW maps, AllFor(FALSE, maps), NEW p, MapOfPage(FALSE, p) \in Requests
    PROVE  /\ AllFor(FALSE, Add(maps, p))
           /\ \A f \in Frames :
                 \/ Names(maps, f)
                 \/ pages[p].committed /\ pages[p].real = p /\ In(f, MapOfPage(FALSE, p))
                 => Names(Add(maps, p), f)
<1> DEFINE d == Add(maps, p)
           n == Len(maps)
           m == MapOfPage(FALSE, p)
<1>1. maps \in Seq(Requests) /\ n \in Nat /\ \A k \in 1 .. n : maps[k].w = FALSE
  BY LenProperties DEF AllFor
<1>2. m \in Requests /\ m.w = FALSE
  BY DEF MapOfPage
<1>3. CASE ~ (pages[p].committed /\ pages[p].real = p)
  <2>1. d = maps
    BY <1>3 DEF Add
  <2> QED BY <1>3, <2>1
<1>4. CASE pages[p].committed /\ pages[p].real = p
  <2>1. d = Append(maps, m)
    BY <1>4 DEF Add
  <2> HIDE DEF d, m
  <2>2. /\ d \in Seq(Requests) /\ Len(d) = n + 1 /\ d[n + 1] = m
        /\ \A k \in 1 .. n : d[k] = maps[k]
    BY <1>1, <1>2, <2>1, AppendProperties
  <2>3. \A k \in 1 .. n + 1 : k \in 1 .. n \/ k = n + 1
    BY <1>1
  <2>4. /\ \A k \in 1 .. n : k \in 1 .. n + 1
        /\ n + 1 \in 1 .. n + 1
    BY <1>1
  <2>5. AllFor(FALSE, d)
    BY <1>1, <1>2, <2>2, <2>3 DEF AllFor
  <2>6. ASSUME NEW f \in Frames, Names(maps, f) \/ In(f, m) PROVE Names(d, f)
    BY <2>2, <2>4, <2>6 DEF Names
  <2> QED BY <2>5, <2>6 DEF d, m
<1> QED BY <1>3, <1>4

\* The requests of a transaction's start are for read only pages, and name all
\* the committed pages at home that the walk meets.
LEMMA ReadOnlyNames ==
    ASSUME NEW gs, NEW met, met = PagesIn(gs, root, MaxGen), met \in Seq(Nat),
           \A p \in ToSet(met) : MapOfPage(FALSE, p) \in Requests
    PROVE  /\ AllFor(FALSE, ReadOnlyMaps(gs))
           /\ \A p \in ToSet(met) : pages[p].committed /\ pages[p].real = p =>
                 \A f \in Frames : In(f, MapOfPage(FALSE, p)) => Names(ReadOnlyMaps(gs), f)
<1> DEFINE n == Len(met)
<1>1. n \in Nat /\ DOMAIN met = 1 .. n /\ \A k \in 1 .. n : met[k] \in ToSet(met)
  BY LenProperties DEF ToSet
<1> HIDE DEF n
<1>2. PICK w : InAddition(w, gs, n, met)
  BY <1>1, AddsInTurn
<1>9. /\ w[0] = <<>> /\ w[n] = ReadOnlyMaps(gs)
      /\ \A k \in 1 .. n : w[k] = Add(w[k - 1], met[k])
  BY <1>2 DEF InAddition
<1> DEFINE Good(k) == /\ AllFor(FALSE, w[k])
                      /\ \A j \in 1 .. k :
                            pages[met[j]].committed /\ pages[met[j]].real = met[j] =>
                               \A f \in Frames : In(f, MapOfPage(FALSE, met[j])) => Names(w[k], f)
           Bad == {k \in 0 .. n : ~ Good(k)}
<1>3. Good(0)
  <2>1. <<>> \in Seq(Requests) /\ Len(<<>>) = 0
    BY EmptySeq
  <2>2. AllFor(FALSE, <<>>)
    BY <2>1 DEF AllFor
  <2>3. \A j \in 1 .. 0 : FALSE
    OBVIOUS
  <2> QED BY <1>9, <2>2, <2>3
<1>4. ASSUME NEW k \in 1 .. n, Good(k - 1) PROVE Good(k)
  <2>0. met[k] \in ToSet(met)
    BY <1>1
  <2>1. w[k] = Add(w[k - 1], met[k]) /\ MapOfPage(FALSE, met[k]) \in Requests
    BY <1>9, <2>0, Zenon
  <2>2. AllFor(FALSE, w[k - 1])
    BY <1>4
  <2>3. /\ AllFor(FALSE, w[k])
        /\ \A f \in Frames :
              \/ Names(w[k - 1], f)
              \/ /\ pages[met[k]].committed /\ pages[met[k]].real = met[k]
                 /\ In(f, MapOfPage(FALSE, met[k]))
              => Names(w[k], f)
    BY <2>1, <2>2, AddNames
  <2>4. \A j \in 1 .. k : j = k \/ j \in 1 .. k - 1
    BY <1>1
  <2>5. ASSUME NEW j \in 1 .. k, pages[met[j]].committed, pages[met[j]].real = met[j],
               NEW f \in Frames, In(f, MapOfPage(FALSE, met[j]))
        PROVE  Names(w[k], f)
    <3>1. CASE j = k
      BY <2>3, <2>5, <3>1
    <3>2. CASE j \in 1 .. k - 1
      <4>1. Names(w[k - 1], f)
        BY <1>4, <2>5, <3>2
      <4> QED BY <2>3, <4>1
    <3> QED BY <2>4, <3>1, <3>2
  <2> QED BY <2>3, <2>5
<1> HIDE DEF Good
<1>5. Bad = {}
  <2> SUFFICES ASSUME Bad # {} PROVE FALSE
    OBVIOUS
  <2>1. PICK k \in Bad : \A j \in Bad : k <= j
    <3>1. Bad \in SUBSET Nat
      OBVIOUS
    <3> HIDE DEF Bad
    <3> QED BY <3>1, Least
  <2>2. k # 0
    BY <1>3, <2>1
  <2>3. k \in 1 .. n /\ k - 1 \in 0 .. n /\ k - 1 < k
    BY <1>1, <2>1, <2>2
  <2>4. k - 1 \notin Bad
    BY <2>1, <2>3
  <2> QED BY <1>4, <2>1, <2>3, <2>4
<1>6. Good(n)
  BY <1>1, <1>5
<1>7. AllFor(FALSE, w[n])
  BY <1>6 DEF Good
<1>8. ASSUME NEW p \in ToSet(met), pages[p].committed, pages[p].real = p,
             NEW f \in Frames, In(f, MapOfPage(FALSE, p))
      PROVE  Names(w[n], f)
  <2>1. PICK j \in 1 .. n : met[j] = p
    BY <1>1 DEF ToSet
  <2> QED BY <1>6, <1>8, <2>1 DEF Good
<1> QED BY <1>9, <1>7, <1>8

-----------------------------------------------------------------------------
\* The header, the first generation and the last frame of the heap hold no page.
PagesFit ==
    /\ \A f \in AllPages : f >= 2
    /\ gens[root] # Null => FreshPage < NumFrames

\* merge_in_table is asked for pages only.
LEMMA PageMaps ==
    ASSUME HeapInv, PagesFit, NEW p \in AllPages, NEW w \in BOOLEAN
    PROVE  MapOfPage(w, p) \in Requests
<1> DEFINE m == MapOfPage(w, p)
<1>1. p \in Frames /\ pages[p] \in Page /\ p >= 2 /\ pages[p].pages \in Nat \ {0}
  BY HeapFacts DEF AllPages, PagesFit, Page
<1>2. gens[root] # Null
  BY DEF HeapInv, TypeOK
<1>3. p + pages[p].pages <= FreshPage /\ FreshPage < NumFrames
  BY <1>2 DEF HeapInv, PagesAreDisjoint, PagesFit, FreshPage
<1>4. m.w = w /\ m.start = p /\ m.len = pages[p].pages
  BY DEF MapOfPage
<1>5. m = [w |-> w, start |-> p, len |-> pages[p].pages]
  BY DEF MapOfPage
<1>6. lastPage \in AllPages /\ lastPage \in Frames /\ pages[lastPage].pages \in Nat
  BY <1>2, HeapFacts DEF HeapInv, TypeOK, Page, AllPages
<1> HIDE DEF m
<1>7. p \in Nat /\ FreshPage \in Nat
  BY <1>1, <1>6, NumFramesAssumption DEF Frames, FreshPage
<1>8. pages[p].pages \in 0 .. NumFrames
  BY <1>1, <1>3, <1>7, NumFramesAssumption
<1>9. m \in MapEntry
  BY <1>1, <1>5, <1>8 DEF MapEntry
<1>10. m.len > 0 /\ EndOf(m) < NumFrames /\ m.start >= 2
  BY <1>1, <1>3, <1>4, <1>7, NumFramesAssumption DEF EndOf
<1> QED BY <1>9, <1>10 DEF Requests, m

\* No step moves a page, makes it longer or shorter or changes its real address,
\* and at most one is made, where the last one ends.
Lengthened == /\ gens[root] # Null
              /\ FreshPage \notin AllPages /\ AllPages' = AllPages \cup {FreshPage}
              /\ lastPage' = FreshPage /\ RoomFor(pages'[FreshPage].pages)

Layout == SameLayout /\ (Lengthened \/ (AllPages' = AllPages /\ lastPage' = lastPage))

LEMMA SamePages ==
    ASSUME HeapInv, pages' = pages, lastPage' = lastPage
    PROVE  Layout
BY HeapFacts DEF Layout, SameLayout, AllPages

LEMMA OnePageChanged ==
    ASSUME HeapInv, NEW p \in AllPages, NEW x \in Page, pages' = [pages EXCEPT ![p] = x],
           x.real = pages[p].real, x.pages = pages[p].pages, lastPage' = lastPage
    PROVE  Layout
<1>1. /\ p \in Frames /\ x # Null
      /\ pages'[p] = x /\ \A f \in Frames : f # p => pages'[f] = pages[f]
  BY HeapFacts DEF PagesType
<1>2. AllPages' = AllPages
  BY <1>1 DEF AllPages
<1>3. SameLayout
  BY <1>1, HeapFacts DEF SameLayout
<1> QED BY <1>2, <1>3 DEF Layout

LEMMA OnePageAdded ==
    ASSUME HeapInv, gens[root] # Null, NEW x \in Page, RoomFor(x.pages), lastPage' = FreshPage,
           NEW p \in Frames, NEW y \in Page,
           pages' = [pages EXCEPT ![FreshPage] = x] \/
           (/\ p \in AllPages /\ pages' = [pages EXCEPT ![FreshPage] = x, ![p] = y]
            /\ y.real = pages[p].real /\ y.pages = pages[p].pages)
    PROVE  Layout
<1>1. x # Null /\ y # Null /\ x.pages \in Nat \ {0}
  BY DEF Page
<1>2. FreshPage \in Frames /\ FreshPage \notin AllPages
  BY <1>1, FreshPageIsFree
<1>3. pages'[FreshPage] = x
  BY <1>2, HeapFacts DEF PagesType
<1>4. \A f \in Frames : f # FreshPage =>
         pages'[f] = pages[f] \/ (f = p /\ f \in AllPages /\ pages'[f] = y)
  BY <1>2, HeapFacts DEF PagesType
<1>5. /\ \A f \in Frames : f # FreshPage => (pages'[f] = Null <=> pages[f] = Null)
      /\ pages'[FreshPage] # Null
  BY <1>1, <1>3, <1>4 DEF AllPages
<1>6. AllPages' = AllPages \cup {FreshPage}
  BY <1>2, <1>5 DEF AllPages
<1>7. \A f \in AllPages : pages'[f] = pages[f] \/
         (pages'[f] = y /\ y.real = pages[f].real /\ y.pages = pages[f].pages)
  BY <1>2, <1>3, <1>4, HeapFacts DEF PagesType
<1>8. SameLayout
  BY <1>7, HeapFacts DEF SameLayout
<1> QED BY <1>2, <1>3, <1>6, <1>8 DEF Layout, Lengthened

LEMMA TrapLayout ==
    ASSUME HeapInv, NEW f \in Frames, TrappedWrite(f) \/ TrapDies(f)
    PROVE  Layout
<1> DEFINE p == FindPage(f)
           written == [pages[p] EXCEPT !.committed = FALSE, !.val = lastGenIndex]
           marked(b) == [pages[p] EXCEPT !.committed = b]
<1>1. p \in AllPages /\ RoomFor(pages[p].pages) /\ lastPage' = FreshPage
  BY DEF TrappedWrite, TrapDies, Trappable
<1>2. \/ pages' = [pages EXCEPT ![FreshPage] = CopyOf(p), ![p] = written]
      \/ \E b \in BOOLEAN : pages' = [pages EXCEPT ![FreshPage] = CopyOf(p), ![p] = marked(b)]
  <2>1. CASE TrappedWrite(f)
    <3>1. pages' = [pages EXCEPT ![FreshPage] = CopyOf(p), ![p] = written]
      BY <2>1, Zenon DEF TrappedWrite
    <3> QED BY <3>1
  <2>2. CASE TrapDies(f)
    <3>1. PICK done \in 1 .. 4 :
             pages' = [pages EXCEPT ![FreshPage] = CopyOf(p), ![p].committed = (done < 4)]
      BY <2>2 DEF TrapDies
    <3>2. (done < 4) \in BOOLEAN
      OBVIOUS
    <3>3. PICK b \in BOOLEAN :
             pages' = [pages EXCEPT ![FreshPage] = CopyOf(p), ![p].committed = b]
      BY <3>1, <3>2, Zenon
    <3>4. p \in Frames /\ pages \in PagesType /\ FreshPage # p
      <4>1. pages[p].pages \in Nat \ {0} /\ gens[root] # Null
        BY <1>1, HeapFacts DEF Page, HeapInv, TypeOK
      <4>2. FreshPage \notin AllPages
        BY <1>1, <4>1, FreshPageIsFree
      <4> QED BY <1>1, <4>2, HeapFacts
    <3>5. pages' = [pages EXCEPT ![FreshPage] = CopyOf(p), ![p] = marked(b)]
      <4> HIDE DEF p
      <4> QED BY <3>3, <3>4 DEF PagesType
    <3> HIDE DEF marked
    <3> QED BY <3>5
  <2> QED BY <2>1, <2>2
<1> HIDE DEF p
<1>3. pages[p] \in Page /\ p \in Frames /\ gens[root] # Null /\ CopyOf(p) = pages[p]
  BY <1>1, HeapFacts DEF HeapInv, TypeOK, CopyOf
<1>4. /\ written \in Page /\ written.real = pages[p].real /\ written.pages = pages[p].pages
      /\ \A b \in BOOLEAN : /\ marked(b) \in Page /\ marked(b).real = pages[p].real
                            /\ marked(b).pages = pages[p].pages
  BY <1>3 DEF Page, HeapInv, TypeOK
<1> HIDE DEF written, marked
<1> QED BY <1>1, <1>2, <1>3, <1>4, OnePageAdded

LEMMA MallocLayout ==
    ASSUME HeapInv, NEW size \in Nat \ {0}, NEW p, Malloc(size, p) \/ MallocDies(size)
    PROVE  Layout
<1>1. CASE MallocFits(size, p)
  <2> DEFINE x == [pages[p] EXCEPT !.used = @ + size]
  <2>1. p \in AllPages /\ pages' = [pages EXCEPT ![p] = x] /\ lastPage' = lastPage
    BY <1>1, HeapFacts DEF MallocFits, PagesType
  <2>2. x \in Page /\ x.real = pages[p].real /\ x.pages = pages[p].pages
    BY <2>1, HeapFacts DEF Page
  <2> HIDE DEF x
  <2> QED BY <2>1, <2>2, OnePageChanged
<1>2. CASE ~ MallocFits(size, p)
  <2> DEFINE n == (size \div Units) + 1
             new(used) == [real |-> FreshPage, committed |-> FALSE, pages |-> n,
                           used |-> used, val |-> 0]
  <2>1. /\ RoomFor(n) /\ lastPage' = FreshPage /\ working # committed
        /\ \E used \in Nat : pages' = [pages EXCEPT ![FreshPage] = new(used)]
    BY <1>2 DEF Malloc, MallocGrows, MallocDies
  <2>2. gens[root] # Null
    BY <2>1, HeapFacts DEF HeapInv, TypeOK
  <2>3. PICK used \in Nat : pages' = [pages EXCEPT ![FreshPage] = new(used)]
    BY <2>1
  <2>4. new(used) \in Page /\ new(used).pages = n
    BY <2>1, <2>2, GrownPage
  <2>5. FreshPage \in Frames
    <3>1. n \in Nat \ {0}
      BY <2>4 DEF Page
    <3> HIDE DEF n
    <3> QED BY <2>1, <2>2, <3>1, FreshPageIsFree
  <2> HIDE DEF n, new
  <2> QED BY <2>1, <2>2, <2>3, <2>4, <2>5, OnePageAdded
<1> QED BY <1>1, <1>2

LEMMA FlagLayout ==
    ASSUME HeapInv, FlagCommitted, lastPage' = lastPage
    PROVE  Layout
<1> DEFINE ps == AllPages \cap ToSet(PagesIn(gens, working, MaxGen))
<1>1. pages' = [f \in Frames |-> IF f \in ps THEN [pages[f] EXCEPT !.committed = TRUE]
                                             ELSE pages[f]]
  BY DEF FlagCommitted
<1>2. ps \subseteq AllPages
  OBVIOUS
<1> HIDE DEF ps
<1>3. \A f \in ps : /\ [pages[f] EXCEPT !.committed = TRUE] \in Page
                    /\ [pages[f] EXCEPT !.committed = TRUE].real = pages[f].real
                    /\ [pages[f] EXCEPT !.committed = TRUE].pages = pages[f].pages
  BY <1>2, HeapFacts DEF Page
<1>4. AllPages' = AllPages /\ SameLayout
  BY <1>1, <1>2, <1>3, HeapFacts DEF PagesType, AllPages, SameLayout
<1> QED BY <1>4 DEF Layout

LEMMA SwapLayout ==
    ASSUME HeapInv, CheckoutSwap
    PROVE  Layout
<1> DEFINE p == NextToMove
           home == pages[p].real
<1>1. /\ p \in AllPages /\ pages' = [pages EXCEPT ![p] = pages[home], ![home] = pages[p]]
      /\ lastPage' = lastPage
  BY DEF CheckoutSwap
<1> HIDE DEF p
<1>2. /\ home \in AllPages /\ pages[home].real = home /\ pages[home].pages = pages[p].pages
  BY <1>1 DEF HeapInv, PagesHaveHomes
<1>3. /\ p \in Frames /\ home \in Frames /\ pages[p] \in Page /\ pages[home] \in Page
      /\ pages[p].real = home /\ pages[p] # Null /\ pages[home] # Null
  BY <1>1, <1>2, HeapFacts DEF AllPages
<1> HIDE DEF home
<1>4. \A f \in Frames : /\ f # p /\ f # home => pages'[f] = pages[f]
                        /\ f = p /\ f # home => pages'[f] = pages[home]
                        /\ f = home => pages'[f] = pages[p]
  BY <1>1, <1>3, HeapFacts DEF PagesType
<1>5. AllPages' = AllPages
  BY <1>3, <1>4 DEF AllPages
<1>6. SameLayout
  BY <1>2, <1>3, <1>4, HeapFacts DEF SameLayout
<1> QED BY <1>1, <1>5, <1>6 DEF Layout

LEMMA LayoutStep ==
    ASSUME HeapInv, [Next]_heapVars
    PROVE  NewDb \/ Layout
<1>1. CASE BeginMut \/ BeginDies
  BY <1>1, SamePages DEF BeginMut, BeginDies
<1>2. ASSUME NEW f \in Frames, Write(f) \/ TrapDies(f) PROVE Layout
  <2>1. CASE PlainWrite(f)
    <3>1. PICK p \in AllPages : pages' = [pages EXCEPT ![p].val = lastGenIndex]
      BY <2>1 DEF PlainWrite
    <3> DEFINE x == [pages[p] EXCEPT !.val = lastGenIndex]
    <3>2. x \in Page /\ x.real = pages[p].real /\ x.pages = pages[p].pages
      BY <3>1, HeapFacts DEF Page, HeapInv, TypeOK
    <3>3. pages' = [pages EXCEPT ![p] = x] /\ lastPage' = lastPage
      BY <2>1, <3>1, HeapFacts DEF PagesType, PlainWrite
    <3> HIDE DEF x
    <3> QED BY <3>1, <3>2, <3>3, OnePageChanged
  <2>2. CASE TrapFails(f)
    BY <2>2, SamePages DEF TrapFails, fileVars
  <2> QED BY <1>2, <2>1, <2>2, TrapLayout DEF Write
<1>3. ASSUME NEW size \in Nat \ {0}, NEW p, Malloc(size, p) \/ MallocDies(size) PROVE Layout
  BY <1>3, MallocLayout
<1>4. CASE Commit \/ CommitDies
  BY <1>4, FlagLayout DEF Commit, CommitDies
<1>5. CASE CheckoutSwap
  BY <1>5, SwapLayout
<1>6. ASSUME NEW g, CheckoutSame(g) \/ CheckoutStart(g) PROVE Layout
  BY <1>6, SamePages DEF CheckoutSame, CheckoutStart, heapVars, fileVars
<1>7. CASE \/ SnapInit \/ Exit \/ MallocAborts \/ NullDeref \/ CheckoutFails
           \/ CheckoutEnd \/ Peek \/ PeekFirst \/ UNCHANGED heapVars
  BY <1>7, SamePages DEF SnapInit, CreateDb, OpenDb, Exit, MallocAborts, NullDeref, CheckoutFails,
                         CheckoutEnd, Peek, PeekFirst, heapVars, fileVars
<1> QED BY <1>1, <1>2, <1>3, <1>4, <1>5, <1>6, <1>7 DEF Next

LEMMA PagesFitStep ==
    ASSUME HeapInv, HeapInv', PagesFit, [Next]_heapVars PROVE PagesFit'
<1>1. CASE NewDb
  <2> DEFINE x == [real |-> initialPage, committed |-> TRUE, pages |-> 1, used |-> 0, val |-> 0]
  <2>1. /\ AllPages = {} /\ lastPage' = initialPage /\ initialPage \in Frames /\ initialPage = 2
        /\ pages' = [pages EXCEPT ![initialPage] = x]
    BY <1>1 DEF NewDb, HeapInv, TypeOK, initialPage, Frames
  <2>2. /\ \A f \in Frames : f # initialPage => pages'[f] = Null
        /\ pages'[initialPage].pages = 1
    BY <2>1, HeapFacts DEF PagesType, AllPages
  <2>3. AllPages' \subseteq {initialPage}
    BY <2>2 DEF AllPages
  <2>4. FreshPage' = 3
    BY <2>1, <2>2 DEF FreshPage
  <2> QED BY <2>1, <2>3, <2>4 DEF PagesFit
<1>2. CASE Layout
  <2>1. CASE gens'[root] = Null
    BY <2>1 DEF HeapInv, TypeOK, PagesFit
  <2>2. CASE gens'[root] # Null /\ Lengthened
    <3>1. lastPage \in AllPages /\ lastPage \in Nat /\ lastPage >= 2 /\ pages[lastPage].pages \in Nat
      BY <2>2, HeapFacts DEF Lengthened, HeapInv, TypeOK, PagesFit, Frames, Page
    <3>2. FreshPage >= 2
      BY <3>1 DEF FreshPage
    <3>3. FreshPage' < NumFrames
      BY <2>2 DEF Lengthened, FreshPage, RoomFor
    <3> HIDE DEF FreshPage
    <3> QED BY <2>2, <3>2, <3>3 DEF Lengthened, PagesFit
  <2>3. CASE gens'[root] # Null /\ AllPages' = AllPages /\ lastPage' = lastPage
    <3>1. lastPage \in AllPages /\ gens[root] # Null
      BY <2>3 DEF HeapInv, TypeOK
    <3>2. pages'[lastPage].pages = pages[lastPage].pages
      BY <1>2, <3>1 DEF Layout, SameLayout
    <3>3. FreshPage' = FreshPage
      BY <2>3, <3>2 DEF FreshPage
    <3> QED BY <2>3, <3>1, <3>3 DEF PagesFit
  <2> QED BY <1>2, <2>1, <2>2, <2>3 DEF Layout
<1> QED BY <1>1, <1>2, LayoutStep

-----------------------------------------------------------------------------
\* The pages a walk from the root meets are there.
LEMMA MetArePages ==
    ASSUME NEW gs, Closed(gs), NEW last, NEW index, InOrder(gs, last, index),
           NEW P \in SUBSET Frames, Form(gs, P), gs[root] # Null, NEW max
    PROVE  /\ PagesIn(gs, root, max) \in Seq(Nat)
           /\ ToSet(PagesIn(gs, root, max)) \subseteq P
<1>1. root \in Made(gs)
  BY DEF Made, root, Nodes
<1>2. /\ PagesIn(gs, root, max) \in Seq(Nat)
      /\ \A m \in ToSet(PagesIn(gs, root, max)) :
            [type |-> "page", at |-> m] \in Kin(gs, root, max)
  BY <1>1, WalkKin DEF PagesIn
<1>3. ASSUME NEW m \in ToSet(PagesIn(gs, root, max)) PROVE m \in P
  <2> DEFINE r == [type |-> "page", at |-> m]
  <2>1. r \in Kin(gs, root, max) /\ r.type = "page" /\ r.at = m
    BY <1>2
  <2> HIDE DEF r
  <2>2. PICK j \in Made(gs) : r \in Children(gs, j)
    BY <2>1 DEF Kin
  <2>3. r \in All(gs, P)
    BY <2>2 DEF Form
  <2>4. gs \in GensType
    BY DEF Closed
  <2>5. r.at \in P
    BY <2>1, <2>3, <2>4, AllIs
  <2> QED BY <2>1, <2>5
<1> QED BY <1>2, <1>3

\* Merging requests of one protection, or an assert that fails.
LEMMA MergeMapsTiles ==
    ASSUME proc = "up" => Tiles(table), proc = "up", NEW b, NEW maps, AllFor(b, maps),
           MergeMaps(maps)
    PROVE  proc' = "up" => /\ Tiles(table')
                           /\ \A f \in Frames : Names(maps, f) => Says(table', f, b)
<1> DEFINE d == MergeInTable([table |-> table, prot |-> prot], maps).table
<1>1. d = Aborted \/ (Tiles(d) /\ \A f \in Frames : Names(maps, f) => Says(d, f, b))
  BY UniformMerge
<1>2. table' = d /\ (proc' = "up" => d # Aborted)
  BY DEF MergeMaps, Merged
<1> HIDE DEF d
<1> QED BY <1>1, <1>2

TilesWhileUp == proc = "up" => Tiles(table)

\* What a transaction starts with.
LEMMA BegunTiles ==
    ASSUME HeapInv, PagesFit, TilesWhileUp, HeapInv', GensInOrder', HeldOnce', BeginMut
    PROVE  proc' = "up" =>
              /\ Tiles(table')
              /\ \A p \in ToSet(PagesIn(gens', root, MaxGen)) :
                    pages[p].committed /\ pages[p].real = p =>
                       \A f \in Frames : In(f, MapOfPage(FALSE, p)) => Says(table', f, FALSE)
<1> DEFINE new  == gens'
           maps == ReadOnlyMaps(new)
<1>1. MergeMaps(maps) /\ proc = "up" /\ AllPages' = AllPages
  BY DEF BeginMut, AllPages
<1>2. gens[root] # Null
  BY DEF BeginMut, HeapInv, TypeOK
<1>3. Closed(new) /\ new[root] # Null
  <2>1. Closed(new)
    BY ClosedNext
  <2>2. committed' = committed /\ committed # Null
    BY DEF BeginMut
  <2> QED BY <2>1, <2>2 DEF HeapInv, TypeOK
<1>4. InOrder(new, lastGen', lastGenIndex') /\ Form(new, AllPages) /\ AllPages \in SUBSET Frames
  BY <1>1 DEF GensInOrder, HeldOnce, AllPages
<1>5. /\ PagesIn(new, root, MaxGen) \in Seq(Nat)
      /\ ToSet(PagesIn(new, root, MaxGen)) \subseteq AllPages
  BY <1>3, <1>4, MetArePages
<1>6. \A p \in ToSet(PagesIn(new, root, MaxGen)) : MapOfPage(FALSE, p) \in Requests
  BY <1>5, PageMaps
<1>7. /\ AllFor(FALSE, maps)
      /\ \A p \in ToSet(PagesIn(new, root, MaxGen)) : pages[p].committed /\ pages[p].real = p =>
            \A f \in Frames : In(f, MapOfPage(FALSE, p)) => Names(maps, f)
  BY <1>5, <1>6, ReadOnlyNames
<1> HIDE DEF maps
<1>8. proc' = "up" => /\ Tiles(table')
                      /\ \A f \in Frames : Names(maps, f) => Says(table', f, FALSE)
  BY <1>1, <1>7, MergeMapsTiles DEF TilesWhileUp
<1> QED BY <1>7, <1>8 DEF new

LEMMA TilesStep ==
    ASSUME HeapInv, GensInOrder, HeldOnce, PagesFit, TilesWhileUp,
           HeapInv', GensInOrder', HeldOnce', [Next]_heapVars
    PROVE  TilesWhileUp'
<1>1. CASE Remap
  BY <1>1, OneMapTiles DEF Remap, TilesWhileUp
<1>2. CASE BeginMut
  BY <1>2, BegunTiles DEF TilesWhileUp
<1>3. ASSUME NEW f \in Frames, TrappedWrite(f) PROVE TilesWhileUp'
  <2> DEFINE m == MapOfPage(TRUE, FindPage(f))
  <2>1. FindPage(f) \in AllPages /\ MergeMaps(<<m>>) /\ proc = "up"
    BY <1>3 DEF TrappedWrite, Trappable
  <2>2. m \in Requests /\ m.w = TRUE
    BY <2>1, PageMaps DEF MapOfPage
  <2> HIDE DEF m
  <2>3. AllFor(TRUE, <<m>>)
    BY <2>2 DEF AllFor
  <2> QED BY <2>1, <2>3, MergeMapsTiles DEF TilesWhileUp
<1>4. CASE CheckoutSwap
  <2> DEFINE m == MapOfPage(TRUE, NextToMove)
             q == MapOfPage(TRUE, pages[NextToMove].real)
  <2>1. NextToMove \in AllPages /\ MergeMaps(<<m, q>>) /\ proc = "up"
    BY <1>4 DEF CheckoutSwap
  <2>2. pages[NextToMove].real \in AllPages
    BY <2>1 DEF HeapInv, PagesHaveHomes
  <2>3. m \in Requests /\ m.w = TRUE /\ q \in Requests /\ q.w = TRUE
    BY <2>1, <2>2, PageMaps DEF MapOfPage
  <2> HIDE DEF m, q
  <2>4. AllFor(TRUE, <<m, q>>)
    BY <2>3 DEF AllFor
  <2> QED BY <2>1, <2>4, MergeMapsTiles DEF TilesWhileUp
<1>5. CASE UNCHANGED mapVars /\ (proc' = "up" => proc = "up")
  BY <1>5 DEF mapVars, TilesWhileUp
<1>6. CASE SnapInit \/ Exit \/ BeginDies \/ CommitDies
  BY <1>1, <1>6 DEF SnapInit, CreateDb, OpenDb, Exit, BeginDies, CommitDies, Gone
<1>7. ASSUME NEW f \in Frames, Write(f) \/ TrapDies(f) PROVE TilesWhileUp'
  BY <1>1, <1>3, <1>5, <1>7 DEF Write, PlainWrite, TrapFails, TrapDies, Gone
<1>8. ASSUME NEW size, NEW p, Malloc(size, p) \/ MallocDies(size) PROVE TilesWhileUp'
  BY <1>1, <1>5, <1>8 DEF Malloc, MallocFits, MallocGrows, MallocDies, Gone
<1>9. ASSUME NEW g, CheckoutSame(g) \/ CheckoutStart(g) PROVE TilesWhileUp'
  BY <1>5, <1>9 DEF CheckoutSame, CheckoutStart, heapVars
<1>10. CASE \/ Commit \/ MallocAborts \/ NullDeref \/ CheckoutFails
            \/ CheckoutEnd \/ Peek \/ PeekFirst \/ UNCHANGED heapVars
  BY <1>5, <1>10 DEF Commit, MallocAborts, NullDeref, CheckoutFails,
                     CheckoutEnd, Peek, PeekFirst, heapVars
<1> QED BY <1>2, <1>4, <1>6, <1>7, <1>8, <1>9, <1>10 DEF Next

-----------------------------------------------------------------------------
\* A set of generations with the root in it and all that those in it hold.
Downward(gs, S) ==
    /\ root \in S
    /\ \A i \in Made(gs) : i \in S => \A k \in Nodes : GenRef(k) \in Children(gs, i) => k \in S

\* A generation in all of them is below the root.
Reached(gs, j) == \A S \in SUBSET Nodes : Downward(gs, S) => j \in S

LEMMA RootIsReached == \A gs : Reached(gs, root)
BY DEF Reached, Downward

LEMMA ChildIsReached ==
    ASSUME NEW gs, NEW i \in Made(gs), Reached(gs, i), NEW k \in Nodes, GenRef(k) \in Children(gs, i)
    PROVE  Reached(gs, k)
BY DEF Reached, Downward

LEMMA StillReached ==
    ASSUME NEW gs, NEW new, NEW j, Reached(gs, j),
           \A i \in Made(gs) : i \in Made(new) /\ \A k \in Nodes :
              GenRef(k) \in Children(gs, i) => GenRef(k) \in Children(new, i)
    PROVE  Reached(new, j)
<1>1. \A S \in SUBSET Nodes : Downward(new, S) => Downward(gs, S)
  BY DEF Downward
<1> QED BY <1>1 DEF Reached

\* A walk that starts below the root stays there.
LEMMA WalkIsReached ==
    ASSUME NEW gs, Closed(gs), NEW i \in Made(gs), Reached(gs, i), NEW max,
           NEW m \in ToSet(Walk(gs, i, max, "generation"))
    PROVE  m \in Made(gs) /\ Reached(gs, m)
<1> DEFINE K == {r \in Ref : r.type = "generation" => r.at \in Made(gs) /\ Reached(gs, r.at)}
<1>1. GenRef(i) \in K
  BY RefsDiffer DEF GenRef, Ref, Made
<1>2. ASSUME NEW r \in K, r.type = "generation"
      PROVE  gs[r.at] # Null /\ Children(gs, r.at) \subseteq K
  <2>1. r.at \in Made(gs) /\ Reached(gs, r.at) /\ gs[r.at] # Null /\ r.at \in Nodes
    BY <1>2 DEF Made
  <2>2. gs[r.at].c \in Seq(Ref)
    BY <2>1 DEF Closed, GensType, Generation
  <2>3. ASSUME NEW k \in DOMAIN gs[r.at].c PROVE gs[r.at].c[k] \in K
    <3> DEFINE d == gs[r.at].c[k]
    <3>1. d \in Ref /\ d \in Children(gs, r.at)
      BY <2>2, <2>3, ElementOfSeq, LenProperties DEF Children, ToSet
    <3>2. d.type = "generation" => d.at \in Nodes /\ gs[d.at] # Null /\ d = GenRef(d.at)
      BY <2>1, <2>3, <3>1 DEF Closed, Ref, GenRef
    <3> HIDE DEF d
    <3>3. d.type = "generation" => d.at \in Made(gs) /\ Reached(gs, d.at)
      BY <2>1, <3>1, <3>2, ChildIsReached DEF Made
    <3> QED BY <3>1, <3>3 DEF d
  <2> QED BY <2>1, <2>3 DEF Children, ToSet
<1>3. Within(gs, max, K)
  BY <1>2 DEF Within
<1> HIDE DEF K
<1>4. [type |-> "generation", at |-> m] \in K
  BY <1>1, <1>3, WalkWithin
<1> QED BY <1>4 DEF K

\* A split hangs the new node, and with it what its generation held, below.
LEMMA SplitReached ==
    ASSUME NEW gs \in GensType, NEW i \in Made(gs), Reached(gs, i),
           NEW n \in Nodes, gs[n] = Null
    PROVE  LET new == NewGenBetween(gs, i, n)
           IN  Reached(new, n) /\ \A j : Reached(gs, j) => Reached(new, j)
<1> DEFINE new == NewGenBetween(gs, i, n)
<1>1. i \in Nodes /\ gs[i] # Null /\ gs[i] \in Generation /\ i # n
  BY DEF Made, GensType
<1>2. /\ new[n] = gs[i] /\ new[i].c = <<GenRef(n)>>
      /\ \A j \in Nodes : j # n /\ j # i => new[j] = gs[j]
  BY SplitIs
<1>3. new[i] # Null
  <2>1. <<GenRef(n)>> \in Seq(Ref)
    BY DEF Ref, GenRef
  <2>2. [gs[i] EXCEPT !.c = <<GenRef(n)>>] \in Generation
    BY <1>1, <2>1 DEF Generation
  <2>3. [gs[i] EXCEPT !.c = <<GenRef(n)>>] # Null
    BY <2>2
  <2>4. new = [gs EXCEPT ![n] = gs[i], ![i] = [gs[i] EXCEPT !.c = <<GenRef(n)>>]]
    BY <1>1 DEF NewGenBetween, GensType
  <2> HIDE DEF new
  <2> QED BY <1>1, <2>3, <2>4 DEF GensType
<1> HIDE DEF new
<1>4. GenRef(n) \in Children(new, i)
  BY <1>2 DEF Children, ToSet
<1>5. \A j \in Made(gs) : j \in Made(new) /\ n \in Made(new)
  BY <1>1, <1>2, <1>3 DEF Made
<1>6. ASSUME NEW S \in SUBSET Nodes, Downward(new, S) PROVE Downward(gs, S)
  <2>1. i \in S => n \in S
    BY <1>1, <1>4, <1>5, <1>6 DEF Downward
  <2>2. \A k \in Nodes : /\ GenRef(k) \in Children(gs, i) => GenRef(k) \in Children(new, n)
                         /\ \A j \in Made(gs) : j # i =>
                              (GenRef(k) \in Children(gs, j) => GenRef(k) \in Children(new, j))
    BY <1>1, <1>2 DEF Children, Made
  <2> QED BY <1>5, <1>6, <2>1, <2>2 DEF Downward
<1>7. \A j : Reached(gs, j) => Reached(new, j)
  BY <1>6 DEF Reached
<1>8. Reached(new, n)
  BY <1>4, <1>5, <1>7, ChildIsReached
<1> QED BY <1>7, <1>8 DEF new

\* Every generation that holds something is below the root.  A kill may leave one
\* that holds nothing aside.
Rooted(gs) == \A j \in Made(gs) : gs[j].c # <<>> => Reached(gs, j)

\* The slot that is found for a generation below the root is below the root.
LEMMA SlotReached ==
    ASSUME HeapInv, GensInOrder, NEW i \in AllGens, Reached(gens, i), Found(SlotBelow(i))
    PROVE  LET slot == SlotBelow(i)
           IN  /\ slot.target \in Made(slot.gens) /\ Reached(slot.gens, slot.target)
               /\ \A j : Reached(gens, j) => Reached(slot.gens, j)
               /\ Rooted(gens) => Rooted(slot.gens)
<1> DEFINE slot  == SlotBelow(i)
           n     == lastGen + 1
           split == NewGenBetween(gens, i, n)
<1>1. gens \in GensType /\ lastGen \in Nodes /\ i \in Nodes /\ gens[i] # Null /\ i \in Made(gens)
  BY HeapFacts DEF HeapInv, TypeOK, AllGens, Made
<1>2. /\ slot.gens \in GensType /\ InOrder(slot.gens, slot.lastGen, lastGenIndex)
      /\ slot.gens[i] # Null
  BY <1>1, SlotBelowOrder, SlotBelowType
<1>3. slot.target = FirstFreeSlot(slot.gens, i) /\ slot.target \in Nodes
  BY DEF SlotBelow, Found
<1>4. /\ \A j : Reached(gens, j) => Reached(slot.gens, j)
      /\ Rooted(gens) => Rooted(slot.gens)
  <2>1. CASE FirstFreeSlot(gens, i) # Null
    BY <2>1 DEF SlotBelow
  <2>2. CASE FirstFreeSlot(gens, i) = Null
    <3>1. slot.gens = split /\ slot.lastGen = n
      BY <2>2 DEF SlotBelow
    <3>2. n \in Nodes /\ gens[n] = Null
      BY <1>1, <3>1 DEF Found, GensInOrder, InOrder, Nodes
    <3>3. \A j \in Nodes : j # n /\ j # i => split[j] = gens[j]
      BY <1>1, <3>2, SplitIs
    <3>4. Reached(split, n) /\ \A j : Reached(gens, j) => Reached(split, j)
      BY <1>1, <3>2, SplitReached
    <3> HIDE DEF slot, split, n
    <3>5. Rooted(gens) => Rooted(split)
      BY <1>1, <3>3, <3>4 DEF Made, Rooted
    <3> QED BY <3>1, <3>4, <3>5
  <2> QED BY <2>1, <2>2
<1> HIDE DEF slot
<1>5. Closed(slot.gens) /\ i \in Made(slot.gens) /\ Reached(slot.gens, i)
  BY <1>1, <1>2, <1>4 DEF InOrder, Closed, Made
<1> DEFINE s == GensIn(slot.gens, i)
           Free(g) == Len(slot.gens[g].c) < GENERATION_CHILDREN
<1>6. slot.target = FirstThat(s, Free) /\ slot.target # Null
  BY <1>3 DEF FirstFreeSlot, Nodes
<1>7. s \in Seq(Nat)
  <2>1. PICK w \in Walks(slot.gens, i, MaxGen, "generation") :
             Walk(slot.gens, i, MaxGen, "generation") = w[Visits].met
    BY <1>1, <1>2, <1>5, WalkIs
  <2>2. w[Visits] \in Walking(slot.gens)
    BY VisitsType DEF Walks, Iterates
  <2> QED BY <2>1, <2>2 DEF GensIn, Walking, WalkState
<1> HIDE DEF s
<1>8. slot.target \in ToSet(s)
  <2> DEFINE passing == {k \in DOMAIN s : Free(s[k])}
  <2>1. slot.target = IF passing = {} THEN Null ELSE s[Min(passing)]
    BY <1>6 DEF FirstThat
  <2>2. passing \subseteq Nat /\ passing # {}
    BY <1>6, <1>7, <2>1, LenProperties
  <2> HIDE DEF Free
  <2>3. Min(passing) \in passing
    <3> HIDE DEF passing
    <3> QED BY <2>2, MinIsOne
  <2> QED BY <2>1, <2>2, <2>3 DEF ToSet
<1>9. slot.target \in Made(slot.gens) /\ Reached(slot.gens, slot.target)
  BY <1>5, <1>8, WalkIsReached DEF s, GensIn
<1> QED BY <1>4, <1>9 DEF slot

LEMMA SameSlotsReached ==
    ASSUME NEW gs, NEW new, Made(new) = Made(gs), \A i \in Made(gs) : new[i].c = gs[i].c
    PROVE  (\A j : Reached(gs, j) => Reached(new, j)) /\ (Rooted(gs) => Rooted(new))
<1>1. \A i \in Made(gs) : Children(new, i) = Children(gs, i)
  BY DEF Children
<1>2. \A j : Reached(gs, j) => Reached(new, j)
  BY <1>1, StillReached
<1> QED BY <1>2 DEF Rooted

\* What gets a slot below the root is below the root.
LEMMA AttachReached ==
    ASSUME NEW slot, slot.gens \in GensType, Found(slot), NEW ref \in Ref,
           Reached(slot.gens, slot.target), Rooted(slot.gens)
    PROVE  LET new == Attach(slot, ref)
           IN  /\ Rooted(new) /\ \A j : Reached(slot.gens, j) => Reached(new, j)
               /\ \A k \in Nodes : ref = GenRef(k) => Reached(new, k)
<1> DEFINE gs  == slot.gens
           t   == slot.target
           c2  == Append(gs[t].c, ref)
           new == Attach(slot, ref)
           d   == [gs[t] EXCEPT !.c = c2]
<1>1. t \in Nodes /\ gs[t] \in Generation /\ gs[t].c \in Seq(Ref) /\ t \in Made(gs)
  BY DEF Found, GensType, Made, Generation
<1>2. new = [gs EXCEPT ![t] = d]
  BY DEF Attach
<1>3. ToSet(c2) = ToSet(gs[t].c) \cup {ref} /\ c2 \in Seq(Ref)
  BY <1>1, OneMore
<1> HIDE DEF c2
<1>4. d # Null /\ d.c = c2
  <2>1. d \in Generation
    BY <1>1, <1>3 DEF Generation
  <2> QED BY <1>1, <2>1 DEF Generation
<1> HIDE DEF gs, t, new, d
<1>5. \A i \in Nodes : new[i] = IF i = t THEN d ELSE gs[i]
  BY <1>1, <1>2 DEF GensType, gs
<1>6. \A i \in Made(gs) : i \in Made(new) /\ Children(gs, i) \subseteq Children(new, i)
  BY <1>1, <1>3, <1>4, <1>5 DEF Made, Children
<1>7. \A j : Reached(gs, j) => Reached(new, j)
  BY <1>6, StillReached
<1>8. Rooted(new)
  BY <1>1, <1>5, <1>7 DEF Rooted, Made, gs, t
<1>9. t \in Made(new) /\ ref \in Children(new, t) /\ Reached(new, t)
  BY <1>1, <1>3, <1>4, <1>5, <1>6, <1>7 DEF Children, gs, t
<1>10. \A k \in Nodes : ref = GenRef(k) => Reached(new, k)
  BY <1>9, ChildIsReached
<1> QED BY <1>7, <1>8, <1>10 DEF new, gs

LEMMA RelinkReached ==
    ASSUME NEW gs \in GensType, NEW moved \in [Frames -> Frames]
    PROVE  LET new == Relink(gs, moved)
           IN  (Rooted(gs) => Rooted(new)) /\ \A j : Reached(gs, j) => Reached(new, j)
<1> DEFINE new == Relink(gs, moved)
<1>1. \A i \in Nodes : new[i] = Null <=> gs[i] = Null
  BY RelinkType
<1>2. Made(new) = Made(gs)
  BY <1>1 DEF Made
<1>3. ASSUME NEW i \in Made(gs)
      PROVE  /\ gs[i].c = <<>> => new[i].c = <<>>
             /\ \A k \in Nodes : GenRef(k) \in Children(gs, i) => GenRef(k) \in Children(new, i)
  <2>1. i \in Nodes /\ gs[i] # Null /\ gs[i].c \in Seq(Ref)
    BY DEF Made, GensType, Generation
  <2>2. new[i].c = Over(gs[i].c, RefMap(moved))
    BY <2>1, RelinkIs
  <2> HIDE DEF new
  <2>3. gs[i].c = <<>> => new[i].c = <<>>
    BY <2>2 DEF Over
  <2>4. ASSUME NEW k \in Nodes, GenRef(k) \in Children(gs, i) PROVE GenRef(k) \in Children(new, i)
    <3>1. PICK j \in DOMAIN gs[i].c : gs[i].c[j] = GenRef(k)
      BY <2>4 DEF Children, ToSet
    <3>2. GenRef(k) \in Ref /\ GenRef(k).type # "page"
      BY RefsDiffer DEF GenRef, Ref
    <3>3. RefMap(moved)[GenRef(k)] = GenRef(k)
      BY <3>2 DEF RefMap
    <3>4. j \in DOMAIN new[i].c /\ new[i].c[j] = GenRef(k)
      BY <2>2, <3>1, <3>3 DEF Over
    <3> QED BY <3>4 DEF Children, ToSet
  <2> QED BY <2>3, <2>4
<1> HIDE DEF new
<1>4. \A j : Reached(gs, j) => Reached(new, j)
  BY <1>2, <1>3, StillReached
<1> QED BY <1>2, <1>3, <1>4 DEF Rooted, new

\* A generation that was made and is in no slot yet.
LEMMA NodeReached ==
    ASSUME NEW gs \in GensType, NEW n \in Nodes, gs[n] = Null, NEW id \in 0 .. MaxGen
    PROVE  LET new == [gs EXCEPT ![n] = NewGen(id)]
           IN  (Rooted(gs) => Rooted(new)) /\ \A j : Reached(gs, j) => Reached(new, j)
<1> DEFINE new == [gs EXCEPT ![n] = NewGen(id)]
<1>1. NewGen(id).c = <<>> /\ \A i \in Nodes : i # n => new[i] = gs[i]
  BY DEF NewGen, GensType
<1>2. new[n] = NewGen(id)
  BY DEF GensType
<1> HIDE DEF new
<1>3. \A i \in Made(gs) : i \in Made(new) /\ Children(new, i) = Children(gs, i)
  BY <1>1 DEF Made, Children
<1>4. \A j : Reached(gs, j) => Reached(new, j)
  BY <1>3, StillReached
<1>5. Rooted(gs) => Rooted(new)
  BY <1>1, <1>2, <1>4 DEF Rooted, Made
<1> QED BY <1>4, <1>5 DEF new

\* The heap's pointers are to generations below the root.
Pointers == {working, committed, target} \ {Null}
InTree == Rooted(gens) /\ \A j \in Pointers : Reached(gens, j)

LEMMA PointersKept ==
    ASSUME InTree, Rooted(gens'), \A j : Reached(gens, j) => Reached(gens', j),
           \A j \in Pointers' : j \in Pointers \/ Reached(gens', j)
    PROVE  InTree'
BY DEF InTree

LEMMA BeginInTree ==
    ASSUME HeapInv, GensInOrder, HeldOnce, InTree, BeginMut \/ BeginDies
    PROVE  InTree'
<1> DEFINE slot == SlotBelow(committed)
           next == slot.lastGen + 1
           id   == lastGenIndex + 1
           made == [slot.gens EXCEPT ![next] = NewGen(id)]
           with == [slot EXCEPT !.gens[next] = NewGen(id)]
<1>1. /\ Found(slot) /\ next \in Nodes /\ committed \in AllGens /\ lastGenIndex < MaxGen
      /\ committed' = committed
      /\ \/ gens' = Attach(with, GenRef(next)) /\ working' = next /\ target' = target
         \/ gens' = made /\ working' = working /\ target' = Null
  BY DEF HeapInv, TypeOK, BeginMut, BeginDies, Gone
<1>2. id \in 0 .. MaxGen /\ Reached(gens, committed)
  <2>1. id \in 0 .. MaxGen
    BY <1>1, SnapAssumption DEF HeapInv, TypeOK
  <2>2. committed # Null
    BY <1>1, NullAssumption DEF AllGens, Nodes
  <2> QED BY <2>1, <2>2 DEF InTree, Pointers
<1>3. /\ slot.target \in Made(slot.gens) /\ Reached(slot.gens, slot.target)
      /\ \A j : Reached(gens, j) => Reached(slot.gens, j)
      /\ Rooted(slot.gens)
  BY <1>1, <1>2, SlotReached DEF InTree
<1>4. /\ slot.gens \in GensType /\ slot.gens[next] = Null
      /\ made \in GensType /\ Made(made) = Made(slot.gens) \cup {next}
  <2>1. made \in GensType
    BY <1>1, NewGenType, Zenon
  <2>2. slot.gens[next] = Null /\ Made(made) = Made(slot.gens) \cup {next}
    BY <1>1, BegunForm, Zenon
  <2>3. gens \in GensType /\ lastGen \in Nodes
    BY HeapFacts DEF HeapInv, TypeOK
  <2> QED BY <1>1, <2>1, <2>2, <2>3, SlotBelowOrder
<1>5. with.gens = made /\ with.target = slot.target /\ with.lastGen = slot.lastGen
  BY DEF SlotBelow
<1> HIDE DEF slot, next, id, with
<1>6. Rooted(made) /\ \A j : Reached(slot.gens, j) => Reached(made, j)
  BY <1>1, <1>2, <1>3, <1>4, NodeReached
<1> HIDE DEF made
<1>7. CASE gens' = made /\ working' = working /\ target' = Null
  BY <1>1, <1>3, <1>6, <1>7, PointersKept DEF Pointers
<1>8. CASE gens' = Attach(with, GenRef(next)) /\ working' = next /\ target' = target
  <2>1. GenRef(next) \in Ref
    BY <1>1 DEF GenRef, Ref
  <2>2. Found(with)
    BY <1>1, <1>3, <1>4, <1>5 DEF Found, Made
  <2>3. Reached(with.gens, with.target) /\ Rooted(with.gens)
    BY <1>3, <1>5, <1>6
  <2>4. /\ Rooted(gens') /\ \A j : Reached(made, j) => Reached(gens', j)
        /\ Reached(gens', next)
    BY <1>1, <1>4, <1>5, <1>8, <2>1, <2>2, <2>3, AttachReached
  <2> QED BY <1>1, <1>3, <1>6, <1>8, <2>4, PointersKept DEF Pointers
<1> QED BY <1>1, <1>7, <1>8

LEMMA TrapInTree ==
    ASSUME HeapInv, GensInOrder, InTree, NEW f \in Frames, TrappedWrite(f) \/ TrapDies(f)
    PROVE  InTree'
<1> DEFINE p      == FindPage(f)
           slot   == SlotBelow(working)
           placed == CopyInPlace(slot, p)
           with   == [slot EXCEPT !.gens = placed]
<1>1. /\ p \in AllPages /\ Found(slot) /\ RoomFor(pages[p].pages) /\ working # committed
      /\ gens' = Attach(with, PageRef(p)) \/ gens' = gens \/ gens' = slot.gens \/ gens' = placed
      /\ working' = working /\ committed' = committed /\ target' \in {target, Null}
  <2>1. CASE TrappedWrite(f)
    BY <2>1 DEF TrappedWrite, Trappable
  <2>2. CASE TrapDies(f)
    <3>1. PICK done \in 1 .. 4 : gens' = CASE done = 1 -> gens
                           [] done = 2 -> slot.gens
                           [] done > 2 -> placed
      BY <2>2 DEF TrapDies
    <3>2. gens' = gens \/ gens' = slot.gens \/ gens' = placed
      <4> HIDE DEF slot, placed
      <4>1. done = 1 \/ done = 2 \/ done > 2
        OBVIOUS
      <4> QED BY <3>1, <4>1
    <3> QED BY <2>2, <3>2 DEF TrapDies, Trappable, Gone
  <2> QED BY <2>1, <2>2
<1>2. working \in AllGens /\ gens[root] # Null /\ Reached(gens, working)
  BY <1>1, HeapFacts DEF HeapInv, TypeOK, InTree, Pointers
<1>3. /\ slot.target \in Made(slot.gens) /\ Reached(slot.gens, slot.target)
      /\ \A j : Reached(gens, j) => Reached(slot.gens, j)
      /\ Rooted(slot.gens)
  BY <1>1, <1>2, SlotReached DEF InTree
<1>4. /\ slot.gens \in GensType /\ placed \in GensType
      /\ \A j \in Nodes : placed[j] = Null <=> slot.gens[j] = Null
  BY <1>1, <1>2, CopyInPlaceType, Zenon
<1>5. with.gens = placed /\ with.lastGen = slot.lastGen /\ with.target = slot.target
  BY DEF SlotBelow
<1>6. FreshPage \in Frames
  BY <1>1, <1>2, HeapFacts, FreshPageIsFree DEF Page
<1>7. [q \in Frames |-> IF q = p THEN FreshPage ELSE q] \in [Frames -> Frames]
  BY <1>6
<1>8. Rooted(placed) /\ \A j : Reached(slot.gens, j) => Reached(placed, j)
  BY <1>3, <1>4, <1>7, RelinkReached DEF CopyInPlace
<1> HIDE DEF slot, p, placed, with
<1>9. Found(with)
  BY <1>1, <1>4, <1>5 DEF Found
<1>10. PageRef(p) \in Ref
  BY <1>1 DEF PageRef, Ref, AllPages
<1> DEFINE new == Attach(with, PageRef(p))
<1>11. Rooted(new) /\ \A j : Reached(placed, j) => Reached(new, j)
  <2>1. with.gens \in GensType /\ Reached(with.gens, with.target) /\ Rooted(with.gens)
    BY <1>3, <1>4, <1>5, <1>8
  <2> QED BY <1>5, <1>9, <1>10, <2>1, AttachReached
<1> HIDE DEF new
<1>12. Rooted(gens') /\ \A j : Reached(gens, j) => Reached(gens', j)
  BY <1>1, <1>3, <1>8, <1>11 DEF InTree, new
<1> QED BY <1>1, <1>12, PointersKept DEF Pointers

LEMMA MallocInTree ==
    ASSUME HeapInv, GensInOrder, InTree, NEW size, NEW p,
           (MallocGrows(size, p) /\ p \in Frames) \/ MallocDies(size)
    PROVE  InTree'
<1> DEFINE slot == SlotBelow(working)
<1>1. /\ Found(slot) /\ working # committed
      /\ (gens' = Attach(slot, PageRef(p)) /\ p \in Frames) \/ gens' = slot.gens
      /\ working' = working /\ committed' = committed /\ target' \in {target, Null}
  BY DEF MallocGrows, MallocDies, Gone
<1>2. working \in AllGens /\ Reached(gens, working) /\ gens \in GensType /\ lastGen \in Nodes
  BY <1>1, HeapFacts DEF HeapInv, TypeOK, InTree, Pointers
<1>3. /\ Reached(slot.gens, slot.target) /\ Rooted(slot.gens)
      /\ \A j : Reached(gens, j) => Reached(slot.gens, j)
  BY <1>1, <1>2, SlotReached DEF InTree
<1>4. slot.gens \in GensType
  BY <1>1, <1>2, SlotBelowOrder
<1> HIDE DEF slot
<1>5. Rooted(gens') /\ \A j : Reached(gens, j) => Reached(gens', j)
  <2>1. CASE gens' = Attach(slot, PageRef(p)) /\ p \in Frames
    <3>1. PageRef(p) \in Ref
      BY <2>1 DEF PageRef, Ref
    <3> QED BY <1>1, <1>3, <1>4, <2>1, <3>1, AttachReached
  <2>2. CASE gens' = slot.gens
    BY <1>3, <2>2
  <2> QED BY <1>1, <2>1, <2>2
<1> QED BY <1>1, <1>5, PointersKept DEF Pointers

\* first_gen_for_id finds a generation with the id, below the root.
LEMMA NodeOfIs ==
    ASSUME HeapInv, GensInOrder, gens[root] # Null, NEW g, NodeOf(g) \in AllGens
    PROVE  Reached(gens, NodeOf(g)) /\ gens[NodeOf(g)].gen = g
<1> DEFINE s == GensIn(gens, root)
           passing == {k \in DOMAIN s : gens[s[k]].gen = g}
<1>1. NodeOf(g) = IF passing = {} THEN Null ELSE s[Min(passing)]
  BY DEF NodeOf, FirstThat
<1>2. Closed(gens) /\ root \in Nodes /\ root \in Made(gens)
  BY ClosedNow, HeapFacts DEF Made
<1>3. s \in Seq(Nat)
  <2>1. PICK w \in Walks(gens, root, MaxGen, "generation") :
             Walk(gens, root, MaxGen, "generation") = w[Visits].met
    BY <1>2, WalkIs
  <2>2. w[Visits] \in Walking(gens)
    BY VisitsType DEF Walks, Iterates
  <2> QED BY <2>1, <2>2 DEF GensIn, Walking, WalkState
<1> HIDE DEF s
<1>4. NodeOf(g) # Null
  BY DEF AllGens, Nodes
<1>5. passing \subseteq Nat /\ passing # {}
  BY <1>1, <1>3, <1>4, LenProperties
<1>6. Min(passing) \in passing
  <2> HIDE DEF passing
  <2> QED BY <1>5, MinIsOne
<1>7. NodeOf(g) \in ToSet(s) /\ gens[NodeOf(g)].gen = g
  BY <1>1, <1>5, <1>6 DEF ToSet
<1>8. Reached(gens, NodeOf(g))
  BY <1>2, <1>7, RootIsReached, WalkIsReached DEF s, GensIn
<1> QED BY <1>7, <1>8

LEMMA NewDbInTree ==
    ASSUME HeapInv, NewDb, target' \in {target, Null}
    PROVE  InTree'
<1> DEFINE gen == [gen |-> 0, committed |-> TRUE, c |-> <<PageRef(initialPage)>>]
<1>1. AllGens = {} /\ gens' = [gens EXCEPT ![root] = gen] /\ working' = root /\ committed' = Null
  BY DEF NewDb, HeapInv, TypeOK
<1> HIDE DEF gen
<1>2. target' = Null
  BY <1>1 DEF HeapInv, TypeOK
<1>3. \A j \in Nodes : j # root => gens'[j] = Null
  BY <1>1, HeapFacts DEF AllGens, GensType
<1>4. Made(gens') \subseteq {root}
  BY <1>3 DEF Made
<1>5. Reached(gens', root)
  BY RootIsReached
<1> QED BY <1>1, <1>2, <1>4, <1>5 DEF InTree, Rooted, Pointers

LEMMA SlotsInTree ==
    ASSUME InTree, AllGens' = AllGens, \A i \in AllGens : gens'[i].c = gens[i].c,
           Pointers' \subseteq Pointers
    PROVE  InTree'
<1> DEFINE new == gens'
<1>1. Made(new) = Made(gens) /\ \A i \in Made(gens) : new[i].c = gens[i].c
  BY DEF Made, AllGens
<1> HIDE DEF new
<1>2. (\A j : Reached(gens, j) => Reached(new, j)) /\ (Rooted(gens) => Rooted(new))
  BY <1>1, SameSlotsReached
<1> QED BY <1>2, PointersKept DEF InTree, new

LEMMA InTreeStep ==
    ASSUME HeapInv, HeapInv', GensInOrder, HeldOnce, InTree, [Next]_heapVars
    PROVE  InTree'
<1>1. ASSUME UNCHANGED gens, Pointers' \subseteq Pointers PROVE InTree'
  BY <1>1, SlotsInTree DEF AllGens
<1>2. CASE NewDb /\ target' \in {target, Null}
  BY <1>2, NewDbInTree
<1>3. CASE BeginMut \/ BeginDies
  BY <1>3, BeginInTree
<1>4. ASSUME NEW f \in Frames, Write(f) \/ TrapDies(f) PROVE InTree'
  <2>1. CASE PlainWrite(f) \/ TrapFails(f)
    BY <1>1, <2>1 DEF PlainWrite, TrapFails, fileVars, Pointers
  <2>2. CASE TrappedWrite(f) \/ TrapDies(f)
    BY <2>2, TrapInTree
  <2> QED BY <1>4, <2>1, <2>2 DEF Write
<1>5. ASSUME NEW size, NEW p \in Frames, Malloc(size, p) PROVE InTree'
  <2>1. CASE MallocFits(size, p)
    BY <1>1, <2>1 DEF MallocFits, Pointers
  <2>2. CASE MallocGrows(size, p)
    BY <2>2, MallocInTree
  <2> QED BY <1>5, <2>1, <2>2 DEF Malloc
<1>11. ASSUME NEW size, MallocDies(size) PROVE InTree'
  BY <1>11, MallocInTree
<1>6. CASE Commit \/ CommitDies
  <2> DEFINE gs == AllGens \cap ToSet(GensIn(gens, working))
  <2>1. /\ gens' = [i \in Nodes |-> IF i \in gs THEN [gens[i] EXCEPT !.committed = TRUE]
                                                ELSE gens[i]]
        /\ Pointers' \subseteq Pointers
    BY <1>6 DEF Commit, CommitDies, FlagCommitted, Gone, Pointers
  <2>2. gs \subseteq AllGens
    OBVIOUS
  <2> HIDE DEF gs
  <2>3. \A i \in AllGens : /\ [gens[i] EXCEPT !.committed = TRUE] # Null
                           /\ [gens[i] EXCEPT !.committed = TRUE].c = gens[i].c
    BY HeapFacts DEF Generation
  <2>4. AllGens' = AllGens /\ \A i \in AllGens : gens'[i].c = gens[i].c
    BY <2>1, <2>2, <2>3 DEF AllGens
  <2> QED BY <2>1, <2>4, SlotsInTree
<1>7. CASE CheckoutSwap
  <2> DEFINE p     == NextToMove
             home  == pages[p].real
             moved == Exchanged(p, home)
  <2>1. p \in AllPages /\ gens' = Relink(gens, moved)
    BY <1>7 DEF CheckoutSwap
  <2> HIDE DEF p
  <2>2. p \in Frames /\ home \in Frames /\ gens \in GensType
    BY <2>1, HeapFacts DEF HeapInv, PagesHaveHomes, AllPages, TypeOK
  <2> HIDE DEF home
  <2>3. moved \in [Frames -> Frames]
    BY <2>2 DEF Exchanged
  <2> HIDE DEF moved
  <2>4. Rooted(gens') /\ \A j : Reached(gens, j) => Reached(gens', j)
    BY <2>1, <2>2, <2>3, RelinkReached DEF InTree
  <2> QED BY <1>7, <2>4, PointersKept DEF CheckoutSwap, Pointers
<1>8. ASSUME NEW g, CheckoutSame(g) \/ CheckoutStart(g) PROVE InTree'
  <2>1. CASE CheckoutSame(g)
    BY <1>1, <2>1 DEF CheckoutSame, heapVars, fileVars, Pointers
  <2>2. CASE CheckoutStart(g)
    <3>1. /\ gens' = gens /\ working' = working /\ committed' = committed /\ target' = NodeOf(g)
          /\ NodeOf(g) \in AllGens
      BY <2>2 DEF CheckoutStart, fileVars
    <3>2. gens[root] # Null
      BY <3>1 DEF HeapInv, TypeOK
    <3>3. Reached(gens, NodeOf(g))
      BY <3>1, <3>2, NodeOfIs
    <3> QED BY <3>1, <3>3, PointersKept DEF InTree, Pointers
  <2> QED BY <1>8, <2>1, <2>2
<1>9. CASE SnapInit \/ PeekFirst
  <2>1. CASE NewDb /\ target' = target
    BY <1>2, <2>1
  <2>5. CASE NewDb /\ target' = Null
    BY <1>2, <2>5
  <2>2. CASE UNCHANGED gens /\ Pointers' \subseteq Pointers
    BY <1>1, <2>2
  <2>3. CASE SnapInit
    <3>1. CASE CreateDb
      BY <2>5, <3>1 DEF CreateDb
    <3>2. CASE OpenDb
      BY <2>2, <3>2 DEF OpenDb, fileVars, Pointers
    <3> QED BY <2>3, <3>1, <3>2 DEF SnapInit
  <2>4. CASE PeekFirst
    BY <2>1, <2>4 DEF PeekFirst
  <2> QED BY <1>9, <2>3, <2>4
<1>10. CASE \/ Exit \/ MallocAborts \/ NullDeref \/ CheckoutFails
            \/ CheckoutEnd \/ Peek \/ UNCHANGED heapVars
  <2>1. UNCHANGED gens /\ Pointers' \subseteq Pointers
    BY <1>10 DEF Exit, Gone, MallocAborts, NullDeref,
       CheckoutFails, CheckoutEnd, Peek, heapVars, fileVars, Pointers
  <2> QED BY <1>1, <2>1
<1> QED
  <2>1. ASSUME Next PROVE InTree'
    BY <1>3, <1>4, <1>5, <1>6, <1>7, <1>8, <1>9, <1>10, <1>11, <2>1, Zenon DEF Next
  <2> QED BY <1>10, <2>1

-----------------------------------------------------------------------------
\* A walk from generation s for pages: what it has called back for, and what that
\* points to, is met or still to be visited.
MetOrTodo(gs, s) ==
    {w \in WalkState : \E V \in SUBSET Nodes :
        /\ s \in V \/ GenRef(s) \in ToSet(w.todo)
        /\ \A i \in Made(gs) : i \in V =>
              /\ \A k \in Nodes : GenRef(k) \in Children(gs, i) =>
                    k \in V \/ GenRef(k) \in ToSet(w.todo)
              /\ \A f \in Frames : PageRef(f) \in Children(gs, i) =>
                    f \in ToSet(w.met) \/ PageRef(f) \in ToSet(w.todo)}

LEMMA MetOrTodoVisit ==
    ASSUME NEW gs, Closed(gs), NEW s \in Nodes, NEW w \in Walking(gs), w \in MetOrTodo(gs, s)
    PROVE  Visit(gs, MaxGen, "page")[w] \in MetOrTodo(gs, s)
<1> DEFINE u    == Visit(gs, MaxGen, "page")[w]
           ref  == Head(w.todo)
           rest == Tail(w.todo)
<1>1. w \in WalkState /\ w.todo \in Seq(Ref) /\ w.met \in Seq(Nat) /\ u \in WalkState
  BY VisitStays DEF Walking, WalkState
<1>2. PICK V \in SUBSET Nodes :
        /\ s \in V \/ GenRef(s) \in ToSet(w.todo)
        /\ \A i \in Made(gs) : i \in V =>
              /\ \A k \in Nodes : GenRef(k) \in Children(gs, i) =>
                    k \in V \/ GenRef(k) \in ToSet(w.todo)
              /\ \A f \in Frames : PageRef(f) \in Children(gs, i) =>
                    f \in ToSet(w.met) \/ PageRef(f) \in ToSet(w.todo)
  BY DEF MetOrTodo
<1>3. CASE w.todo = <<>>
  <2>1. u = w
    BY <1>1, <1>3 DEF Visit
  <2> QED BY <2>1
<1>4. CASE w.todo # <<>>
  <2>1. ref \in Ref /\ rest \in Seq(Ref) /\ ToSet(w.todo) = {ref} \cup ToSet(rest)
    <3>1. w.todo = <<ref>> \o rest /\ rest \in Seq(Ref) /\ ref \in Ref
      BY <1>1, <1>4, HeadTailProperties, EmptySeq
    <3> HIDE DEF ref, rest
    <3> DEFINE one == <<ref>>
    <3>3. one \in Seq(Ref) /\ ToSet(one) = {ref} /\ w.todo = one \o rest
      BY <3>1 DEF ToSet
    <3> HIDE DEF one
    <3>4. ToSet(one \o rest) = ToSet(one) \cup ToSet(rest)
      BY <3>1, <3>3, BothApart
    <3>5. ToSet(w.todo) = {ref} \cup ToSet(rest)
      BY <3>3, <3>4, Zenon
    <3> QED BY <3>1, <3>5, Zenon
  <2>4. /\ ref.type = "generation" /\ gs[ref.at].gen > MaxGen =>
              u = [todo |-> rest, met |-> w.met]
        /\ ref.type = "generation" /\ ~ (gs[ref.at].gen > MaxGen) =>
              u = [todo |-> gs[ref.at].c \o rest, met |-> w.met]
        /\ ref.type = "page" => u = [todo |-> <<>> \o rest, met |-> Append(w.met, ref.at)]
    <3>1. "page" # "generation"
      OBVIOUS
    <3> QED BY <1>1, <1>4, <3>1 DEF Visit
  <2>2. CASE ref.type = "generation"
    <3> DEFINE c    == gs[ref.at].c
               both == c \o rest
    <3>1. ref.at \in Nodes /\ gs[ref.at] # Null /\ ref = GenRef(ref.at)
      <4>1. ref = w.todo[1] /\ 1 \in DOMAIN w.todo
        BY <1>1, <1>4, HeadTailProperties, EmptySeq, LenProperties
      <4>2. gs[ref.at] # Null
        BY <2>2, <4>1 DEF Walking
      <4> QED BY <2>1, <2>2, <4>2 DEF Ref, GenRef
    <3>2. gs[ref.at] \in Generation /\ c \in Seq(Ref)
      BY <3>1 DEF Closed, GensType, Generation
    <3>3. ~ (gs[ref.at].gen > MaxGen)
      BY <3>2 DEF Generation
    <3>4. u = [todo |-> both, met |-> w.met]
      BY <2>2, <2>4, <3>3, Zenon
    <3> HIDE DEF u, c, rest, ref
    <3>5. ToSet(both) = ToSet(c) \cup ToSet(rest)
      BY <2>1, <3>2, BothApart
    <3> HIDE DEF both
    <3>6. u.todo = both /\ u.met = w.met
      BY <3>4
    <3>7. \A k \in Nodes : GenRef(k) = ref => k = ref.at
      BY <3>1, RefsDiffer
    <3>8. \A f : PageRef(f) # ref
      BY <2>2, RefsDiffer
    <3> DEFINE V2 == V \cup {ref.at}
    <3>9. s \in V2 \/ GenRef(s) \in ToSet(u.todo)
      BY <1>2, <2>1, <3>5, <3>6, <3>7
    <3>10. ASSUME NEW i \in Made(gs), i \in V2
           PROVE  /\ \A k \in Nodes : GenRef(k) \in Children(gs, i) =>
                        k \in V2 \/ GenRef(k) \in ToSet(u.todo)
                  /\ \A f \in Frames : PageRef(f) \in Children(gs, i) =>
                        f \in ToSet(u.met) \/ PageRef(f) \in ToSet(u.todo)
      <4>1. CASE i = ref.at
        BY <3>5, <3>6, <4>1 DEF Children, c
      <4>2. CASE i # ref.at
        <5>1. i \in V
          BY <3>10, <4>2
        <5> QED BY <1>2, <2>1, <3>5, <3>6, <3>7, <3>8, <5>1
      <4> QED BY <4>1, <4>2
    <3>11. V2 \in SUBSET Nodes
      BY <3>1
    <3> HIDE DEF V2
    <3> QED BY <1>1, <3>9, <3>10, <3>11 DEF MetOrTodo, u
  <2>3. CASE ref.type # "generation"
    <3>1. ref.type = "page" /\ ref.at \in Frames /\ ref.at \in Nat /\ ref = PageRef(ref.at)
      BY <2>1, <2>3 DEF Ref, PageRef, Frames
    <3> DEFINE met == Append(w.met, ref.at)
    <3>2. u = [todo |-> <<>> \o rest, met |-> met]
      BY <2>4, <3>1, Zenon
    <3>3. <<>> \o rest = rest
      BY <2>1, ConcatEmptySeq
    <3>4. ToSet(met) = ToSet(w.met) \cup {ref.at}
      BY <1>1, <3>1, OneMore
    <3>9. u = [todo |-> rest, met |-> met]
      BY <3>2, <3>3, Zenon
    <3> HIDE DEF u, met, rest, ref
    <3>5. u.todo = rest /\ u.met = met
      BY <3>9
    <3>6. (\A k : GenRef(k) # ref) /\ \A f : PageRef(f) = ref => f = ref.at
      BY <3>1, RefsDiffer
    <3>7. s \in V \/ GenRef(s) \in ToSet(u.todo)
      BY <1>2, <2>1, <3>5, <3>6
    <3>8. ASSUME NEW i \in Made(gs), i \in V
          PROVE  /\ \A k \in Nodes : GenRef(k) \in Children(gs, i) =>
                       k \in V \/ GenRef(k) \in ToSet(u.todo)
                 /\ \A f \in Frames : PageRef(f) \in Children(gs, i) =>
                       f \in ToSet(u.met) \/ PageRef(f) \in ToSet(u.todo)
      BY <1>2, <2>1, <3>4, <3>5, <3>6, <3>8
    <3> QED BY <1>1, <3>7, <3>8 DEF MetOrTodo, u
  <2> QED BY <2>2, <2>3
<1> QED BY <1>3, <1>4

\* Generation j is in every set that has s in it and all that those in it hold.
Below(gs, s, j) ==
    \A S \in SUBSET Nodes :
        s \in S /\ (\A i \in Made(gs) : i \in S =>
                      \A k \in Nodes : GenRef(k) \in Children(gs, i) => k \in S)
            => j \in S

\* Every page of a generation below s is met.
LEMMA BelowAreMet ==
    ASSUME NEW gs, Closed(gs), NEW P \in SUBSET Frames, Form(gs, P),
           NEW s \in Made(gs), \A j \in Made(gs) : GenRef(s) \notin Children(gs, j),
           NEW i \in Made(gs), Below(gs, s, i), NEW f \in Frames, PageRef(f) \in Children(gs, i)
    PROVE  f \in ToSet(PagesIn(gs, s, MaxGen))
<1> DEFINE x == [todo |-> <<GenRef(s)>>, met |-> <<>>]
           M == MetOrTodo(gs, s)
           F == Visit(gs, MaxGen, "page")
           U == Walking(gs)
<1>1. s \in Nodes
  BY DEF Made
<1>2. PICK w \in Walks(gs, s, MaxGen, "page") :
           Walk(gs, s, MaxGen, "page") = w[Visits].met
  BY <1>1, WalkIs DEF Made
<1>3. x \in M
  <2>1. <<GenRef(s)>> \in Seq(Ref) /\ <<>> \in Seq(Nat)
    BY <1>1 DEF GenRef, Ref
  <2>2. ToSet(<<GenRef(s)>>) = {GenRef(s)}
    BY DEF ToSet
  <2>3. x \in WalkState /\ x.todo = <<GenRef(s)>>
    BY <2>1 DEF WalkState
  <2> HIDE DEF x
  <2>4. {} \in SUBSET Nodes
    OBVIOUS
  <2> QED BY <2>2, <2>3, <2>4 DEF MetOrTodo
<1>4. \A u \in M : u \in U => F[u] \in M
  BY <1>1, MetOrTodoVisit
<1>5. w \in Iterates(U, F, x, Visits) /\ Visits \in Nat
  BY <1>2, VisitsType DEF Walks
<1> HIDE DEF x, M, F, U
<1>6. \A n \in 0 .. Visits : w[n] \in M
  BY <1>3, <1>4, <1>5, IteratesStay, Zenon
<1>7. w[Visits] \in M
  BY <1>5, <1>6
<1>8. w[Visits].todo = <<>>
  BY WalkEnds
<1> DEFINE end == w[Visits]
<1> HIDE DEF end
<1>9. ToSet(end.todo) = {}
  BY <1>8 DEF ToSet, end
<1>10. PICK V \in SUBSET Nodes :
        /\ s \in V
        /\ \A j \in Made(gs) : j \in V =>
              /\ \A k \in Nodes : GenRef(k) \in Children(gs, j) => k \in V
              /\ \A q \in Frames : PageRef(q) \in Children(gs, j) => q \in ToSet(end.met)
  BY <1>7, <1>9 DEF M, MetOrTodo, end
<1>11. i \in V
  BY <1>10 DEF Below
<1> QED BY <1>2, <1>10, <1>11 DEF PagesIn, end

\* Every page of a generation below the root is met.
LEMMA ReachedAreMet ==
    ASSUME NEW gs, Closed(gs), NEW P \in SUBSET Frames, Form(gs, P), gs[root] # Null,
           NEW i \in Made(gs), Reached(gs, i), NEW f \in Frames, PageRef(f) \in Children(gs, i)
    PROVE  f \in ToSet(PagesIn(gs, root, MaxGen))
<1>1. root \in Made(gs) /\ \A j \in Made(gs) : GenRef(root) \notin Children(gs, j)
  BY DEF Made, root, Nodes, Form
<1>2. Below(gs, root, i)
  BY DEF Below, Reached, Downward
<1> QED BY <1>1, <1>2, BelowAreMet

-----------------------------------------------------------------------------
\* The pages that the generations of the ids in G hold.
HeldBy(gs, G) ==
    {f \in Frames : \E j \in Made(gs) : gs[j].gen \in G /\ PageRef(f) \in Children(gs, j)}

LEMMA HeldAttach ==
    ASSUME NEW slot, slot.gens \in GensType, Found(slot), NEW ref \in Ref, NEW G
    PROVE  HeldBy(Attach(slot, ref), G) \subseteq
              HeldBy(slot.gens, G) \cup {f \in Frames : PageRef(f) = ref}
<1> DEFINE gs  == slot.gens
           t   == slot.target
           c2  == Append(gs[t].c, ref)
           new == Attach(slot, ref)
           d   == [gs[t] EXCEPT !.c = c2]
<1>1. t \in Nodes /\ gs[t] \in Generation /\ gs[t].c \in Seq(Ref) /\ t \in Made(gs)
  BY DEF Found, GensType, Made, Generation
<1>2. new = [gs EXCEPT ![t] = d]
  BY DEF Attach
<1>3. ToSet(c2) = ToSet(gs[t].c) \cup {ref}
  BY <1>1, OneMore
<1> HIDE DEF c2
<1>4. d.c = c2 /\ d.gen = gs[t].gen
  BY <1>1 DEF Generation
<1> HIDE DEF gs, t, new, d
<1>5. \A i \in Nodes : new[i] = IF i = t THEN d ELSE gs[i]
  BY <1>1, <1>2 DEF GensType, gs
<1>6. ASSUME NEW i \in Made(new)
      PROVE  /\ i \in Made(gs) /\ new[i].gen = gs[i].gen
             /\ Children(new, i) \subseteq Children(gs, i) \cup {ref}
  BY <1>1, <1>3, <1>4, <1>5 DEF Made, Children
<1> QED BY <1>6 DEF HeldBy, new, gs

LEMMA HeldSlot ==
    ASSUME HeapInv, GensInOrder, NEW i \in AllGens, Found(SlotBelow(i)), NEW G
    PROVE  HeldBy(SlotBelow(i).gens, G) \subseteq HeldBy(gens, G)
<1> DEFINE n     == lastGen + 1
           split == NewGenBetween(gens, i, n)
<1>1. gens \in GensType /\ lastGen \in Nodes /\ i \in Nodes /\ gens[i] # Null /\ i \in Made(gens)
  BY HeapFacts DEF HeapInv, TypeOK, AllGens, Made
<1>2. CASE FirstFreeSlot(gens, i) # Null
  BY <1>2 DEF SlotBelow
<1>3. CASE FirstFreeSlot(gens, i) = Null
  <2>1. SlotBelow(i).gens = split /\ SlotBelow(i).lastGen = n
    BY <1>3 DEF SlotBelow
  <2>2. n \in Nodes /\ gens[n] = Null
    BY <1>1, <2>1 DEF Found, GensInOrder, InOrder, Nodes
  <2>3. /\ split[n] = gens[i] /\ split[i].gen = gens[i].gen /\ split[i].c = <<GenRef(n)>>
        /\ \A j \in Nodes : j # n /\ j # i => split[j] = gens[j]
    BY <1>1, <2>2, SplitIs
  <2> HIDE DEF split, n
  <2>4. \A f : PageRef(f) \notin Children(split, i)
    BY <2>3, RefsDiffer DEF Children, ToSet
  <2>5. ASSUME NEW f \in Frames, NEW j \in Made(split), split[j].gen \in G,
               PageRef(f) \in Children(split, j)
        PROVE  f \in HeldBy(gens, G)
    <3>1. j # i
      BY <2>4, <2>5
    <3>2. CASE j = n
      BY <1>1, <2>3, <2>5, <3>2 DEF HeldBy, Children
    <3>3. CASE j # n
      BY <2>3, <2>5, <3>1, <3>3 DEF HeldBy, Children, Made
    <3> QED BY <3>2, <3>3
  <2> QED BY <2>1, <2>5 DEF HeldBy
<1> QED BY <1>2, <1>3

LEMMA HeldRelink ==
    ASSUME NEW gs \in GensType, NEW moved \in [Frames -> Frames], NEW G,
           NEW f \in HeldBy(Relink(gs, moved), G)
    PROVE  \E q \in HeldBy(gs, G) : f = moved[q]
<1> DEFINE new == Relink(gs, moved)
<1>1. PICK j \in Made(new) : new[j].gen \in G /\ PageRef(f) \in Children(new, j)
  BY DEF HeldBy
<1>2. j \in Nodes /\ gs[j] # Null /\ gs[j].c \in Seq(Ref)
  BY <1>1, RelinkType DEF Made, GensType, Generation
<1>3. new[j].gen = gs[j].gen /\ new[j].c = Over(gs[j].c, RefMap(moved))
  BY <1>2, RelinkIs
<1> HIDE DEF new
<1>4. PICK k \in DOMAIN gs[j].c : PageRef(f) = RefMap(moved)[gs[j].c[k]]
  BY <1>1, <1>3 DEF Children, ToSet, Over
<1> DEFINE r == gs[j].c[k]
<1>5. r \in Ref /\ r \in Children(gs, j)
  BY <1>2, <1>4, ElementOfSeq, LenProperties DEF Children, ToSet
<1> HIDE DEF r
<1>6. PageRef(f) = IF r.type = "page" THEN PageRef(moved[r.at]) ELSE r
  BY <1>4, <1>5 DEF RefMap, r
<1>7. r.type = "page" /\ f = moved[r.at] /\ r.at \in Frames /\ r = PageRef(r.at)
  <2>1. PageRef(f).type = "page" /\ \A x : PageRef(x).at = x
    BY DEF PageRef
  <2>2. r.type = "page"
    BY <1>6, <2>1
  <2>3. r.at \in Frames /\ r = PageRef(r.at)
    BY <1>5, <2>2 DEF Ref, PageRef
  <2> QED BY <1>6, <2>1, <2>2, <2>3
<1> QED BY <1>1, <1>2, <1>3, <1>5, <1>7 DEF HeldBy, Made

LEMMA HeldSame ==
    ASSUME AllGens' = AllGens, \A i \in AllGens : gens'[i].c = gens[i].c /\ gens'[i].gen = gens[i].gen
    PROVE  \A G : HeldBy(gens', G) = HeldBy(gens, G)
<1> DEFINE new == gens'
<1>1. Made(new) = Made(gens) /\ \A i \in Made(gens) : new[i].c = gens[i].c /\ new[i].gen = gens[i].gen
  BY DEF Made, AllGens
<1> HIDE DEF new
<1>2. \A G : HeldBy(new, G) = HeldBy(gens, G)
  BY <1>1 DEF HeldBy, Children
<1> QED BY <1>2 DEF new

\* Who holds the page hit by a trap, and its copy.
LEMMA HeldTrapped ==
    ASSUME HeapInv, GensInOrder, NEW f \in Frames, TrappedWrite(f), NEW G, NEW q \in HeldBy(gens', G)
    PROVE  LET p == FindPage(f)
           IN  \/ q = p
               \/ q = FreshPage /\ p \in HeldBy(gens, G)
               \/ q \in HeldBy(gens, G)
<1> DEFINE p      == FindPage(f)
           slot   == SlotBelow(working)
           moved  == [x \in Frames |-> IF x = p THEN FreshPage ELSE x]
           placed == CopyInPlace(slot, p)
           with   == [slot EXCEPT !.gens = placed]
<1>1. /\ p \in AllPages /\ Found(slot) /\ RoomFor(pages[p].pages) /\ working # committed
      /\ gens' = Attach(with, PageRef(p))
  BY DEF TrappedWrite, Trappable
<1>2. working \in AllGens /\ gens[root] # Null
  BY <1>1, HeapFacts DEF HeapInv, TypeOK
<1>3. /\ slot.gens \in GensType /\ placed \in GensType
      /\ \A j \in Nodes : placed[j] = Null <=> slot.gens[j] = Null
  BY <1>1, <1>2, CopyInPlaceType, Zenon
<1>4. with.gens = placed /\ with.lastGen = slot.lastGen /\ with.target = slot.target
  BY DEF SlotBelow
<1>5. FreshPage \in Frames /\ p \in Frames
  BY <1>1, <1>2, HeapFacts, FreshPageIsFree DEF Page
<1>6. moved \in [Frames -> Frames] /\ placed = Relink(slot.gens, moved)
  BY <1>5 DEF CopyInPlace
<1>7. HeldBy(slot.gens, G) \subseteq HeldBy(gens, G)
  BY <1>1, <1>2, HeldSlot
<1>8. PageRef(p) \in Ref
  BY <1>5 DEF PageRef, Ref
<1> HIDE DEF p, slot, placed, with
<1>9. Found(with)
  BY <1>1, <1>3, <1>4 DEF Found
<1>10. q \in HeldBy(placed, G) \/ q = p
  <2>1. HeldBy(Attach(with, PageRef(p)), G) \subseteq
           HeldBy(with.gens, G) \cup {x \in Frames : PageRef(x) = PageRef(p)}
    BY <1>3, <1>4, <1>8, <1>9, HeldAttach
  <2> QED BY <1>1, <1>4, <2>1, RefsDiffer
<1>11. CASE q \in HeldBy(placed, G)
  <2> HIDE DEF moved
  <2>1. PICK x \in HeldBy(slot.gens, G) : q = moved[x]
    BY <1>3, <1>6, <1>11, HeldRelink
  <2>2. x \in Frames
    BY DEF HeldBy
  <2> QED BY <1>7, <2>1, <2>2 DEF moved, p
<1> QED BY <1>10, <1>11 DEF p

LEMMA HeldGrown ==
    ASSUME HeapInv, GensInOrder, NEW size, NEW p \in Frames, MallocGrows(size, p), NEW G
    PROVE  HeldBy(gens', G) \subseteq HeldBy(gens, G) \cup {p}
<1> DEFINE slot == SlotBelow(working)
<1>1. Found(slot) /\ gens' = Attach(slot, PageRef(p)) /\ working # committed
  BY DEF MallocGrows
<1>2. working \in AllGens
  BY <1>1 DEF HeapInv, TypeOK
<1>3. slot.gens \in GensType
  BY <1>1, <1>2, HeapFacts, SlotBelowType DEF HeapInv, TypeOK
<1>4. HeldBy(slot.gens, G) \subseteq HeldBy(gens, G) /\ PageRef(p) \in Ref
  BY <1>1, <1>2, HeldSlot DEF PageRef, Ref
<1> HIDE DEF slot
<1>5. HeldBy(Attach(slot, PageRef(p)), G) \subseteq
         HeldBy(slot.gens, G) \cup {x \in Frames : PageRef(x) = PageRef(p)}
  BY <1>1, <1>3, <1>4, HeldAttach
<1> QED BY <1>1, <1>4, <1>5, RefsDiffer

\* A new transaction holds no page.
LEMMA BegunHeld ==
    ASSUME HeapInv, GensInOrder, HeldOnce, BeginMut
    PROVE  HeldBy(gens', {lastGenIndex + 1}) = {}
<1> DEFINE slot == SlotBelow(committed)
           next == slot.lastGen + 1
           id   == lastGenIndex + 1
           node == NewGen(id)
           made == [slot.gens EXCEPT ![next] = node]
           with == [slot EXCEPT !.gens[next] = node]
<1>1. /\ Found(slot) /\ next \in Nodes /\ committed \in AllGens /\ lastGenIndex < MaxGen
      /\ gens' = Attach(with, GenRef(next))
  BY DEF HeapInv, TypeOK, BeginMut
<1>2. id \in 0 .. MaxGen /\ lastGenIndex \in Nat
  BY <1>1 DEF HeapInv, TypeOK
<1>3. InOrder(slot.gens, slot.lastGen, lastGenIndex) /\ slot.gens \in GensType
  BY <1>1, HeapFacts, SlotBelowOrder DEF HeapInv, TypeOK
<1>4. /\ slot.gens[next] = Null /\ made \in GensType
  <2>1. made \in GensType
    BY <1>1, <1>2, NewGenType, Zenon
  <2>2. slot.lastGen \in Nodes
    BY <1>1 DEF Found
  <2> HIDE DEF slot
  <2> QED BY <1>1, <1>3, <2>1, <2>2 DEF InOrder, Nodes
<1>5. with.gens = made /\ with.target = slot.target /\ with.lastGen = slot.lastGen
  BY DEF SlotBelow
<1>6. node.c = <<>> /\ node.gen = id
  BY DEF NewGen
<1> HIDE DEF slot, next, with, node
<1>7. \A j \in Nodes : made[j] = IF j = next THEN node ELSE slot.gens[j]
  BY <1>1, <1>3 DEF GensType
<1>8. Found(with)
  BY <1>1, <1>4, <1>5, <1>7 DEF Found
<1> HIDE DEF made
<1>9. ASSUME NEW f \in HeldBy(made, {id}) PROVE FALSE
  <2>1. PICK j \in Made(made) : made[j].gen = id /\ PageRef(f) \in Children(made, j)
    BY DEF HeldBy
  <2>2. CASE j = next
    BY <1>1, <1>6, <1>7, <2>1, <2>2 DEF Children, ToSet
  <2>3. CASE j # next
    <3>1. j \in Nodes /\ slot.gens[j] # Null /\ slot.gens[j].gen = id
      BY <1>7, <2>1, <2>3 DEF Made
    <3>2. slot.gens[j].gen <= lastGenIndex
      BY <1>3, <3>1 DEF InOrder
    <3> QED BY <1>2, <3>1, <3>2
  <2> QED BY <2>2, <2>3
<1>10. GenRef(next) \in Ref
  BY <1>1 DEF GenRef, Ref
<1>11. HeldBy(Attach(with, GenRef(next)), {id}) \subseteq
          HeldBy(with.gens, {id}) \cup {x \in Frames : PageRef(x) = GenRef(next)}
  BY <1>4, <1>5, <1>8, <1>10, HeldAttach
<1>12. \A x : PageRef(x) # GenRef(next)
  BY RefsDiffer
<1> QED BY <1>1, <1>5, <1>9, <1>11, <1>12

\* Where an allocation fits, the page is the transaction's own.
LEMMA FitHeld ==
    ASSUME HeapInv, GensInOrder, HeldOnce, NEW size, NEW p, MallocFits(size, p),
           gens[working].gen = lastGenIndex
    PROVE  p \in HeldBy(gens, {lastGenIndex})
<1>1. p \in AllPages /\ p = FirstPageFit(gens, working, size) /\ working # committed
  BY DEF MallocFits
<1>2. working \in AllGens /\ Closed(gens) /\ working \in Made(gens) /\ Made(gens) = AllGens
  BY <1>1, HeapFacts, ClosedNow DEF HeapInv, TypeOK, Made, AllGens
<1>3. p \in ToSet(PagesIn(gens, working, MaxGen))
  <2> DEFINE s == PagesIn(gens, working, MaxGen)
             passing == {k \in DOMAIN s : pages[s[k]].used + size <= Units * pages[s[k]].pages}
  <2>1. p = IF passing = {} THEN Null ELSE s[Min(passing)]
    BY <1>1 DEF FirstPageFit, FirstThat
  <2>2. s \in Seq(Nat)
    BY <1>2, WalkKin DEF PagesIn, GensInOrder
  <2>3. p # Null
    BY <1>1 DEF AllPages, Frames
  <2> HIDE DEF s
  <2>4. passing \subseteq Nat
    BY <2>2, LenProperties
  <2>5. Min(passing) \in passing
    <3>1. passing # {}
      BY <2>1, <2>3
    <3> HIDE DEF passing
    <3> QED BY <2>4, <3>1, MinIsOne
  <2>6. Min(passing) \in DOMAIN s
    BY <2>5
  <2> QED BY <2>1, <2>3, <2>6 DEF ToSet, s
<1>4. PageRef(p) \in Kin(gens, working, MaxGen)
  BY <1>2, <1>3, WalkKin DEF GensInOrder, PagesIn, PageRef
<1>5. PICK j \in Made(gens) : PageRef(p) \in Children(gens, j) /\ gens[working].gen <= gens[j].gen
  BY <1>4, RefsDiffer DEF Kin
<1>6. gens[j].gen <= lastGenIndex /\ gens[j].gen \in Nat /\ lastGenIndex \in Nat
  BY <1>5, HeapFacts DEF GensInOrder, InOrder, Made, HeapInv, TypeOK, GensType, Generation
<1>7. gens[j].gen = lastGenIndex
  BY <1>5, <1>6
<1> QED BY <1>1, <1>5, <1>7 DEF HeldBy, AllPages

LEMMA BegunIds ==
    ASSUME HeapInv, GensInOrder, HeldOnce, BeginMut \/ BeginDies
    PROVE  SameIds(gens, gens')
<1> DEFINE slot == SlotBelow(committed)
           next == slot.lastGen + 1
           made == [slot.gens EXCEPT ![next] = NewGen(lastGenIndex + 1)]
           with == [slot EXCEPT !.gens[next] = NewGen(lastGenIndex + 1)]
<1>1. /\ Found(slot) /\ next \in Nodes /\ committed \in AllGens /\ lastGenIndex < MaxGen
      /\ gens' = Attach(with, GenRef(next)) \/ gens' = made
  BY DEF HeapInv, TypeOK, BeginMut, BeginDies
<1>2. Closed(made) /\ next \in Made(made)
  BY <1>1, BegunWalk, Zenon
<1>3. Made(made) = Made(slot.gens) \cup {next} /\ slot.gens[next] = Null
  <2>1. InOrder(slot.gens, slot.lastGen, lastGenIndex)
    BY <1>1, HeapFacts, SlotBelowOrder DEF HeapInv, TypeOK
  <2>2. slot.lastGen \in Nodes
    BY <1>1 DEF Found
  <2>3. Made(made) = Made(slot.gens) \cup {next}
    BY <1>1, BegunForm, Zenon
  <2> HIDE DEF slot, made
  <2> QED BY <1>1, <2>1, <2>2, <2>3 DEF InOrder, Nodes
<1>4. with.gens = made /\ with.target = slot.target /\ with.lastGen = slot.lastGen
  BY DEF SlotBelow
<1>5. SameIds(gens, slot.gens) /\ slot.gens \in GensType
  BY <1>1, SlotIds, HeapFacts, SlotBelowOrder DEF HeapInv, TypeOK
<1> HIDE DEF slot, next, with
<1>6. SameIds(slot.gens, made)
  BY <1>3, <1>5 DEF SameIds, GensType
<1> HIDE DEF made
<1>7. Found(with) /\ with.gens \in GensType
  BY <1>1, <1>2, <1>3, <1>4 DEF Found, Made, Closed
<1>8. GenRef(next) \in Ref
  BY <1>1 DEF GenRef, Ref
<1>9. SameIds(made, Attach(with, GenRef(next)))
  BY <1>4, <1>7, <1>8, AttachIds
<1> QED BY <1>1, <1>5, <1>6, <1>9 DEF SameIds

LEMMA TrapDiesIds ==
    ASSUME HeapInv, GensInOrder, NEW f, TrapDies(f)
    PROVE  SameIds(gens, gens')
<1> DEFINE p      == FindPage(f)
           slot   == SlotBelow(working)
           placed == CopyInPlace(slot, p)
<1>1. PICK done \in 1 .. 4 :
        /\ gens' = CASE done = 1 -> gens
                     [] done = 2 -> slot.gens
                     [] done > 2 -> placed
  BY Zenon DEF TrapDies
<1>2. /\ p \in AllPages /\ Found(slot) /\ RoomFor(pages[p].pages) /\ working # committed
  BY DEF TrapDies, Trappable
<1>3. working \in AllGens /\ gens[root] # Null
  BY <1>2, HeapFacts DEF HeapInv, TypeOK
<1>4. SameIds(gens, slot.gens) /\ slot.gens \in GensType
  BY <1>2, <1>3, SlotIds, HeapFacts, SlotBelowOrder DEF HeapInv, TypeOK
<1>5. FreshPage \in Frames
  BY <1>2, <1>3, HeapFacts, FreshPageIsFree DEF Page
<1>6. [q \in Frames |-> IF q = p THEN FreshPage ELSE q] \in [Frames -> Frames]
  BY <1>5
<1>7. SameIds(slot.gens, placed)
  BY <1>4, <1>6, RelinkIds DEF CopyInPlace
<1> HIDE DEF slot, placed
<1>8. done = 1 \/ done = 2 \/ done > 2
  OBVIOUS
<1>9. gens' = gens \/ gens' = slot.gens \/ gens' = placed
  BY <1>1, <1>8
<1> QED BY <1>4, <1>7, <1>9 DEF SameIds

LEMMA FlagIds ==
    ASSUME HeapInv, FlagCommitted
    PROVE  AllGens' = AllGens /\ \A i \in AllGens : gens'[i].c = gens[i].c /\ gens'[i].gen = gens[i].gen
<1> DEFINE gs == AllGens \cap ToSet(GensIn(gens, working))
<1>1. gens' = [i \in Nodes |-> IF i \in gs THEN [gens[i] EXCEPT !.committed = TRUE] ELSE gens[i]]
  BY DEF FlagCommitted
<1>2. gs \subseteq AllGens
  OBVIOUS
<1> HIDE DEF gs
<1>3. \A i \in AllGens : /\ [gens[i] EXCEPT !.committed = TRUE] # Null
                         /\ [gens[i] EXCEPT !.committed = TRUE].c = gens[i].c
                         /\ [gens[i] EXCEPT !.committed = TRUE].gen = gens[i].gen
  BY HeapFacts DEF Generation
<1> QED BY <1>1, <1>2, <1>3 DEF AllGens

LEMMA SwapIds ==
    ASSUME HeapInv, CheckoutSwap
    PROVE  SameIds(gens, gens')
<1> DEFINE p     == NextToMove
           home  == pages[p].real
           moved == Exchanged(p, home)
<1>1. p \in AllPages /\ gens' = Relink(gens, moved)
  BY DEF CheckoutSwap
<1> HIDE DEF p
<1>2. p \in Frames /\ home \in Frames /\ gens \in GensType
  BY <1>1, HeapFacts DEF HeapInv, PagesHaveHomes, AllPages, TypeOK
<1> HIDE DEF home
<1>3. moved \in [Frames -> Frames]
  BY <1>2 DEF Exchanged
<1> QED BY <1>1, <1>2, <1>3, RelinkIds

\* No step changes the id of a generation.
LEMMA IdsStep ==
    ASSUME HeapInv, GensInOrder, HeldOnce, [Next]_heapVars
    PROVE  SameIds(gens, gens')
<1>1. ASSUME NEW f \in Frames, Write(f) \/ TrapDies(f) PROVE SameIds(gens, gens')
  <2>1. CASE PlainWrite(f) \/ TrapFails(f)
    BY <2>1 DEF PlainWrite, TrapFails, fileVars, SameIds
  <2> QED BY <1>1, <2>1, TrappedWriteIds, TrapDiesIds DEF Write
<1>2. ASSUME NEW size, MallocDies(size) PROVE SameIds(gens, gens')
  <2> DEFINE slot == SlotBelow(working)
  <2>1. Found(slot) /\ gens' = slot.gens /\ working # committed
    BY <1>2 DEF MallocDies
  <2>2. working \in AllGens
    BY <2>1 DEF HeapInv, TypeOK
  <2> QED BY <2>1, <2>2, SlotIds
<1>3. CASE Commit \/ CommitDies
  <2>1. FlagCommitted
    BY <1>3 DEF Commit, CommitDies
  <2> QED BY <2>1, FlagIds DEF SameIds, AllGens
<1>4. CASE \/ SnapInit \/ Exit \/ MallocAborts \/ NullDeref \/ CheckoutFails
           \/ CheckoutEnd \/ Peek \/ PeekFirst \/ UNCHANGED heapVars
  <2>1. CASE NewDb
    <3>1. \A i \in Nodes : gens[i] = Null
      BY <2>1 DEF NewDb, HeapInv, TypeOK, AllGens
    <3> QED BY <3>1 DEF SameIds
  <2>2. CASE ~NewDb
    <3>1. gens' = gens
      BY <1>4, <2>2 DEF SnapInit, CreateDb, OpenDb, Exit, MallocAborts, NullDeref, CheckoutFails,
                        CheckoutEnd, Peek, PeekFirst, heapVars, fileVars
    <3> QED BY <3>1 DEF SameIds
  <2> QED BY <2>1, <2>2
<1>5. ASSUME NEW g, CheckoutSame(g) \/ CheckoutStart(g) PROVE SameIds(gens, gens')
  <2>1. gens' = gens
    BY <1>5 DEF CheckoutSame, CheckoutStart, heapVars, fileVars
  <2> QED BY <2>1 DEF SameIds
<1>6. ASSUME NEW size \in Nat \ {0}, NEW p \in Frames, Malloc(size, p) PROVE SameIds(gens, gens')
  BY <1>6, MallocIds
<1>7. CASE BeginMut \/ BeginDies
  BY <1>7, BegunIds
<1>8. CASE CheckoutSwap
  BY <1>8, SwapIds
<1> QED BY <1>1, <1>2, <1>3, <1>4, <1>5, <1>6, <1>7, <1>8, Zenon DEF Next

-----------------------------------------------------------------------------
(***************************************************************************)
(* The driver                                                              *)
(***************************************************************************)

USE EvalerAssumption


\* What the driver does to the heap in each of its steps.
\* The process is killed where the allocator has made a node and no slot points
\* to it yet.
KillInside == KillInTrap \/ KillInMalloc \/ KillInBegin

LEMMA DriverUnbroken ==
    parentGen \in 0 .. MaxGen /\ [EvalerNext]_vars /\ ~KillInside => [Unbroken]_heapVars
<1> SUFFICES ASSUME parentGen \in 0 .. MaxGen, [EvalerNext]_vars, ~KillInside
             PROVE  [Unbroken]_heapVars
  OBVIOUS
<1>1. CASE Start
  BY <1>1 DEF Start, Unbroken
<1>2. CASE InitAlloc
  BY <1>2 DEF InitAlloc, Unbroken
<1>3. CASE InitAborts
  BY <1>3 DEF InitAborts, Unbroken
<1>4. CASE InitDone
  BY <1>4 DEF InitDone
<1>5. CASE InitCommit
  BY <1>5 DEF InitCommit, Unbroken
<1>6. ASSUME NEW g, NEW next, g \in 0 .. MaxGen, BeginCheckout(g, next)
      PROVE  [Unbroken]_heapVars
  BY <1>6 DEF BeginCheckout, Unbroken
<1>7. CASE CheckoutQuery
  BY <1>6, <1>7 DEF CheckoutQuery
<1>8. CASE CheckoutMoves
  BY <1>8 DEF CheckoutMoves, Unbroken
<1>9. CASE CheckoutDone
  BY <1>9 DEF CheckoutDone, Unbroken
<1>10. CASE Begin
  BY <1>10 DEF Begin, Unbroken
<1>11. CASE BeginCrashes
  BY <1>11 DEF BeginCrashes, Unbroken
<1>12. CASE EvalWrite
  BY <1>12 DEF EvalWrite, Unbroken
<1>13. CASE EvalAlloc
  BY <1>13 DEF EvalAlloc, Unbroken
<1>14. ASSUME NEW outcome, CommitQuery(outcome) PROVE [Unbroken]_heapVars
  BY <1>14 DEF CommitQuery, Unbroken
<1>15. CASE Undo
  BY <1>6, <1>15 DEF Undo
<1>16. CASE Leave \/ LeaveUncommitted \/ Kill
  BY <1>16 DEF Leave, LeaveUncommitted, Kill, Unbroken
<1>17. CASE InitCommitCrashes \/ EvalAborts
  BY <1>17 DEF InitCommitCrashes, EvalAborts, Unbroken
<1>18. CASE KillInCommit
  BY <1>18 DEF KillInCommit, Unbroken
<1>19. CASE MemGraph
  BY <1>19 DEF MemGraph, Unbroken
<1>20. CASE UNCHANGED vars
  BY <1>20 DEF vars
<1> QED BY <1>1, <1>2, <1>3, <1>4, <1>5, <1>7, <1>8, <1>9, <1>10, <1>11, <1>12, <1>13,
           <1>14, <1>15, <1>16, <1>17, <1>18, <1>19, <1>20 DEF EvalerNext, KillInside

LEMMA DriverStep == parentGen \in 0 .. MaxGen /\ [EvalerNext]_vars => [Next]_heapVars
<1>1. [Unbroken]_heapVars => [Next]_heapVars
  BY DEF Unbroken, Next
<1>2. KillInside => Next
  BY DEF KillInside, KillInTrap, KillInMalloc, KillInBegin, Next
<1> QED BY <1>1, <1>2, DriverUnbroken

\* parent_gen, which a failed query goes back to, is the id of a generation.
LEMMA ParentStep ==
    HeapInv /\ parentGen \in 0 .. MaxGen /\ [EvalerNext]_vars => parentGen' \in 0 .. MaxGen
<1> SUFFICES ASSUME HeapInv, parentGen \in 0 .. MaxGen, [EvalerNext]_vars
             PROVE  parentGen' \in 0 .. MaxGen
  OBVIOUS
<1>1. CASE Begin
  <2>1. committed \in AllGens /\ parentGen' = gens[committed].gen
    BY <1>1 DEF Begin, HeapInv, TypeOK
  <2> QED BY <2>1, HeapFacts DEF Generation
<1>2. CASE \/ InitAborts \/ InitCommit \/ InitCommitCrashes \/ EvalAborts
           \/ Undo \/ Leave \/ LeaveUncommitted
           \/ Kill \/ KillInTrap \/ KillInMalloc \/ KillInBegin \/ KillInCommit
  <2>1. Forget
    BY <1>2 DEF InitAborts, InitCommit, InitCommitCrashes, EvalAborts, Undo, Leave,
                LeaveUncommitted, Kill, KillInTrap, KillInMalloc, KillInBegin,
                KillInCommit, DriverGone
  <2> QED BY <2>1, SnapAssumption DEF Forget
<1>3. ASSUME NEW outcome, CommitQuery(outcome) PROVE parentGen' \in 0 .. MaxGen
  BY <1>3, SnapAssumption DEF CommitQuery
<1>4. CASE \/ Start \/ InitAlloc \/ InitDone \/ CheckoutQuery \/ CheckoutMoves
           \/ CheckoutDone \/ BeginCrashes \/ EvalWrite \/ EvalAlloc \/ MemGraph
  BY <1>4 DEF Start, InitAlloc, InitDone, CheckoutQuery, CheckoutMoves, CheckoutDone,
              BeginCrashes, EvalWrite, EvalAlloc, MemGraph
<1>5. CASE UNCHANGED vars
  BY <1>5 DEF vars
<1> QED BY <1>1, <1>2, <1>3, <1>4, <1>5 DEF EvalerNext

EvalerInv == HeapInv /\ parentGen \in 0 .. MaxGen

\* Under its driver the heap is the heap of SnapHeap.
THEOREM EvalerUsesHeap == EvalerSpec => Spec
<1>1. EvalerInit => Init /\ EvalerInv
  BY InitHeapInv, SnapAssumption DEF EvalerInit, EvalerInv
<1>2. EvalerInv /\ [EvalerNext]_vars => [Next]_heapVars /\ EvalerInv'
  BY DriverStep, ParentStep, NextStep DEF EvalerInv
<1> QED BY <1>1, <1>2, PTL DEF EvalerSpec, Spec

\* No behaviour of an evaler, whatever its queries write, however they end and
\* wherever the process is killed, leaves a dangling pointer, two pages that
\* overlap, or a displaced page that page_swap would refuse to move back.
THEOREM EvalerHeapSound == EvalerSpec => [](TypeOK /\ PagesHaveHomes /\ PagesAreDisjoint)
<1>1. HeapInv => TypeOK /\ PagesHaveHomes /\ PagesAreDisjoint
  BY DEF HeapInv
<1> QED BY <1>1, EvalerUsesHeap, HeapInvariant, PTL

\* A child generation is never older than the one that holds it, whatever the
\* driver does: the walk that serves an older version may leave out a generation
\* with all that hangs below it (pages_up_to_gen).
THEOREM GenerationsGrow == EvalerSpec => []OlderAbove
<1>1. HeapInv /\ GensInOrder => OlderAbove
  <2> SUFFICES ASSUME HeapInv, GensInOrder,
                      NEW i \in AllGens, NEW k \in DOMAIN gens[i].c,
                      gens[i].c[k].type = "generation"
               PROVE  gens[gens[i].c[k].at].gen >= gens[i].gen
    BY DEF OlderAbove
  <2>1. i \in Nodes /\ gens[i] # Null
    BY DEF AllGens
  <2>2. /\ gens[i].c[k].at \in Nodes /\ gens[gens[i].c[k].at] # Null
        /\ gens[i].gen <= gens[gens[i].c[k].at].gen
    BY <2>1 DEF GensInOrder, InOrder
  <2>3. gens[i] \in Generation /\ gens[gens[i].c[k].at] \in Generation
    BY <2>1, <2>2, HeapFacts DEF AllGens, HeapInv, TypeOK, GensType
  <2> QED BY <2>2, <2>3, SnapAssumption DEF Generation
<1> QED BY <1>1, EvalerUsesHeap, OrderInvariant, PTL

\* snap_checkout may go through the list it made before it moved the first page,
\* although every exchange changes the tree the list was read off: the pages it
\* has still to move are where the list has them, the one moved is done with and
\* none that was at home has been moved away.
THEOREM ListHolds == EvalerSpec => CheckoutAsListed
<1>1. HeapInv /\ GensInOrder /\ [Next]_heapVars =>
        [LET list   == PagesUpToGen(gens[target].gen)
             toMove == {k \in DOMAIN list : Displaced(list[k])}
         IN  target # Null /\ target' # Null =>
                /\ DOMAIN list' = DOMAIN list
                /\ toMove' = toMove \ {Min(toMove)}
                /\ \A k \in toMove' : list'[k] = list[k]]_heapVars
  BY CheckoutSteps, CheckoutListed DEF Listed, ToMove
<1> QED BY <1>1, EvalerUsesHeap, OrderInvariant, PTL DEF Spec, CheckoutAsListed

\* No slot ever points to a node that was not made, and no two slots to the same
\* node, so that no page is freed, moved or copied for two generations at once:
\* not even a kill between two stores of the allocator leaves that behind.
THEOREM NeverHeldTwice == EvalerSpec => []HeldOnce
<1> QED BY EvalerUsesHeap, OrderInvariant, InitTree, TreeStep, PTL DEF Spec

\* As long as the process is not killed inside handle_segv, snap_malloc or
\* snap_begin_mut, every generation and every page is in the tree exactly once
\* and walk_nodes meets it.  It may be killed anywhere else, in a checkout and in
\* snap_commit too.
THEOREM TreeKept == EvalerSpec /\ [][~KillInside]_vars => []TreeOK
<1> DEFINE I == EvalerInv /\ GensInOrder /\ HeldOnce
<1>1. I /\ NothingLost /\ [EvalerNext]_vars /\ [~KillInside]_vars => NothingLost'
  <2> SUFFICES ASSUME I, NothingLost, [EvalerNext]_vars, [~KillInside]_vars PROVE NothingLost'
    OBVIOUS
  <2>1. UNCHANGED vars => UNCHANGED heapVars
    BY DEF vars
  <2>2. [Unbroken]_heapVars
    BY <2>1, DriverUnbroken DEF EvalerInv
  <2> QED BY <2>2, UnbrokenStep DEF EvalerInv
<1>2. EvalerSpec => []I
  <2>1. EvalerInit => EvalerInv
    BY InitHeapInv, SnapAssumption DEF EvalerInit, EvalerInv
  <2>2. EvalerInv /\ [EvalerNext]_vars => EvalerInv'
    BY DriverStep, ParentStep, NextStep DEF EvalerInv
  <2> QED BY <2>1, <2>2, EvalerUsesHeap, OrderInvariant, NeverHeldTwice, PTL DEF EvalerSpec
<1>3. EvalerInit => NothingLost
  BY InitTree DEF EvalerInit
<1>4. I /\ NothingLost => TreeOK
  BY TreeOKHolds DEF EvalerInv
<1> QED BY <1>1, <1>2, <1>3, <1>4, PTL DEF EvalerSpec

\* Without kills and other processes the tree is whole in every state.
THEOREM TreeAlwaysWhole ==
    ASSUME MaxFaults = 0
    PROVE  EvalerSpec => []TreeOK
<1> DEFINE I == faults = 0
<1>1. EvalerInit => I
  BY DEF EvalerInit
<1>2. ~ (0 < MaxFaults)
  OBVIOUS
<1>3. I /\ [EvalerNext]_vars => I' /\ [~KillInside]_vars
  <2> SUFFICES ASSUME faults = 0, [EvalerNext]_vars PROVE faults' = 0 /\ ~KillInside
    OBVIOUS
  <2>1. ~DriverGone /\ ~MemGraph
    BY <1>2 DEF DriverGone, MemGraph
  <2>2. ~KillInside /\ ~Kill /\ ~KillInCommit
    BY <2>1 DEF KillInside, KillInTrap, KillInMalloc, KillInBegin, Kill, KillInCommit
  <2>3. faults' = faults
    BY <2>1, <2>2 DEF EvalerNext, vars, KillInside, Start, InitAlloc, InitAborts, InitDone,
       InitCommit, InitCommitCrashes, CheckoutQuery, CheckoutMoves, CheckoutDone, Begin,
       BeginCrashes, EvalWrite, EvalAlloc, EvalAborts, CommitQuery, Undo, Leave, LeaveUncommitted
  <2> QED BY <2>2, <2>3
<1> HIDE DEF I
<1> QED BY <1>1, <1>3, TreeKept, PTL DEF EvalerSpec

-----------------------------------------------------------------------------
(***************************************************************************)
(* The versions the driver has committed                                   *)
(***************************************************************************)

\* What the driver has committed, and what it has in hand: nothing is committed
\* in a file without an interpreter; a query writes a generation that has the
\* newest id, which was never committed, unless somebody rolled it back.
Settled ==
    /\ DOMAIN snaps = 0 .. MaxGen
    /\ \A g \in 0 .. MaxGen : Committed(g) => gens[root] # Null /\ g <= lastGenIndex /\ userPtr
    /\ pc = "init" => ~userPtr
    /\ pc \notin {"off", "init"} => userPtr
    /\ pc # "off" => proc = "up"
    /\ after \in {"begin", "ready", "exit"}
    /\ pc = "eval" => /\ 0 <= lastGenIndex /\ ~Committed(lastGenIndex)
                      /\ working # committed => gens[working].gen = lastGenIndex

\* What a step of the heap does to it: nothing is taken away, unless there was
\* nothing.
LEMMA FileGrows ==
    ASSUME HeapInv, HeapInv', [Next]_heapVars, gens[root] # Null
    PROVE  gens'[root] # Null /\ lastGenIndex' \in Nat /\ lastGenIndex <= lastGenIndex'
<1>1. lastGenIndex \in Nat /\ lastGenIndex' \in Nat /\ root \in Nodes
  BY HeapFacts DEF HeapInv, TypeOK
<1>2. ~NewDb
  BY DEF NewDb
<1>3. working # committed \/ committed # Null \/ target # Null => working # Null
  BY DEF HeapInv, TypeOK
<1>4. \A n \in Nodes : n # Null
  BY DEF Nodes
<1> DEFINE Goal == /\ lastGenIndex' = lastGenIndex \/ lastGenIndex' = lastGenIndex + 1
                   /\ gens' = gens \/ working' # Null
<1>5. ASSUME BeginMut \/ BeginDies PROVE Goal
  BY <1>3, <1>4, <1>5 DEF BeginMut, BeginDies
<1>6. ASSUME NEW f \in Frames, Write(f) \/ TrapDies(f) PROVE Goal
  BY <1>3, <1>6 DEF Write, PlainWrite, TrappedWrite, Trappable, TrapFails, TrapDies, fileVars
<1>7. ASSUME NEW size, NEW p, Malloc(size, p) PROVE Goal
  BY <1>3, <1>7 DEF Malloc, MallocFits, MallocGrows
<1>8. ASSUME NEW size, MallocDies(size) PROVE Goal
  BY <1>3, <1>8 DEF MallocDies
<1>9. ASSUME Commit \/ CommitDies \/ CheckoutSwap PROVE Goal
  BY <1>3, <1>9 DEF Commit, CommitDies, CheckoutSwap
<1>10. ASSUME NEW g, CheckoutSame(g) \/ CheckoutStart(g) PROVE Goal
  BY <1>10 DEF CheckoutSame, CheckoutStart, heapVars, fileVars
<1>11. ASSUME \/ SnapInit \/ Exit \/ MallocAborts \/ NullDeref \/ CheckoutFails
              \/ CheckoutEnd \/ Peek \/ PeekFirst \/ UNCHANGED heapVars
       PROVE  Goal
  BY <1>2, <1>11 DEF SnapInit, CreateDb, OpenDb, Exit, MallocAborts, NullDeref, CheckoutFails,
                     CheckoutEnd, Peek, PeekFirst, heapVars, fileVars
<1> HIDE DEF Goal
<1>12. Goal
  BY <1>5, <1>6, <1>7, <1>8, <1>9, <1>10, <1>11 DEF Next
<1>13. working' # Null => gens'[root] # Null
  BY DEF HeapInv, TypeOK
<1> QED BY <1>1, <1>12, <1>13 DEF Goal

\* What was committed stays below the newest id, unless something is recorded.
LEMMA StillCommitted ==
    ASSUME HeapInv, HeapInv', Settled, [Next]_heapVars, snaps' = snaps, userPtr => userPtr'
    PROVE  /\ DOMAIN snaps' = 0 .. MaxGen
           /\ \A g \in 0 .. MaxGen :
                 Committed(g)' => gens'[root] # Null /\ g <= lastGenIndex' /\ userPtr'
<1>1. lastGenIndex \in Nat
  BY DEF HeapInv, TypeOK
<1>2. \A g \in 0 .. MaxGen : Committed(g)' <=> Committed(g)
  BY DEF Committed
<1>3. CASE gens[root] = Null
  BY <1>2, <1>3 DEF Settled
<1>4. CASE gens[root] # Null
  BY <1>1, <1>2, <1>4, FileGrows DEF Settled
<1> QED BY <1>3, <1>4

LEMMA SettledStep ==
    ASSUME HeapInv, HeapInv', GensInOrder, GensInOrder', HeldOnce, Settled, [Next]_heapVars,
           [EvalerNext]_vars
    PROVE  Settled'
<1>1. lastGenIndex \in Nat /\ lastGenIndex' \in Nat
  BY DEF HeapInv, TypeOK
<1> DEFINE Same == snaps' = snaps /\ (userPtr => userPtr')
           Rest == /\ pc' = "init" => ~userPtr'
                   /\ pc' \notin {"off", "init"} => userPtr'
                   /\ pc' # "off" => proc' = "up"
                   /\ after' \in {"begin", "ready", "exit"}
                   /\ pc' = "eval" =>
                         /\ 0 <= lastGenIndex' /\ ~Committed(lastGenIndex)'
                         /\ working' # committed' => gens'[working'].gen = lastGenIndex'
<1>2. ASSUME Same, Rest PROVE Settled'
  BY <1>2, StillCommitted DEF Settled
<1>3. ASSUME Same, pc' # "eval" \/ (lastGenIndex' = lastGenIndex /\ pc = "eval")
      PROVE  pc' = "eval" => 0 <= lastGenIndex' /\ ~Committed(lastGenIndex)'
  BY <1>1, <1>3 DEF Settled, Committed
<1>4. ASSUME Same, pc' = "off", after' \in {after, "begin"} PROVE Settled'
  BY <1>2, <1>4 DEF Settled
<1>5. CASE Start
  BY <1>2, <1>5 DEF Start, SnapInit, CreateDb, OpenDb, Settled
<1>6. CASE InitAlloc
  BY <1>2, <1>6 DEF InitAlloc, Malloc, MallocFits, MallocGrows, Settled
<1>7. CASE InitDone
  BY <1>2, <1>7 DEF InitDone, Settled, heapVars, historyVars
<1>8. CASE \/ InitAborts \/ InitCommitCrashes \/ BeginCrashes \/ EvalAborts \/ Leave
           \/ LeaveUncommitted \/ Kill \/ KillInTrap \/ KillInMalloc \/ KillInBegin
           \/ KillInCommit
  BY <1>4, <1>8 DEF InitAborts, InitCommitCrashes, BeginCrashes, EvalAborts, Leave,
        LeaveUncommitted, Kill, KillInTrap, KillInMalloc, KillInBegin, KillInCommit, DriverGone,
        historyVars
<1>9. ASSUME NEW g, NEW next \in {"begin", "ready", "exit"}, BeginCheckout(g, next),
             pc \notin {"off", "init"}, UNCHANGED userPtr
      PROVE  Settled'
  BY <1>2, <1>9 DEF BeginCheckout, CheckoutSame, CheckoutStart, heapVars, historyVars, Settled
<1>10. CASE CheckoutQuery
  BY <1>9, <1>10 DEF CheckoutQuery
<1>11. CASE Undo
  BY <1>9, <1>11 DEF Undo
<1>12. CASE CheckoutMoves
  BY <1>2, <1>12 DEF CheckoutMoves, historyVars, Settled
<1>13. CASE CheckoutDone
  BY <1>2, <1>13 DEF CheckoutDone, CheckoutEnd, Settled
<1>14. CASE Begin
  <2>1. Same /\ BeginMut /\ after' = after /\ pc' = IF proc' = "up" THEN "eval" ELSE "off"
    BY <1>14 DEF Begin, historyVars
  <2>2. gens'[working'].gen = lastGenIndex' /\ lastGenIndex' = lastGenIndex + 1
    BY <2>1, BegunId DEF BeginMut
  <2>3. ~Committed(lastGenIndex)'
    <3>1. lastGenIndex' \in 0 .. MaxGen
      BY DEF HeapInv, TypeOK
    <3>2. ~Committed(lastGenIndex')
      BY <1>1, <2>2, <3>1 DEF Settled
    <3> QED BY <2>1, <3>2 DEF Committed
  <2>4. userPtr'
    BY <1>14, <2>1 DEF Begin, Settled
  <2> QED BY <1>1, <1>2, <1>14, <2>1, <2>2, <2>3, <2>4 DEF Settled
<1>15. CASE EvalWrite
  <2>1. PICK f \in Frames : Write(f)
    BY <1>15 DEF EvalWrite
  <2>2. Same /\ pc = "eval" /\ pc' = IF proc' = "up" THEN pc ELSE "off"
    BY <1>15 DEF EvalWrite, historyVars
  <2>3. /\ lastGenIndex' = lastGenIndex /\ working' = working /\ committed' = committed
        /\ SameIds(gens, gens')
    BY <2>1, TrappedWriteIds DEF Write, PlainWrite, TrappedWrite, TrapFails, fileVars, SameIds
  <2>4. working # committed => working \in Nodes /\ gens[working] # Null
    BY DEF HeapInv, TypeOK, AllGens
  <2>5. working' # committed' /\ pc' = "eval" => gens'[working'].gen = lastGenIndex'
    BY <2>2, <2>3, <2>4 DEF SameIds, Settled
  <2>6. Rest
    BY <1>3, <1>15, <2>2, <2>3, <2>5 DEF EvalWrite, historyVars, Settled
  <2> QED BY <1>2, <2>2, <2>6
<1>16. CASE EvalAlloc
  <2>1. PICK size \in Sizes, p \in Frames : Malloc(size, p)
    BY <1>16 DEF EvalAlloc
  <2>2. Same /\ pc = "eval" /\ pc' = pc
    BY <1>16 DEF EvalAlloc, historyVars
  <2>3. /\ lastGenIndex' = lastGenIndex /\ working' = working /\ committed' = committed
        /\ proc' = proc
    BY <2>1 DEF Malloc, MallocFits, MallocGrows
  <2>4. working # committed => working \in Nodes /\ gens[working] # Null
    BY DEF HeapInv, TypeOK, AllGens
  <2>5. size \in Nat \ {0}
    BY EvalerAssumption
  <2>6. SameIds(gens, gens')
    BY <2>1, <2>5, MallocIds
  <2>7. Rest
    BY <1>3, <1>16, <2>2, <2>3, <2>4, <2>6 DEF EvalAlloc, historyVars, Settled, SameIds
  <2> QED BY <1>2, <2>2, <2>7
<1>17. CASE MemGraph
  <2>1. Same /\ UNCHANGED <<pc, after, proc, userPtr>>
    BY <1>17 DEF MemGraph, Peek, PeekFirst
  <2>2. CASE Peek
    <3>1. lastGenIndex' = lastGenIndex /\ working' = committed'
      BY <2>2 DEF Peek
    <3> QED BY <1>2, <1>3, <2>1, <3>1 DEF Settled
  <2>3. CASE PeekFirst
    <3>1. pc = "off"
      BY <2>3 DEF PeekFirst, Settled
    <3> QED BY <1>2, <2>1, <3>1 DEF Settled
  <2> QED BY <1>17, <2>2, <2>3 DEF MemGraph
<1>18. ASSUME NEW g \in 0 .. MaxGen, NEW from, Record(g, from), UNCHANGED <<userPtr, after>>,
              Commit, g <= lastGenIndex, pc \notin {"off", "init"},
              pc' \in {"ready", "undo", "exit"}
       PROVE  Settled'
  <2>1. snaps' = [snaps EXCEPT ![g] = Image]
    BY <1>18 DEF Record
  <2>2. DOMAIN snaps' = 0 .. MaxGen /\ \A h \in 0 .. MaxGen : h # g => snaps'[h] = snaps[h]
    BY <2>1 DEF Settled
  <2>3. gens[root] # Null /\ lastGenIndex' = lastGenIndex /\ proc' = "up"
    BY <1>18, HeapFacts DEF Commit
  <2>4. gens'[root] # Null
    BY <2>3, FileGrows
  <2>5. \A h \in 0 .. MaxGen : Committed(h)' => h = g \/ Committed(h)
    BY <2>2 DEF Committed
  <2>6. userPtr'
    BY <1>18 DEF Settled
  <2> QED BY <1>18, <2>2, <2>3, <2>4, <2>5, <2>6 DEF Settled
<1>19. CASE InitCommit
  <2>1. 0 \in 0 .. MaxGen
    BY SnapAssumption
  <2> QED BY <1>1, <1>18, <1>19, <2>1 DEF InitCommit
<1>20. ASSUME NEW outcome, CommitQuery(outcome) PROVE Settled'
  <2>1. pc' \in {"ready", "undo", "exit"} /\ UNCHANGED <<userPtr, after>> /\ Commit /\ pc = "eval"
    BY <1>20, EvalerAssumption DEF CommitQuery
  <2>2. CASE working = committed
    <3>1. Same /\ proc' = "up"
      BY <1>20, <2>2 DEF CommitQuery, Commit
    <3> QED BY <1>2, <2>1, <3>1 DEF Settled
  <2>3. CASE working # committed
    <3>1. working \in Nodes /\ gens[working] # Null /\ gens[working] \in Generation
      BY <2>3 DEF HeapInv, TypeOK, AllGens
    <3>2. gens[working].gen \in 0 .. MaxGen /\ gens[working].gen <= lastGenIndex
      BY <3>1 DEF Generation, GensInOrder, InOrder
    <3>3. Record(gens[working].gen, ancestors[parentGen] \cup {parentGen})
      BY <1>20, <2>3 DEF CommitQuery
    <3> QED BY <1>18, <2>1, <3>2, <3>3
  <2> QED BY <2>2, <2>3
<1>21. CASE UNCHANGED vars
  BY <1>2, <1>21 DEF vars, heapVars, fileVars, historyVars, Settled, Committed
<1> QED BY <1>5, <1>6, <1>7, <1>8, <1>10, <1>11, <1>12, <1>13, <1>14, <1>15, <1>16, <1>17,
           <1>19, <1>20, <1>21 DEF EvalerNext

\* Each step of the driver keeps what a checkout of a committed generation finds.
LEMMA KeptStep ==
    ASSUME HeapInv, GensInOrder, HeldOnce, Settled, CommittedAreProtected,
           HeapInv', GensInOrder', HeldOnce', [EvalerNext]_vars,
           NEW g \in 0 .. MaxGen, Committed(g)
    PROVE  Kept(g) \/ UNCHANGED <<gens, pages>>
<1>1. g \in Nat /\ g <= lastGenIndex /\ gens[root] # Null /\ userPtr /\ ~NewDb
  BY DEF Settled, NewDb
<1>2. pc # "init" /\ ~InitAlloc /\ ~InitAborts /\ ~InitDone
  BY <1>1 DEF Settled, InitAlloc, InitAborts, InitDone
<1>3. pc = "eval" /\ working # committed => gens[working].gen > g
  <2>1. lastGenIndex \in Nat
    BY DEF HeapInv, TypeOK
  <2> QED BY <1>1, <2>1 DEF Settled
<1> DEFINE Still == Kept(g) \/ UNCHANGED <<gens, pages>>
<1>4. CASE Start
  BY <1>1, <1>4 DEF Start, SnapInit, CreateDb, OpenDb
<1>5. CASE \/ InitCommitCrashes \/ BeginCrashes \/ EvalAborts \/ Leave \/ LeaveUncommitted
           \/ Kill \/ CheckoutDone
  BY <1>5 DEF InitCommitCrashes, BeginCrashes, EvalAborts, Leave, LeaveUncommitted, Kill,
        CheckoutDone, NullDeref, MallocAborts, Exit, CheckoutEnd, fileVars
<1>6. CASE CheckoutQuery \/ Undo
  BY <1>6 DEF CheckoutQuery, Undo, BeginCheckout, CheckoutSame, CheckoutStart, heapVars, fileVars
<1>7. CASE CheckoutMoves
  BY <1>1, <1>7, CheckoutSwapKept DEF CheckoutMoves, CheckoutFails, fileVars
<1>8. CASE Begin \/ KillInBegin
  <2>1. BeginMut \/ BeginDies
    BY <1>8 DEF Begin, KillInBegin
  <2> QED BY <1>1, <2>1, BeginKept
<1>9. CASE InitCommit \/ KillInCommit \/ \E outcome \in Outcomes \ {"nothing"} : CommitQuery(outcome)
  <2>1. FlagCommitted
    BY <1>9 DEF InitCommit, KillInCommit, CommitQuery, Commit, CommitDies
  <2> QED BY <1>1, <2>1, FlagKept
<1>10. CASE EvalWrite
  <2>1. PICK f \in Frames : (\E p \in lineage : f \in FramesOf(p)) /\ Write(f) /\ pc = "eval"
    BY <1>10 DEF EvalWrite
  <2>2. CASE PlainWrite(f)
    <3>1. prot[f]
      BY <2>2 DEF PlainWrite
    <3>2. \A i \in AllGens : \A ref \in ToSet(gens[i].c) :
             ref.type = "page" /\ Covers(ref.at, f) => ~pages[ref.at].committed
      BY <2>1, <3>1 DEF CommittedAreProtected
    <3> QED BY <1>1, <2>2, <3>2, PlainWriteKept
  <2>3. CASE TrappedWrite(f)
    <3>1. gens[working].gen > g
      BY <1>3, <2>1, <2>3 DEF TrappedWrite, Trappable
    <3> QED BY <1>1, <2>3, <3>1, TrappedWriteKept
  <2>4. CASE TrapFails(f)
    BY <2>4 DEF TrapFails, fileVars
  <2> QED BY <2>1, <2>2, <2>3, <2>4 DEF Write
<1>11. CASE EvalAlloc
  <2>1. PICK size \in Sizes, p \in Frames : Malloc(size, p) /\ pc = "eval"
    BY <1>11 DEF EvalAlloc
  <2>2. gens[working].gen > g /\ size \in Nat \ {0}
    BY <1>3, <2>1, EvalerAssumption DEF Malloc, MallocFits, MallocGrows
  <2>3. CASE MallocFits(size, p)
    BY <1>1, <2>2, <2>3, MallocFitsKept
  <2>4. CASE MallocGrows(size, p)
    BY <1>1, <2>2, <2>4, NewPageKept
  <2> QED BY <2>1, <2>3, <2>4 DEF Malloc
<1>12. CASE KillInTrap
  <2>1. PICK f \in Frames : TrapDies(f) /\ pc = "eval"
    BY <1>12 DEF KillInTrap
  <2>2. gens[working].gen > g
    BY <1>3, <2>1 DEF TrapDies, Trappable
  <2> QED BY <1>1, <2>1, <2>2, TrapDiesKept
<1>13. CASE KillInMalloc
  <2>1. PICK size \in Sizes : MallocDies(size) /\ pc = "eval"
    BY <1>2, <1>13 DEF KillInMalloc
  <2>2. gens[working].gen > g /\ size \in Nat \ {0}
    BY <1>3, <2>1, EvalerAssumption DEF MallocDies
  <2> QED BY <1>1, <2>1, <2>2, NewPageKept
<1>14. CASE MemGraph
  BY <1>1, <1>14 DEF MemGraph, Peek, PeekFirst
<1>15. CASE UNCHANGED vars
  BY <1>15 DEF vars, heapVars, fileVars
<1> QED BY <1>2, <1>4, <1>5, <1>6, <1>7, <1>8, <1>9, <1>10, <1>11, <1>12, <1>13, <1>14, <1>15
        DEF EvalerNext

Ground == HeapInv /\ GensInOrder /\ HeldOnce

LEMMA GroundHolds == EvalerSpec => []Ground
<1> QED BY EvalerUsesHeap, OrderInvariant, NeverHeldTwice, PTL DEF Ground

LEMMA SettledHolds == EvalerSpec => []Settled
<1>1. EvalerInit => Settled
  BY DEF EvalerInit, Init, Settled, Committed
<1>2. Ground /\ Ground' /\ Settled /\ [Next]_heapVars /\ [EvalerNext]_vars => Settled'
  BY SettledStep DEF Ground
<1>3. EvalerSpec => [][Next]_heapVars
  BY EvalerUsesHeap, PTL DEF Spec
<1> QED BY <1>1, <1>2, <1>3, GroundHolds, PTL DEF EvalerSpec


\* Nothing a later query does, no rollback, no split of a full generation and no
\* kill changes what a checkout of a committed generation finds, for any number of
\* frames, generations and slots, as long as the pages of committed generations
\* are protected while a program runs (VersionsAreKept, from
\* CommittedAreProtected).
THEOREM VersionsKept == EvalerSpec /\ []CommittedAreProtected => VersionsAreKept
<1> DEFINE A == \A g \in 0 .. MaxGen :
                   LET view == View(g)
                   IN  Committed(g) /\ (\A p \in view : p.committed) => View(g)' = view
<1>1. Ground /\ Ground' /\ Settled /\ CommittedAreProtected /\ [EvalerNext]_vars =>
         [A]_<<gens, pages>>
  <2> SUFFICES ASSUME Ground, Ground', Settled, CommittedAreProtected, [EvalerNext]_vars,
                      ~ UNCHANGED <<gens, pages>>, NEW g \in 0 .. MaxGen,
                      Committed(g), \A p \in View(g) : p.committed
               PROVE  View(g)' = View(g)
    OBVIOUS
  <2>1. Kept(g)
    BY KeptStep DEF Ground
  <2> QED BY <2>1 DEF Kept, AllCommitted
<1>2. VersionsAreKept <=> [][A]_<<gens, pages>>
  BY DEF VersionsAreKept
<1> HIDE DEF A
<1> QED BY <1>1, <1>2, GroundHolds, SettledHolds, PTL DEF EvalerSpec

-----------------------------------------------------------------------------
(***************************************************************************)
(* The memory the driver's program was given                               *)
(***************************************************************************)

\* The pages at their real address, where the program sees them; a version all
\* of whose pages have one.
Home == {f \in AllPages : pages[f].real = f}
Known(g) == DOMAIN snaps[g] \subseteq Home

\* Before the first commit.
Fresh == /\ ~userPtr => AllPages \subseteq Home
         /\ ~userPtr \/ pc \in {"init", "commit-init"} => committed = Null
         /\ pc \in {"init", "commit-init"} /\ working # Null => gens[working].gen = 0

\* What the transaction holds it was given or has trapped.
OwnPages == pc = "eval" /\ working # committed =>
               \A f \in HeldBy(gens, {lastGenIndex}) : f \in Home /\ ~pages[f].committed

Versioned ==
    /\ \A g \in 0 .. MaxGen : Committed(g) => Known(g)
    /\ committed # Null => Known(gens[committed].gen)
    /\ pc \in {"eval", "undo"} => parentGen \in 0 .. MaxGen /\ Known(parentGen)
    /\ pc = "moving" => target # Null /\ Known(gens[target].gen)

AtHome == lineage \subseteq Home /\ Fresh /\ OwnPages /\ Versioned

\* Where a page belongs it stays.
LEMMA HomeGrows ==
    ASSUME HeapInv, [Next]_heapVars
    PROVE  /\ Home \subseteq Home'
           /\ Layout => \A f \in Home' : f \in Home \/ (f = FreshPage /\ f \notin AllPages)
<1>1. CASE NewDb /\ ~Layout
  BY <1>1 DEF NewDb, HeapInv, TypeOK, Home
<1>2. CASE Layout
  BY <1>2 DEF Layout, Lengthened, SameLayout, Home
<1> QED BY <1>1, <1>2, LayoutStep

\* A generation keeps its id and its version the pages it has.
LEMMA StillKnown ==
    ASSUME HeapInv, GensInOrder, HeldOnce, [Next]_heapVars, snaps' = snaps
    PROVE  /\ \A g \in 0 .. MaxGen : Known(g) => Known(g)'
           /\ (\A g \in 0 .. MaxGen : Committed(g) => Known(g)) =>
                 (\A g \in 0 .. MaxGen : Committed(g) => Known(g))'
           /\ \A i \in AllGens : Known(gens[i].gen) =>
                 gens'[i].gen = gens[i].gen /\ DOMAIN snaps'[gens'[i].gen] \subseteq Home'
<1>1. Home \subseteq Home'
  BY HomeGrows
<1>2. \A g : Known(g) => Known(g)'
  BY <1>1 DEF Known
<1>3. \A i \in AllGens : gens'[i].gen = gens[i].gen
  BY IdsStep DEF SameIds, AllGens
<1>4. (\A g \in 0 .. MaxGen : Committed(g) => Known(g)) =>
         (\A g \in 0 .. MaxGen : Committed(g) => Known(g))'
  BY <1>1 DEF Known, Committed
<1>5. \A i \in AllGens : Known(gens[i].gen) =>
                 gens'[i].gen = gens[i].gen /\ DOMAIN snaps'[gens'[i].gen] \subseteq Home'
  BY <1>1, <1>3 DEF Known
<1> QED BY <1>2, <1>4, <1>5

LEMMA FirstPageHome == ASSUME HeapInv, NewDb PROVE AllPages' \subseteq Home'
<1> DEFINE x == [real |-> initialPage, committed |-> TRUE, pages |-> 1, used |-> 0, val |-> 0]
<1>1. AllPages = {} /\ initialPage \in Frames /\ pages \in PagesType
      /\ pages' = [pages EXCEPT ![initialPage] = x]
  BY HeapFacts DEF NewDb, HeapInv, TypeOK, Frames, initialPage
<1>2. \A f \in Frames : f # initialPage => pages'[f] = Null
  BY <1>1 DEF AllPages, PagesType
<1>3. pages'[initialPage].real = initialPage
  BY <1>1 DEF PagesType
<1> QED BY <1>2, <1>3 DEF AllPages, Home

LEMMA MadeHome ==
    ASSUME HeapInv, NEW size \in Nat \ {0}, NEW p, Malloc(size, p) \/ MallocDies(size)
    PROVE  /\ AllPages \subseteq Home => AllPages' \subseteq Home'
           /\ MallocGrows(size, p) => p \in Home' /\ ~pages'[p].committed
           /\ \A f \in AllPages : f \in AllPages' /\ pages'[f].committed = pages[f].committed
<1>1. CASE MallocFits(size, p)
  <2> DEFINE x == [pages[p] EXCEPT !.used = @ + size]
  <2>1. /\ p \in AllPages /\ pages' = [pages EXCEPT ![p] = x] /\ pages \in PagesType
        /\ p = FirstPageFit(gens, working, size)
    BY <1>1, HeapFacts DEF MallocFits
  <2>2. x # Null /\ x.real = pages[p].real /\ x.committed = pages[p].committed
    BY <2>1, HeapFacts DEF Page
  <2> HIDE DEF x
  <2>3. \A f \in Frames : f # p => pages'[f] = pages[f]
    BY <2>1 DEF PagesType
  <2>4. pages'[p] = x
    BY <2>1 DEF PagesType, AllPages
  <2>5. ~ MallocGrows(size, p)
    BY <2>1 DEF MallocGrows, AllPages, Frames
  <2>6. AllPages' = AllPages
    BY <2>1, <2>2, <2>3, <2>4 DEF AllPages
  <2>7. \A f \in AllPages : pages'[f].real = pages[f].real /\ pages'[f].committed = pages[f].committed
    BY <2>2, <2>3, <2>4 DEF AllPages
  <2>8. Home' = Home
    BY <2>6, <2>7 DEF Home
  <2> QED BY <2>5, <2>6, <2>7, <2>8
<1>2. CASE ~ MallocFits(size, p)
  <2> DEFINE n == (size \div Units) + 1
             new(used) == [real |-> FreshPage, committed |-> FALSE, pages |-> n,
                           used |-> used, val |-> 0]
  <2>1. /\ RoomFor(n) /\ working # committed
        /\ MallocGrows(size, p) => p = FreshPage
        /\ \E used \in Nat : pages' = [pages EXCEPT ![FreshPage] = new(used)]
    BY <1>2 DEF Malloc, MallocGrows, MallocDies
  <2>2. gens[root] # Null /\ pages \in PagesType
    BY <2>1, HeapFacts DEF HeapInv, TypeOK
  <2>3. PICK used \in Nat : pages' = [pages EXCEPT ![FreshPage] = new(used)]
    BY <2>1
  <2>4. new(used).real = FreshPage /\ ~new(used).committed
    OBVIOUS
  <2>5. FreshPage \in Frames /\ FreshPage \notin AllPages
    <3>1. n \in Nat \ {0}
      BY SnapAssumption
    <3> HIDE DEF n
    <3> QED BY <2>1, <2>2, <3>1, FreshPageIsFree
  <2>8. new(used) # Null
    <3>1. n \in Nat \ {0}
      BY SnapAssumption
    <3> HIDE DEF n
    <3>2. new(used) \in Page
      BY <2>5, <3>1 DEF Page
    <3> QED BY <3>2
  <2> HIDE DEF n, new
  <2>6. \A f \in Frames : f # FreshPage => pages'[f] = pages[f]
    BY <2>2, <2>3 DEF PagesType
  <2>7. pages'[FreshPage] = new(used)
    BY <2>2, <2>3, <2>5 DEF PagesType
  <2> QED BY <2>1, <2>4, <2>5, <2>6, <2>7, <2>8 DEF AllPages, Home
<1> QED BY <1>1, <1>2

LEMMA FreshStep ==
    ASSUME HeapInv, HeapInv', GensInOrder, HeldOnce, Settled, Fresh, [Next]_heapVars, [EvalerNext]_vars
    PROVE  Fresh'
<1> DEFINE Rest == /\ ~userPtr' \/ pc' \in {"init", "commit-init"} => committed' = Null
                   /\ pc' \in {"init", "commit-init"} /\ working' # Null => gens'[working'].gen = 0
<1>1. ASSUME NewDb, pc' \notin {"commit-init"} PROVE Fresh'
  <2>1. committed' = Null /\ working' = root /\ gens'[root].gen = 0
    BY <1>1, HeapFacts DEF NewDb, HeapInv, TypeOK
  <2> QED BY <1>1, <2>1, FirstPageHome DEF Fresh
<1>2. ASSUME UNCHANGED pages, userPtr' = userPtr, Rest PROVE Fresh'
  BY <1>2 DEF Fresh, AllPages, Home
<1>3. CASE Start
  <2>1. CASE CreateDb
    BY <1>1, <1>3, <2>1 DEF CreateDb, Start
  <2>2. CASE OpenDb
    <3>1. UNCHANGED <<pages, gens, committed, userPtr>> /\ working' = committed
          /\ pc' = IF userPtr THEN "ready" ELSE "init"
      BY <1>3, <2>2 DEF OpenDb, Start
    <3> QED BY <1>2, <3>1 DEF Fresh
  <2> QED BY <1>3, <2>1, <2>2 DEF Start, SnapInit
<1>4. CASE InitAlloc
  <2>1. PICK size \in Sizes, p \in Frames : Malloc(size, p)
    BY <1>4 DEF InitAlloc
  <2>2. size \in Nat \ {0}
    BY EvalerAssumption
  <2>3. committed' = committed /\ working' = working /\ userPtr' = userPtr /\ pc' = pc /\ pc = "init"
    BY <1>4, <2>1 DEF InitAlloc, Malloc, MallocFits, MallocGrows
  <2>4. AllPages \subseteq Home => AllPages' \subseteq Home'
    BY <2>1, <2>2, MadeHome
  <2>5. SameIds(gens, gens') /\ (working # Null => working \in Nodes /\ gens[working] # Null)
    BY <2>1, <2>2, MallocIds DEF HeapInv, TypeOK, AllGens
  <2> QED BY <2>3, <2>4, <2>5 DEF Fresh, SameIds
<1>5. CASE InitDone
  BY <1>5 DEF InitDone, Fresh, heapVars, fileVars
<1>6. CASE InitAborts \/ InitCommitCrashes \/ Kill
  <2>1. UNCHANGED <<pages, committed, userPtr>> /\ pc' = "off"
    BY <1>6 DEF InitAborts, InitCommitCrashes, Kill, MallocAborts, NullDeref, DriverGone, Exit, fileVars
  <2> QED BY <1>2, <2>1 DEF Fresh
<1>7. ASSUME pc \notin {"off", "init"}, userPtr' = userPtr, pc' \notin {"init", "commit-init"} PROVE Fresh'
  BY <1>7 DEF Settled, Fresh
<1>8. CASE InitCommit \/ BeginCrashes \/ EvalAborts \/ Leave
           \/ LeaveUncommitted \/ KillInTrap \/ KillInBegin \/ KillInCommit
  BY <1>7, <1>8 DEF InitCommit, BeginCrashes, EvalAborts, Leave, LeaveUncommitted, KillInTrap,
        KillInBegin, KillInCommit, DriverGone
<1>9. ASSUME NEW g, NEW next \in {"begin", "ready", "exit"}, BeginCheckout(g, next),
             pc \notin {"off", "init"}, UNCHANGED userPtr
      PROVE  Fresh'
  BY <1>7, <1>9 DEF BeginCheckout
<1>10. CASE CheckoutQuery
  BY <1>9, <1>10 DEF CheckoutQuery
<1>11. CASE Undo
  BY <1>9, <1>11 DEF Undo
<1>12. CASE CheckoutMoves \/ Begin \/ EvalWrite \/ EvalAlloc
  BY <1>7, <1>12 DEF CheckoutMoves, Begin, EvalWrite, EvalAlloc
<1>13. CASE CheckoutDone
  BY <1>7, <1>13 DEF CheckoutDone, Settled
<1>14. ASSUME NEW outcome, CommitQuery(outcome) PROVE Fresh'
  <2>1. pc' \in {"ready", "undo", "exit"} /\ UNCHANGED userPtr /\ pc = "eval"
    BY <1>14, EvalerAssumption DEF CommitQuery
  <2> QED BY <1>7, <2>1
<1>15. CASE KillInMalloc
  <2>1. PICK size \in Sizes : MallocDies(size)
    BY <1>15 DEF KillInMalloc
  <2>2. size \in Nat \ {0}
    BY EvalerAssumption
  <2>3. committed' = committed /\ userPtr' = userPtr /\ pc' = "off"
    BY <1>15, <2>1 DEF KillInMalloc, DriverGone, MallocDies
  <2>4. AllPages \subseteq Home => AllPages' \subseteq Home'
    BY <2>1, <2>2, MadeHome
  <2> QED BY <2>3, <2>4 DEF Fresh
<1>16. CASE MemGraph
  <2>1. UNCHANGED <<pc, userPtr>>
    BY <1>16 DEF MemGraph
  <2>2. CASE Peek
    <3>1. UNCHANGED <<pages, committed>> /\ working' = committed
      BY <2>2 DEF Peek
    <3> QED BY <1>2, <2>1, <3>1 DEF Fresh
  <2>3. CASE PeekFirst
    <3>1. pc = "off"
      BY <2>3 DEF PeekFirst, Settled
    <3> QED BY <1>1, <2>1, <2>3, <3>1 DEF PeekFirst
  <2> QED BY <1>16, <2>2, <2>3 DEF MemGraph
<1>17. CASE UNCHANGED vars
  BY <1>2, <1>17 DEF vars, heapVars, fileVars, Fresh
<1> QED BY <1>3, <1>4, <1>5, <1>6, <1>8, <1>10, <1>11, <1>12, <1>13, <1>14, <1>15, <1>16, <1>17
        DEF EvalerNext

\* Steps that commit nothing and run no query.
LEMMA VersionedKept ==
    ASSUME HeapInv, GensInOrder, HeldOnce, Versioned, [Next]_heapVars, snaps' = snaps,
           committed' \in {committed, Null} \/ (pc = "moving" /\ committed' = target),
           pc' \in {"eval", "undo"} =>
              /\ parentGen' \in 0 .. MaxGen
              /\ \/ parentGen' = parentGen /\ pc \in {"eval", "undo"}
                 \/ committed # Null /\ parentGen' = gens[committed].gen,
           pc' = "moving" =>
              /\ target' # Null
              /\ \/ target' = target /\ pc = "moving"
                 \/ target' \in AllGens /\ Known(gens[target'].gen)
    PROVE  Versioned'
<1>1. committed \in AllGens \cup {Null} /\ target \in AllGens \cup {Null}
  BY DEF HeapInv, TypeOK
<1>2. (\A g \in 0 .. MaxGen : Committed(g) => Known(g))'
  BY StillKnown DEF Versioned
<1>3. \A i \in AllGens : Known(gens[i].gen) => DOMAIN snaps'[gens'[i].gen] \subseteq Home'
  BY StillKnown
<1>4. committed' # Null => Known(gens[committed].gen)'
  <2> HAVE committed' # Null
  <2>1. committed' \in AllGens /\ Known(gens[committed'].gen)
    BY <1>1 DEF Versioned
  <2>2. DOMAIN snaps'[gens'[committed'].gen] \subseteq Home'
    BY <1>3, <2>1
  <2> QED BY <2>2 DEF Known
<1>5. \A g \in 0 .. MaxGen : Known(g) => Known(g)'
  BY StillKnown
<1>6. pc' \in {"eval", "undo"} => (parentGen \in 0 .. MaxGen /\ Known(parentGen))'
  <2> HAVE pc' \in {"eval", "undo"}
  <2>1. parentGen' \in 0 .. MaxGen /\ Known(parentGen')
    BY DEF Versioned
  <2>2. \A g \in 0 .. MaxGen : Known(g) => DOMAIN snaps'[g] \subseteq Home'
    BY <1>5 DEF Known
  <2> QED BY <2>1, <2>2 DEF Known
<1>7. pc' = "moving" => (target # Null /\ Known(gens[target].gen))'
  <2> HAVE pc' = "moving"
  <2>1. target' \in AllGens /\ Known(gens[target'].gen)
    BY <1>1 DEF Versioned
  <2>2. DOMAIN snaps'[gens'[target'].gen] \subseteq Home'
    BY <1>3, <2>1
  <2> QED BY <2>2 DEF Known
<1> QED BY <1>2, <1>4, <1>6, <1>7 DEF Versioned

\* What is committed is the memory of the program, which is at home.
LEMMA RecordedKnown ==
    ASSUME HeapInv, GensInOrder, HeldOnce, Versioned, Settled, lineage \subseteq Home,
           [Next]_heapVars, Commit, NEW from, Record(gens[working].gen, from),
           pc' \in {"ready", "undo", "exit"}, pc' = "undo" => pc = "eval" /\ parentGen' = parentGen
    PROVE  Versioned'
<1> DEFINE id == gens[working].gen
<1>1. working \in AllGens /\ id \in 0 .. MaxGen
  BY DEF Commit, HeapInv, TypeOK, AllGens, Generation
<1>2. Home \subseteq Home' /\ SameIds(gens, gens')
  BY HomeGrows, IdsStep
<1>3. snaps' = [snaps EXCEPT ![id] = Image] /\ DOMAIN Image = lineage
  BY DEF Record, Image
<1>4. \A g \in 0 .. MaxGen : g # id => snaps'[g] = snaps[g]
  BY <1>3 DEF Settled
<1>5. snaps'[id] = Image
  BY <1>1, <1>3 DEF Settled
<1>6. gens'[working].gen = id /\ committed' = working
  BY <1>1, <1>2 DEF Commit, SameIds, AllGens
<1> HIDE DEF id
<1>7. DOMAIN snaps'[id] \subseteq Home'
  BY <1>2, <1>3, <1>5
<1>8. \A g \in 0 .. MaxGen : Known(g) => DOMAIN snaps'[g] \subseteq Home'
  BY <1>2, <1>3, <1>4, <1>5 DEF Known
<1>9. \A g \in 0 .. MaxGen : Committed(g)' => g = id \/ Committed(g)
  BY <1>4 DEF Committed
<1>10. (\A g \in 0 .. MaxGen : Committed(g) => Known(g))'
  <2> SUFFICES ASSUME NEW g \in 0 .. MaxGen, Committed(g)' PROVE DOMAIN snaps'[g] \subseteq Home'
    BY DEF Known
  <2>1. CASE g = id
    BY <1>7, <2>1
  <2>2. CASE g # id
    BY <1>8, <1>9, <2>2 DEF Versioned
  <2> QED BY <2>1, <2>2
<1>11. (committed # Null => Known(gens[committed].gen))'
  BY <1>6, <1>7 DEF Known
<1>12. pc' \in {"eval", "undo"} => (parentGen \in 0 .. MaxGen /\ Known(parentGen))'
  BY <1>8 DEF Versioned, Known
<1> QED BY <1>10, <1>11, <1>12 DEF Versioned

LEMMA VersionedStep ==
    ASSUME HeapInv, HeapInv', GensInOrder, HeldOnce, Settled, Fresh, Versioned,
           lineage \subseteq Home, [Next]_heapVars, [EvalerNext]_vars
    PROVE  Versioned'
<1>0. committed \in AllGens \cup {Null} /\ target \in AllGens \cup {Null}
      /\ \A i \in AllGens : gens[i].gen \in 0 .. MaxGen
  BY DEF HeapInv, TypeOK, AllGens, Generation
<1>1. ASSUME snaps' = snaps, committed' \in {committed, Null}, pc' \notin {"eval", "undo", "moving"}
      PROVE  Versioned'
  BY <1>1, VersionedKept
<1>2. CASE \/ Start \/ InitAlloc \/ InitAborts \/ InitDone \/ InitCommitCrashes
  BY <1>1, <1>2 DEF Start, SnapInit, CreateDb, NewDb, OpenDb, InitAlloc, Malloc, MallocFits,
        MallocGrows, InitAborts, MallocAborts, InitDone, InitCommitCrashes, NullDeref, heapVars,
        fileVars, historyVars
<1>3. CASE \/ BeginCrashes \/ EvalAborts \/ Leave \/ LeaveUncommitted \/ Kill
  BY <1>1, <1>3 DEF BeginCrashes, NullDeref, EvalAborts, MallocAborts, Leave, Exit,
        LeaveUncommitted, Kill, DriverGone, fileVars, historyVars
<1>4. CASE KillInTrap \/ KillInMalloc \/ KillInBegin \/ KillInCommit
  BY <1>1, <1>4 DEF KillInTrap, TrapDies, KillInMalloc, MallocDies, KillInBegin, BeginDies,
        KillInCommit, CommitDies, DriverGone
<1>5. ASSUME NEW g \in 0 .. MaxGen, NEW next \in {"begin", "ready", "exit"}, BeginCheckout(g, next),
             Known(g)
      PROVE  Versioned'
  <2>1. CASE CheckoutSame(g) /\ pc' = next /\ UNCHANGED historyVars
    BY <1>1, <2>1 DEF CheckoutSame, heapVars, fileVars, historyVars
  <2>2. CASE CheckoutStart(g) /\ pc' = "moving" /\ UNCHANGED snaps
    <3>1. target' \in AllGens /\ target' = NodeOf(g) /\ committed # Null /\ committed' = committed
      BY <2>2 DEF CheckoutStart, fileVars
    <3>2. gens[root] # Null
      BY <3>1, HeapFacts DEF HeapInv, TypeOK
    <3>3. gens[target'].gen = g
      BY <3>1, <3>2, NodeOfIs
    <3>4. target' # Null
      BY <3>1, NullAssumption DEF AllGens, Nodes
    <3> QED BY <1>5, <2>2, <3>1, <3>3, <3>4, VersionedKept
  <2> QED BY <1>5, <2>1, <2>2 DEF BeginCheckout
<1>6. CASE CheckoutQuery
  <2>1. PICK g \in Targets \cap (0 .. MaxGen) : Committed(g) /\ BeginCheckout(g, "begin")
    BY <1>6 DEF CheckoutQuery
  <2> QED BY <1>5, <2>1 DEF Versioned
<1>7. CASE Undo
  BY <1>5, <1>7 DEF Undo, Versioned
<1>8. CASE CheckoutMoves
  <2>1. /\ snaps' = snaps /\ committed' = committed /\ pc = "moving"
        /\ pc' = IF proc' = "up" THEN pc ELSE "off"
        /\ proc' = "up" => target' = target /\ target # Null
    BY <1>8 DEF CheckoutMoves, CheckoutSwap, CheckoutFails, fileVars, historyVars
  <2> QED BY <2>1, VersionedKept
<1>9. CASE CheckoutDone
  <2>1. snaps' = snaps /\ committed' = target /\ pc = "moving" /\ pc' \in {"begin", "ready", "exit"}
    BY <1>9 DEF CheckoutDone, CheckoutEnd, Settled
  <2> QED BY <2>1, VersionedKept
<1>10. CASE Begin
  <2>1. /\ snaps' = snaps /\ committed' = committed /\ committed # Null /\ pc' \in {"eval", "off"}
        /\ parentGen' = gens[committed].gen
    BY <1>10 DEF Begin, BeginMut, historyVars
  <2> QED BY <1>0, <2>1, VersionedKept
<1>11. CASE EvalWrite
  <2>1. /\ snaps' = snaps /\ committed' = committed /\ pc = "eval" /\ pc' \in {"eval", "off"}
        /\ parentGen' = parentGen
    BY <1>11 DEF EvalWrite, Write, PlainWrite, TrappedWrite, TrapFails, fileVars, historyVars
  <2> QED BY <2>1, VersionedKept DEF Versioned
<1>12. CASE EvalAlloc
  <2>1. /\ snaps' = snaps /\ committed' = committed /\ pc = "eval" /\ pc' = "eval"
        /\ parentGen' = parentGen
    BY <1>12 DEF EvalAlloc, Malloc, MallocFits, MallocGrows
  <2> QED BY <2>1, VersionedKept DEF Versioned
<1>13. CASE InitCommit
  <2>1. Commit /\ Record(0, {}) /\ pc' = "ready" /\ gens[working].gen = 0
    BY <1>13 DEF InitCommit, Commit, Fresh
  <2> QED BY <2>1, RecordedKnown
<1>14. ASSUME NEW outcome, CommitQuery(outcome) PROVE Versioned'
  <2>1. /\ Commit /\ pc = "eval" /\ pc' \in {"ready", "undo", "exit"}
        /\ pc' = "undo" => parentGen' = parentGen
    BY <1>14, EvalerAssumption DEF CommitQuery
  <2>2. CASE working = committed
    <3>1. snaps' = snaps /\ committed' = committed
      BY <1>14, <2>1, <2>2 DEF CommitQuery, Commit
    <3> QED BY <2>1, <3>1, VersionedKept DEF Versioned
  <2>3. CASE working # committed
    <3>1. Record(gens[working].gen, ancestors[parentGen] \cup {parentGen})
      BY <1>14, <2>3 DEF CommitQuery
    <3> QED BY <2>1, <3>1, RecordedKnown
  <2> QED BY <2>2, <2>3
<1>15. CASE MemGraph
  <2>1. UNCHANGED <<pc, parentGen, snaps>>
    BY <1>15 DEF MemGraph
  <2>2. CASE Peek
    <3>1. committed' = committed /\ target' = target /\ target = Null
      BY <2>2 DEF Peek
    <3> QED BY <2>1, <3>1, VersionedKept DEF Versioned
  <2>3. CASE PeekFirst
    <3>1. pc = "off"
      BY <2>3 DEF PeekFirst, Settled
    <3> QED BY <1>1, <2>1, <2>3, <3>1 DEF PeekFirst, NewDb
  <2> QED BY <1>15, <2>2, <2>3 DEF MemGraph
<1>16. CASE UNCHANGED vars
  BY <1>16, VersionedKept DEF vars, heapVars, fileVars, historyVars, Versioned
<1> QED BY <1>2, <1>3, <1>4, <1>6, <1>7, <1>8, <1>9, <1>10, <1>11, <1>12, <1>13, <1>14, <1>15, <1>16
        DEF EvalerNext

LEMMA LineageStep ==
    ASSUME HeapInv, GensInOrder, HeldOnce, Settled, Fresh, OwnPages, Versioned,
           lineage \subseteq Home, [Next]_heapVars, [EvalerNext]_vars
    PROVE  lineage' \subseteq Home'
<1>1. Home \subseteq Home'
  BY HomeGrows
<1>2. ASSUME lineage' = lineage PROVE lineage' \subseteq Home'
  BY <1>1, <1>2
<1>3. CASE Start
  <2>1. lineage' = KnownPages
    BY <1>3 DEF Start
  <2>2. KnownPages \subseteq Home
    BY DEF KnownPages, Versioned, Known
  <2> QED BY <1>1, <2>1, <2>2
<1>4. ASSUME NEW size \in Nat \ {0}, NEW p \in Frames, Malloc(size, p), lineage' = lineage \cup {p},
             pc = "init" \/ pc = "eval"
      PROVE  lineage' \subseteq Home'
  <2>1. CASE MallocGrows(size, p)
    BY <1>1, <1>4, <2>1, MadeHome
  <2>2. CASE MallocFits(size, p)
    <3>1. p \in AllPages /\ working # committed
      BY <2>2 DEF MallocFits
    <3>2. CASE pc = "init"
      BY <1>1, <1>4, <3>1, <3>2 DEF Settled, Fresh
    <3>3. CASE pc = "eval"
      <4>1. p \in HeldBy(gens, {lastGenIndex})
        BY <2>2, <3>1, <3>3, FitHeld DEF Settled
      <4> QED BY <1>1, <1>4, <3>1, <3>3, <4>1 DEF OwnPages
    <3> QED BY <1>4, <3>2, <3>3
  <2> QED BY <1>4, <2>1, <2>2 DEF Malloc
<1>5. CASE InitAlloc
  BY <1>4, <1>5, EvalerAssumption DEF InitAlloc
<1>6. CASE EvalAlloc
  BY <1>4, <1>6, EvalerAssumption DEF EvalAlloc
<1>7. CASE CheckoutDone
  <2>1. lineage' = DOMAIN snaps[gens[target].gen] /\ pc = "moving"
    BY <1>7 DEF CheckoutDone
  <2> QED BY <1>1, <2>1 DEF Versioned, Known
<1>8. CASE \/ InitAborts \/ InitDone \/ InitCommit \/ InitCommitCrashes \/ CheckoutMoves
           \/ Begin \/ BeginCrashes \/ EvalWrite \/ EvalAborts \/ Leave \/ LeaveUncommitted
  BY <1>2, <1>8 DEF InitAborts, InitDone, InitCommit, InitCommitCrashes, CheckoutMoves,
        Begin, BeginCrashes, EvalWrite, EvalAborts, Leave, LeaveUncommitted, historyVars
<1>9. CASE Kill \/ KillInTrap \/ KillInMalloc \/ KillInBegin \/ KillInCommit \/ MemGraph
  BY <1>2, <1>9 DEF Kill, KillInTrap, KillInMalloc, KillInBegin, KillInCommit, DriverGone, MemGraph
<1>10. CASE CheckoutQuery \/ Undo
  BY <1>2, <1>10 DEF CheckoutQuery, Undo, BeginCheckout, historyVars
<1>11. ASSUME NEW outcome, CommitQuery(outcome) PROVE lineage' \subseteq Home'
  BY <1>2, <1>11 DEF CommitQuery
<1>12. CASE UNCHANGED vars
  BY <1>2, <1>12 DEF vars, historyVars
<1> QED BY <1>3, <1>5, <1>6, <1>7, <1>8, <1>9, <1>10, <1>11, <1>12 DEF EvalerNext

-----------------------------------------------------------------------------
\* The page find_page finds covers the frame that was hit.
LEMMA FoundCovers ==
    ASSUME HeapInv, GensInOrder, HeldOnce, gens[root] # Null, NEW f \in Frames, FindPage(f) \in AllPages
    PROVE  Covers(FindPage(f), f)
<1> DEFINE met == PagesIn(gens, root, MaxGen)
           hits == {k \in DOMAIN met : Covers(met[k], f)}
<1>1. met \in Seq(Nat)
  <2>1. Closed(gens) /\ AllPages \in SUBSET Frames
    BY ClosedNow DEF AllPages
  <2> QED BY <2>1, MetArePages DEF GensInOrder, HeldOnce
<1>2. FindPage(f) = IF hits = {} THEN Null ELSE met[Min(hits)]
  BY DEF FindPage, FirstThat
<1>3. FindPage(f) # Null
  BY NullAssumption DEF AllPages, Frames
<1> HIDE DEF met
<1>4. hits # {} /\ hits \subseteq Nat
  BY <1>1, <1>2, <1>3, LenProperties
<1>5. Min(hits) \in hits
  <2> HIDE DEF hits
  <2> QED BY <1>4, MinIsOne
<1> QED BY <1>2, <1>4, <1>5

\* Two pages that cover the same frame are one.
LEMMA OneCovers ==
    ASSUME HeapInv, NEW p \in AllPages, NEW q \in AllPages, NEW f \in Nat, Covers(p, f), Covers(q, f)
    PROVE  p = q
<1>1. pages[p] \in Page /\ pages[q] \in Page /\ p \in Nat /\ q \in Nat
  BY HeapFacts DEF Frames
<1>2. pages[p].pages \in Nat \ {0} /\ pages[q].pages \in Nat \ {0}
  BY <1>1 DEF Page
<1> QED BY <1>1, <1>2 DEF Covers, HeapInv, PagesAreDisjoint

\* The page that is trapped is one the program was given; it stays where it is,
\* as the transaction's own, and the copy is not at home.
LEMMA TrappedPages ==
    ASSUME HeapInv, GensInOrder, HeldOnce, lineage \subseteq Home, NEW f \in Frames, TrappedWrite(f),
           NEW r \in lineage, f \in FramesOf(r)
    PROVE  LET p == FindPage(f)
           IN  /\ p \in Home /\ pages[p].committed /\ Covers(p, f)
               /\ p \in Home' /\ ~pages'[p].committed /\ pages'[p].pages = pages[p].pages
               /\ FreshPage \in Frames /\ FreshPage \notin AllPages /\ FreshPage \notin Home'
               /\ \A q \in Frames : q \notin {p, FreshPage} => pages'[q] = pages[q]
<1> DEFINE p == FindPage(f)
           x == [pages[p] EXCEPT !.committed = FALSE, !.val = lastGenIndex]
<1>1. /\ p \in AllPages /\ pages[p].committed /\ RoomFor(pages[p].pages)
      /\ working # committed
      /\ pages' = [pages EXCEPT ![FreshPage] = pages[p], ![p] = x]
  BY DEF TrappedWrite, Trappable, CopyOf
<1> HIDE DEF p
<1>2. gens[root] # Null /\ pages \in PagesType /\ pages[p] \in Page /\ p \in Frames
  BY <1>1, HeapFacts DEF HeapInv, TypeOK
<1>3. Covers(p, f)
  BY <1>1, <1>2, FoundCovers DEF p
<1>4. f \in Nat /\ r \in AllPages /\ pages[r].real = r
  BY DEF Frames, Home
<1>5. Covers(r, f)
  <2>1. pages[r] \in Page /\ r \in Nat
    BY <1>4, HeapFacts DEF Frames
  <2>2. pages[r].pages \in Nat
    BY <2>1 DEF Page
  <2> QED BY <1>4, <2>1, <2>2 DEF FramesOf, Covers
<1>6. p = r
  BY <1>1, <1>3, <1>4, <1>5, OneCovers
<1>7. pages[p].pages \in Nat \ {0}
  BY <1>2 DEF Page
<1>8. FreshPage \in Frames /\ FreshPage \notin AllPages
  BY <1>1, <1>2, <1>7, FreshPageIsFree
<1>9. x \in Page /\ x.real = pages[p].real /\ ~x.committed /\ x.pages = pages[p].pages
  BY <1>2 DEF Page, HeapInv, TypeOK
<1> HIDE DEF x
<1>10. p # FreshPage
  BY <1>1, <1>8
<1>11. /\ pages'[p] = x /\ pages'[FreshPage] = pages[p]
       /\ \A q \in Frames : q \notin {p, FreshPage} => pages'[q] = pages[q]
  BY <1>1, <1>2, <1>8, <1>10 DEF PagesType
<1>12. p \in Home' /\ FreshPage \notin Home'
  BY <1>2, <1>4, <1>6, <1>9, <1>10, <1>11 DEF Home, AllPages
<1> QED BY <1>1, <1>3, <1>4, <1>6, <1>8, <1>9, <1>11, <1>12 DEF Home, p

\* A store that does not fault.
LEMMA PlainPages ==
    ASSUME HeapInv, NEW f, PlainWrite(f)
    PROVE  /\ AllPages' = AllPages
           /\ \A q \in Frames : pages'[q] # Null =>
                 /\ pages'[q].real = pages[q].real /\ pages'[q].committed = pages[q].committed
                 /\ pages'[q].pages = pages[q].pages
<1>1. PICK p \in AllPages : pages' = [pages EXCEPT ![p].val = lastGenIndex]
  BY DEF PlainWrite
<1> DEFINE x == [pages[p] EXCEPT !.val = lastGenIndex]
<1>2. pages \in PagesType /\ pages[p] \in Page /\ pages' = [pages EXCEPT ![p] = x] /\ p \in Frames
  BY <1>1, HeapFacts
<1>3. x # Null /\ x.real = pages[p].real /\ x.committed = pages[p].committed
      /\ x.pages = pages[p].pages
  <2>1. x \in Page
    BY <1>2 DEF Page, HeapInv, TypeOK
  <2> QED BY <1>2, <2>1 DEF Page
<1> HIDE DEF x
<1>4. pages'[p] = x /\ \A q \in Frames : q # p => pages'[q] = pages[q]
  BY <1>2 DEF PagesType
<1> QED BY <1>2, <1>3, <1>4 DEF AllPages

\* How the driver comes to run the program, or goes on with it.
LEMMA EvalSteps ==
    ASSUME Settled, [EvalerNext]_vars, pc' = "eval"
    PROVE  \/ Begin
           \/ pc = "eval" /\ (EvalWrite \/ EvalAlloc \/ MemGraph \/ UNCHANGED vars)
<1>1. CASE \/ Start \/ InitAlloc \/ InitAborts \/ InitDone \/ InitCommit \/ InitCommitCrashes
           \/ BeginCrashes \/ EvalAborts \/ Leave \/ LeaveUncommitted
  BY <1>1 DEF Start, InitAlloc, InitAborts, InitDone, InitCommit, InitCommitCrashes,
        BeginCrashes, EvalAborts, Leave, LeaveUncommitted
<1>2. CASE CheckoutQuery \/ Undo \/ CheckoutMoves \/ CheckoutDone
  BY <1>2 DEF CheckoutQuery, Undo, BeginCheckout, CheckoutMoves, CheckoutDone, Settled
<1>3. CASE Kill \/ KillInTrap \/ KillInMalloc \/ KillInBegin \/ KillInCommit
  BY <1>3 DEF Kill, KillInTrap, KillInMalloc, KillInBegin, KillInCommit, DriverGone
<1>4. ASSUME NEW outcome, CommitQuery(outcome) PROVE FALSE
  BY <1>4, EvalerAssumption DEF CommitQuery
<1>5. CASE Begin \/ EvalWrite \/ EvalAlloc \/ MemGraph \/ UNCHANGED vars
  BY <1>5 DEF EvalWrite, EvalAlloc, MemGraph, vars
<1> QED BY <1>1, <1>2, <1>3, <1>4, <1>5 DEF EvalerNext

LEMMA OwnStep ==
    ASSUME HeapInv, GensInOrder, HeldOnce, Settled, OwnPages, lineage \subseteq Home,
           [EvalerNext]_vars
    PROVE  OwnPages'
<1> SUFFICES ASSUME pc' = "eval", working' # committed',
                    NEW q \in HeldBy(gens', {lastGenIndex'})
             PROVE  q \in Home' /\ ~pages'[q].committed
  BY DEF OwnPages
<1>0. q \in Frames
  BY DEF HeldBy
<1>1. CASE Begin
  BY <1>1, BegunHeld DEF Begin, BeginMut
<1>2. ASSUME pc = "eval", NEW f \in Frames, PlainWrite(f) PROVE q \in Home' /\ ~pages'[q].committed
  <2>1. q \in Home /\ ~pages[q].committed
    BY <1>2 DEF PlainWrite, OwnPages
  <2> QED BY <1>0, <1>2, <2>1, PlainPages DEF Home, AllPages
<1>3. ASSUME pc = "eval", NEW f \in Frames, TrappedWrite(f), NEW r \in lineage, f \in FramesOf(r)
      PROVE  q \in Home' /\ ~pages'[q].committed
  <2> DEFINE p == FindPage(f)
  <2>1. /\ lastGenIndex' = lastGenIndex /\ working # committed
    BY <1>3 DEF TrappedWrite
  <2>2. /\ p \in Home /\ pages[p].committed /\ p \in Home' /\ ~pages'[p].committed
        /\ FreshPage \notin AllPages
        /\ \A g \in Frames : g \notin {p, FreshPage} => pages'[g] = pages[g]
    BY <1>3, TrappedPages
  <2>3. q = p \/ (q = FreshPage /\ p \in HeldBy(gens, {lastGenIndex})) \/ q \in HeldBy(gens, {lastGenIndex})
    BY <1>3, <2>1, HeldTrapped
  <2> HIDE DEF p
  <2>4. p \notin HeldBy(gens, {lastGenIndex})
    BY <1>3, <2>1, <2>2 DEF OwnPages
  <2>5. CASE q # p
    <3>1. q \in Home /\ ~pages[q].committed
      BY <1>3, <2>1, <2>3, <2>4, <2>5 DEF OwnPages
    <3> QED BY <1>0, <2>2, <2>5, <3>1 DEF Home, AllPages
  <2> QED BY <2>2, <2>5
<1>4. CASE pc = "eval" /\ EvalWrite
  <2>1. PICK f \in Frames : (\E p \in lineage : f \in FramesOf(p)) /\ Write(f)
    BY <1>4 DEF EvalWrite
  <2>2. ~TrapFails(f)
    BY <1>4, EvalerAssumption DEF EvalWrite, TrapFails
  <2> QED BY <1>2, <1>3, <1>4, <2>1, <2>2 DEF Write
<1>5. CASE pc = "eval" /\ EvalAlloc
  <2>1. PICK size \in Sizes, p \in Frames : Malloc(size, p)
    BY <1>5 DEF EvalAlloc
  <2>2. size \in Nat \ {0}
    BY EvalerAssumption
  <2>3. lastGenIndex' = lastGenIndex /\ working # committed
    BY <2>1 DEF Malloc, MallocFits, MallocGrows
  <2>4. q \in HeldBy(gens, {lastGenIndex}) \/ (MallocGrows(size, p) /\ q = p)
    BY <2>1, <2>3, HeldGrown DEF Malloc, MallocFits
  <2>5. q \in HeldBy(gens, {lastGenIndex}) => q \in Home /\ ~pages[q].committed
    BY <1>5, <2>3 DEF OwnPages
  <2>6. Home \subseteq Home'
    <3>1. Layout
      BY <2>1, <2>2, MallocLayout
    <3> QED BY <3>1 DEF Layout, Lengthened, SameLayout, Home
  <2>7. /\ MallocGrows(size, p) => p \in Home' /\ ~pages'[p].committed
        /\ \A g \in AllPages : pages'[g].committed = pages[g].committed
    BY <2>1, <2>2, MadeHome
  <2> QED BY <2>4, <2>5, <2>6, <2>7 DEF Home
<1>6. CASE pc = "eval" /\ MemGraph
  <2>1. CASE Peek
    BY <2>1 DEF Peek
  <2>2. CASE PeekFirst
    BY <1>6, <2>2 DEF PeekFirst, Settled
  <2> QED BY <1>6, <2>1, <2>2 DEF MemGraph
<1>7. CASE pc = "eval" /\ UNCHANGED vars
  BY <1>7 DEF vars, heapVars, fileVars, OwnPages, Home, AllPages
<1> QED BY <1>1, <1>4, <1>5, <1>6, <1>7, EvalSteps

\* Pages that are committed, at home and in some generation can not be written.
Guarded == pc = "eval" =>
              \A q \in HeldBy(gens, 0 .. MaxGen) :
                 q \in Home /\ pages[q].committed => \A h \in FramesOf(q) : ~prot[h]

LEMMA MatchAgreesNext ==
    ASSUME Tiles(table'), TableMatchesKernel'
    PROVE  Agrees(table', prot')
<1> SUFFICES ASSUME NEW i \in 1 .. Len(table'), NEW f \in Frames, In(f, table'[i])
             PROVE  prot'[f] = table'[i].w
  BY DEF Agrees
<1>1. table'[i].start \in Nat /\ EndOf(table'[i]) \in Nat /\ f \in Nat
  BY PieceFacts, NumFramesAssumption DEF Tiles, Frames
<1>2. f \in table'[i].start .. EndOf(table'[i]) - 1 /\ i \in DOMAIN table'
  BY <1>1, LenProperties DEF In, Tiles
<1> QED BY <1>2 DEF TableMatchesKernel

LEMMA HeldArePages == ASSUME HeldOnce, NEW G PROVE HeldBy(gens, G) \subseteq AllPages
<1> SUFFICES ASSUME NEW f \in Frames, NEW j \in Made(gens), PageRef(f) \in Children(gens, j)
             PROVE  f \in AllPages
  BY DEF HeldBy
<1>1. PageRef(f) \in All(gens, AllPages)
  BY DEF HeldOnce, Form
<1> QED BY <1>1, RefsDiffer DEF All

\* The frames of a page.
LEMMA FramesFit ==
    ASSUME HeapInv, PagesFit, NEW p \in AllPages, NEW h \in FramesOf(p)
    PROVE  h \in Frames /\ Covers(p, h) /\ \A w \in BOOLEAN : In(h, MapOfPage(w, p))
<1>1. p \in Nat /\ pages[p] \in Page /\ pages[p].pages \in Nat
  BY HeapFacts DEF Frames, Page
<1>2. MapOfPage(FALSE, p) \in Requests
  BY PageMaps
<1>3. p + pages[p].pages < NumFrames
  BY <1>2 DEF Requests, MapOfPage, EndOf
<1>4. h \in Nat /\ p <= h /\ h < p + pages[p].pages
  BY <1>1 DEF FramesOf
<1> QED BY <1>1, <1>3, <1>4, NumFramesAssumption DEF Frames, Covers, In, MapOfPage, EndOf

\* What snap_begin_mut protects.
LEMMA BeginGuards ==
    ASSUME HeapInv, PagesFit, TilesWhileUp, MapsAgree', HeapInv', GensInOrder', HeldOnce', InTree',
           BeginMut, proc' = "up"
    PROVE  \A q \in HeldBy(gens', 0 .. MaxGen) :
              q \in Home' /\ pages'[q].committed => \A h \in FramesOf(q)' : ~prot'[h]
<1> SUFFICES ASSUME NEW q \in HeldBy(gens', 0 .. MaxGen), q \in Home', pages'[q].committed,
                    NEW h \in FramesOf(q)'
             PROVE  ~prot'[h]
  OBVIOUS
<1> DEFINE new == gens'
<1>1. pages' = pages /\ AllPages' = AllPages /\ FramesOf(q)' = FramesOf(q) /\ Home' = Home
  BY DEF BeginMut, AllPages, FramesOf, Home
<1>2. Tiles(table') /\ \A p \in ToSet(PagesIn(new, root, MaxGen)) :
         pages[p].committed /\ pages[p].real = p =>
            \A f \in Frames : In(f, MapOfPage(FALSE, p)) => Says(table', f, FALSE)
  BY BegunTiles
<1>3. PICK j \in Made(new) : PageRef(q) \in Children(new, j) /\ q \in Frames
  BY DEF HeldBy
<1>4. new[j].c # <<>>
  BY <1>3 DEF Children, ToSet
<1>5. Reached(new, j)
  BY <1>3, <1>4 DEF InTree, Rooted
<1>6. Closed(new) /\ new[root] # Null
  <2>1. Closed(new)
    BY ClosedNext
  <2>2. committed' = committed /\ committed # Null
    BY DEF BeginMut
  <2> QED BY <2>1, <2>2 DEF HeapInv, TypeOK
<1>7. Form(new, AllPages) /\ AllPages \in SUBSET Frames
  BY <1>1 DEF HeldOnce, AllPages
<1> HIDE DEF new
<1>8. q \in ToSet(PagesIn(new, root, MaxGen))
  BY <1>3, <1>5, <1>6, <1>7, ReachedAreMet
<1>9. q \in AllPages /\ pages[q].real = q /\ pages[q].committed /\ h \in FramesOf(q)
  BY <1>1 DEF Home
<1>10. h \in Frames /\ In(h, MapOfPage(FALSE, q))
  BY <1>9, FramesFit
<1>11. Says(table', h, FALSE)
  BY <1>2, <1>8, <1>9, <1>10
<1>12. Agrees(table', prot')
  BY <1>2, MatchAgreesNext DEF MapsAgree
<1>13. prot'[h] = FALSE
  BY <1>2, <1>10, <1>11, <1>12, SaidIsTrue
<1> QED BY <1>13

\* A trap changes the protection of no frame but those of the page trapped.
LEMMA TrapElsewhere ==
    ASSUME NEW p, MergeMaps(<<MapOfPage(TRUE, p)>>), proc' = "up",
           NEW h \in Frames, ~Covers(p, h)
    PROVE  prot'[h] = prot[h]
<1> DEFINE m == MapOfPage(TRUE, p)
           s == [table |-> table, prot |-> prot]
<1>1. Merged(<<m>>) # [s EXCEPT !.table = Aborted]
  BY DEF MergeMaps
<1>2. Merged(<<m>>) = FoldLeft(MergeInMap, s, Coalesce(<<m>>))
  BY <1>1 DEF Merged, MergeInTable
<1>3. Merged(<<m>>) = MergeInMap(s, m)
  BY <1>2, CoalesceOne, MergeOnlyOne
<1>4. prot' = MergeInMap(s, m).prot
  BY <1>3 DEF MergeMaps
<1>5. m.start = p /\ EndOf(m) = p + pages[p].pages
  BY DEF MapOfPage, EndOf
<1> HIDE DEF m
<1>6. prot' = prot \/ prot' = Mprotect(prot, m)
  BY <1>4 DEF MergeInMap
<1>7. Mprotect(prot, m)[h] = prot[h]
  BY <1>5 DEF Mprotect, Covers
<1> QED BY <1>6, <1>7

LEMMA GuardStep ==
    ASSUME HeapInv, HeapInv', GensInOrder, GensInOrder', HeldOnce, HeldOnce', InTree', PagesFit,
           TilesWhileUp, MapsAgree', Settled, Guarded, lineage \subseteq Home,
           [EvalerNext]_vars
    PROVE  Guarded'
<1> SUFFICES ASSUME pc' = "eval",
                    NEW q \in HeldBy(gens', 0 .. MaxGen),
                    q \in Home', pages'[q].committed, NEW h \in FramesOf(q)'
             PROVE  ~prot'[h]
  BY DEF Guarded
<1>0. q \in Frames
  BY DEF HeldBy
<1>1. CASE Begin
  BY <1>1, BeginGuards DEF Begin
<1>2. ASSUME pc = "eval", q \in HeldBy(gens, 0 .. MaxGen), q \in Home, pages[q].committed,
             pages'[q].pages = pages[q].pages, UNCHANGED prot
      PROVE  ~prot'[h]
  BY <1>2 DEF Guarded, FramesOf
<1>3. ASSUME pc = "eval", NEW f \in Frames, PlainWrite(f) PROVE ~prot'[h]
  <2>1. q \in HeldBy(gens, 0 .. MaxGen) /\ UNCHANGED prot
    BY <1>3 DEF PlainWrite, mapVars
  <2> QED BY <1>0, <1>2, <1>3, <2>1, PlainPages DEF Home, AllPages
<1>4. ASSUME pc = "eval", NEW f \in Frames, TrappedWrite(f), proc' = "up",
             NEW r \in lineage, f \in FramesOf(r)
      PROVE  ~prot'[h]
  <2> DEFINE p == FindPage(f)
  <2>1. MergeMaps(<<MapOfPage(TRUE, p)>>)
    BY <1>4 DEF TrappedWrite
  <2>2. /\ p \in Home /\ ~pages'[p].committed
        /\ FreshPage \notin Home'
        /\ \A g \in Frames : g \notin {p, FreshPage} => pages'[g] = pages[g]
    BY <1>4, TrappedPages
  <2>3. q = p \/ q = FreshPage \/ q \in HeldBy(gens, 0 .. MaxGen)
    BY <1>4, HeldTrapped
  <2> HIDE DEF p
  <2>4. q \notin {p, FreshPage}
    BY <2>2
  <2>5. /\ q \in HeldBy(gens, 0 .. MaxGen) /\ q \in Home /\ pages[q].committed
        /\ pages'[q].pages = pages[q].pages
    BY <1>0, <2>2, <2>3, <2>4 DEF Home, AllPages
  <2>6. h \in FramesOf(q)
    BY <2>5 DEF FramesOf
  <2>7. h \in Frames /\ Covers(q, h)
    BY <2>5, <2>6, FramesFit DEF Home
  <2>8. ~Covers(p, h)
    BY <2>2, <2>4, <2>5, <2>7, OneCovers DEF Home, Frames
  <2>9. prot'[h] = prot[h]
    BY <1>4, <2>1, <2>7, <2>8, TrapElsewhere
  <2> QED BY <1>4, <2>5, <2>6, <2>9 DEF Guarded
<1>5. CASE pc = "eval" /\ EvalWrite
  <2>1. PICK f \in Frames : (\E p \in lineage : f \in FramesOf(p)) /\ Write(f)
    BY <1>5 DEF EvalWrite
  <2>2. proc' = "up"
    BY <1>5, EvalerAssumption DEF EvalWrite
  <2>3. ~TrapFails(f)
    BY <2>2 DEF TrapFails
  <2> QED BY <1>3, <1>4, <1>5, <2>1, <2>2, <2>3 DEF Write
<1>6. CASE pc = "eval" /\ EvalAlloc
  <2>1. PICK size \in Sizes, p \in Frames : Malloc(size, p)
    BY <1>6 DEF EvalAlloc
  <2>2. size \in Nat \ {0}
    BY EvalerAssumption
  <2>3. UNCHANGED prot
    BY <2>1 DEF Malloc, MallocFits, MallocGrows, mapVars
  <2>4. q \in HeldBy(gens, 0 .. MaxGen) \/ (MallocGrows(size, p) /\ q = p)
    BY <2>1, HeldGrown DEF Malloc, MallocFits
  <2>5. MallocGrows(size, p) => ~pages'[p].committed /\ p \notin AllPages
    <3> HAVE MallocGrows(size, p)
    <3>1. p = FreshPage /\ RoomFor((size \div Units) + 1) /\ gens[root] # Null
      BY HeapFacts DEF MallocGrows, HeapInv, TypeOK
    <3>2. (size \div Units) + 1 \in Nat \ {0}
      BY <2>2, SnapAssumption
    <3>3. p \notin AllPages
      BY <3>1, <3>2, FreshPageIsFree
    <3> QED BY <2>1, <2>2, <3>3, MadeHome
  <2>6. q \in HeldBy(gens, 0 .. MaxGen)
    BY <2>4, <2>5
  <2>7. Layout
    BY <2>1, <2>2, MallocLayout
  <2>8. q \in Home \/ (q = FreshPage /\ q \notin AllPages)
    BY <2>7 DEF Layout, Lengthened, SameLayout, Home
  <2>9. q \in AllPages
    BY <2>6, HeldArePages
  <2>10. q \in Home
    BY <2>8, <2>9
  <2>11. pages[q].committed
    BY <2>1, <2>2, <2>9, MadeHome
  <2>12. pages'[q].pages = pages[q].pages
    BY <2>7, <2>9 DEF Layout, SameLayout
  <2> QED BY <1>2, <1>6, <2>3, <2>6, <2>10, <2>11, <2>12
<1>7. CASE pc = "eval" /\ MemGraph
  <2>1. CASE Peek
    <3>1. UNCHANGED <<gens, pages, prot>>
      BY <2>1 DEF Peek, mapVars
    <3> QED BY <1>2, <1>7, <3>1 DEF Home, AllPages
  <2>2. CASE PeekFirst
    BY <1>7, <2>2 DEF PeekFirst, Settled
  <2> QED BY <1>7, <2>1, <2>2 DEF MemGraph
<1>8. CASE pc = "eval" /\ UNCHANGED vars
  BY <1>2, <1>8 DEF vars, heapVars, fileVars, mapVars, Home, AllPages
<1> QED BY <1>1, <1>5, <1>6, <1>7, <1>8, EvalSteps

\* So the program can store to no committed page of a generation, through
\* whatever memory it was given.
LEMMA GuardedMeans ==
    ASSUME HeapInv, HeldOnce, PagesFit, Guarded, lineage \subseteq Home
    PROVE  CommittedAreProtected
<1> SUFFICES ASSUME pc = "eval", NEW p \in lineage, NEW f \in FramesOf(p),
                    NEW i \in AllGens, NEW ref \in ToSet(gens[i].c),
                    ref.type = "page", Covers(ref.at, f), pages[ref.at].committed
             PROVE  ~prot[f]
  BY DEF CommittedAreProtected
<1>1. gens[i] \in Generation /\ i \in Made(gens)
  BY HeapFacts DEF Made, AllGens
<1>2. ref \in Ref
  <2>1. gens[i].c \in Seq(Ref)
    BY <1>1 DEF Generation
  <2> QED BY <2>1 DEF ToSet
<1>3. ref = PageRef(ref.at) /\ ref.at \in Frames
  BY <1>2 DEF Ref, PageRef
<1>4. ref.at \in HeldBy(gens, 0 .. MaxGen)
  BY <1>1, <1>3 DEF HeldBy, Children, Generation
<1>5. ref.at \in AllPages /\ p \in AllPages /\ pages[p].real = p
  BY <1>4, HeldArePages DEF Home
<1>6. f \in Frames /\ Covers(p, f)
  BY <1>5, FramesFit
<1>7. ref.at = p
  BY <1>5, <1>6, OneCovers DEF Frames
<1> QED BY <1>4, <1>7 DEF Guarded

-----------------------------------------------------------------------------
\* Where pages are, how the table looks and how the tree hangs together.
Mapped == PagesFit /\ TilesWhileUp /\ InTree

LEMMA MappedHolds == EvalerSpec => []Mapped
<1>1. EvalerInit => Mapped
  <2> HAVE EvalerInit
  <2>1. Init /\ proc = "down" /\ AllPages = {} /\ Made(gens) = {} /\ Pointers = {}
    BY DEF EvalerInit, Init, AllPages, Made, Pointers
  <2>2. PagesFit
    BY <2>1 DEF PagesFit, Init, root, Nodes
  <2> QED BY <2>1, <2>2 DEF Mapped, TilesWhileUp, InTree, Rooted
<1>2. Ground /\ Ground' /\ Mapped /\ [Next]_heapVars => Mapped'
  BY PagesFitStep, TilesStep, InTreeStep DEF Ground, Mapped
<1>3. EvalerSpec => [][Next]_heapVars
  BY EvalerUsesHeap, PTL DEF Spec
<1>4. EvalerSpec => EvalerInit
  BY DEF EvalerSpec
<1> QED BY <1>1, <1>2, <1>3, <1>4, GroundHolds, PTL

\* Whatever a process asks merge_in_map for, in whatever order, in requests the
\* table grants and in requests it does not: it either fails an assert or leaves
\* a table without a hole or a frame twice (Tiling, the shape half of MapsAgree).
THEOREM TableTilesWhileUp == EvalerSpec => [](proc = "up" => Tiling)
<1>1. Mapped => (proc = "up" => Tiling)
  BY TilesTiling DEF Mapped, TilesWhileUp
<1> QED BY <1>1, MappedHolds, PTL

\* What is committed and built upon is at home, and the program holds no page of
\* it but those it was given.
LEMMA AtHomeHolds == EvalerSpec => []AtHome
<1>1. EvalerInit => AtHome
  <2> HAVE EvalerInit
  <2>1. AllPages = {} /\ lineage = {} /\ committed = Null /\ pc = "off"
    BY DEF EvalerInit, Init, AllPages
  <2>2. \A g \in 0 .. MaxGen : ~Committed(g)
    BY DEF EvalerInit, Committed
  <2> QED BY <2>1, <2>2 DEF AtHome, Fresh, OwnPages, Versioned
<1>2. Ground /\ Ground' /\ Settled /\ AtHome /\ [Next]_heapVars /\ [EvalerNext]_vars => AtHome'
  BY LineageStep, FreshStep, OwnStep, VersionedStep DEF Ground, AtHome
<1>3. EvalerSpec => [][Next]_heapVars
  BY EvalerUsesHeap, PTL DEF Spec
<1> QED BY <1>1, <1>2, <1>3, GroundHolds, SettledHolds, PTL DEF EvalerSpec

\* What pages_in_gen listed and snap_begin_mut protected stays protected for as
\* long as the program runs: handle_segv gives back the page it traps and only
\* that one, under a copy that is in no committed generation, and _snap_malloc
\* asks for pages nobody committed.  The hypothesis is what merge_in_map owes
\* the rest of the allocator, that the table tells the truth.
THEOREM CommittedStayProtected == EvalerSpec /\ []MapsAgree => []CommittedAreProtected
<1>1. EvalerInit => Guarded
  BY DEF EvalerInit, Guarded
<1>2. Ground /\ Ground' /\ Mapped /\ Mapped' /\ MapsAgree' /\ Settled /\ AtHome /\ Guarded
         /\ [EvalerNext]_vars => Guarded'
  BY GuardStep DEF Ground, Mapped, AtHome
<1>3. Ground /\ Mapped /\ AtHome /\ Guarded => CommittedAreProtected
  BY GuardedMeans DEF Ground, Mapped, AtHome
<1> QED BY <1>1, <1>2, <1>3, GroundHolds, SettledHolds, MappedHolds, AtHomeHolds, PTL DEF EvalerSpec

\* Durability: with a table that tells the truth, no query, allocation, checkout,
\* rollback, split of a full generation, renderer or kill changes what a checkout
\* of a committed generation finds.  Nothing is asked of the heap itself.
THEOREM VersionsSurvive == EvalerSpec /\ []MapsAgree => VersionsAreKept
<1> QED BY CommittedStayProtected, VersionsKept, PTL

-----------------------------------------------------------------------------
(***************************************************************************)
(* A table that tells the truth.  merge_in_map leaves the kernel out only  *)
(* where a request has a hole: frames that are as asked for already, with  *)
(* others between them.  The requests of a trap and of a checkout never    *)
(* have one, because the frames of a page always share one protection.     *)
(***************************************************************************)

\* What a walk has met it has called back for, once.
MetCalled(gs) ==
    {w \in WalkState :
        \E V \in SUBSET HeldIn(gs, root) : /\ Called(gs, root, w, V)
                                     /\ IsInjective(w.met)
                                     /\ \A p \in ToSet(w.met) : PageRef(p) \in V}

\* No page is met twice, however torn the tree is.
LEMMA MetOnce ==
    ASSUME NEW gs, Closed(gs), NEW P \in SUBSET Frames, Form(gs, P), gs[root] # Null, NEW max
    PROVE  IsInjective(PagesIn(gs, root, max))
<1> DEFINE U == Walking(gs)
           F == Visit(gs, max, "page")
           x == [todo |-> <<GenRef(root)>>, met |-> <<>>]
           R == MetCalled(gs)
<1>1. root \in Nodes /\ Visits \in Nat
  BY VisitsType DEF root, Nodes
<1>2. PICK w \in Walks(gs, root, max, "page") : Walk(gs, root, max, "page") = w[Visits].met
  BY <1>1, WalkIs
<1>3. w \in Iterates(U, F, x, Visits)
  BY <1>2 DEF Walks
<1>4. x \in R
  <2>1. <<GenRef(root)>> \in Seq(Ref) /\ <<>> \in Seq(Nat)
    BY <1>1 DEF GenRef, Ref
  <2>2. x \in WalkState
    BY <2>1 DEF WalkState
  <2>3. /\ IsInjective(x.todo) /\ ToSet(x.todo) = {GenRef(root)}
        /\ IsInjective(x.met) /\ ToSet(x.met) = {}
    BY DEF IsInjective, ToSet
  <2>4. GenRef(root) \in HeldIn(gs, root)
    BY DEF HeldIn
  <2>5. \A i \in Made(gs) : \A r \in Children(gs, i) : r # GenRef(root)
    BY DEF Form
  <2> HIDE DEF x
  <2>6. Called(gs, root, x, {})
    BY <2>3, <2>4, <2>5 DEF Called
  <2> QED BY <2>2, <2>3, <2>6 DEF MetCalled
<1>5. ASSUME NEW a \in R, a \in U PROVE F[a] \in R
  <2>1. PICK V \in SUBSET HeldIn(gs, root) : /\ Called(gs, root, a, V) /\ IsInjective(a.met)
                                       /\ \A p \in ToSet(a.met) : PageRef(p) \in V
    BY DEF MetCalled
  <2>2. F[a] \in WalkState
    BY <1>5, VisitStays DEF Walking
  <2>3. CASE a.todo = <<>>
    <3>1. F[a] = a
      BY <1>5, <2>3 DEF Visit, Walking
    <3> HIDE DEF F
    <3> QED BY <3>1
  <2>4. CASE a.todo # <<>>
    <3> DEFINE ref == Head(a.todo)
               u   == F[a]
               W   == V \cup {ref}
    <3>1. ref \in HeldIn(gs, root) \ V /\ Called(gs, root, u, W)
      BY <1>5, <2>1, <2>4, CalledStep
    <3>2. a.todo \in Seq(Ref) /\ a.met \in Seq(Nat) /\ ref \in Ref
      BY <1>5, <2>4, HeadTailProperties DEF Walking, WalkState
    <3>3. u.met = a.met \/ (ref.type = "page" /\ u.met = Append(a.met, ref.at))
      BY <1>5, <2>4 DEF Visit, Walking
    <3> HIDE DEF ref, u, F
    <3>4. CASE u.met = a.met
      BY <2>1, <2>2, <3>1, <3>4 DEF MetCalled, u
    <3>5. CASE ref.type = "page" /\ u.met = Append(a.met, ref.at)
      <4>1. ref = PageRef(ref.at) /\ ref.at \in Nat
        BY <3>2, <3>5 DEF Ref, PageRef, Frames
      <4>2. ref.at \notin ToSet(a.met)
        BY <2>1, <3>1, <4>1
      <4>3. IsInjective(u.met) /\ ToSet(u.met) = ToSet(a.met) \cup {ref.at}
        BY <2>1, <3>2, <3>5, <4>1, <4>2, OneMore
      <4>4. \A p \in ToSet(u.met) : PageRef(p) \in W
        BY <2>1, <4>1, <4>3
      <4>5. W \in SUBSET HeldIn(gs, root)
        BY <3>1
      <4> HIDE DEF W
      <4> QED BY <2>2, <3>1, <4>3, <4>4, <4>5 DEF MetCalled, u
    <3> QED BY <3>3, <3>4, <3>5
  <2> QED BY <2>3, <2>4
<1> HIDE DEF U, F, R, x
<1>6. \A n \in 0 .. Visits : w[n] \in R
  BY <1>1, <1>3, <1>4, <1>5, IteratesStay
<1>7. w[Visits] \in R
  BY <1>1, <1>6
<1> QED BY <1>2, <1>7 DEF R, MetCalled, PagesIn

\* The requests of a transaction's start: one for each committed page at home
\* that the walk meets, and no others.
LEMMA ReadOnlyExactly ==
    ASSUME NEW gs, NEW met, met = PagesIn(gs, root, MaxGen), met \in Seq(Nat), IsInjective(met),
           \A p \in ToSet(met) : MapOfPage(FALSE, p) \in Requests,
           \A p, q \in ToSet(met) : \A f \in Frames : Covers(p, f) /\ Covers(q, f) => p = q
    PROVE  LET maps == ReadOnlyMaps(gs)
           IN  /\ AllFor(FALSE, maps) /\ Apart(maps)
               /\ \A f \in Frames : Names(maps, f) <=>
                     \E p \in ToSet(met) : pages[p].committed /\ pages[p].real = p /\ Covers(p, f)
<1> DEFINE n == Len(met)
           Wanted(p) == pages[p].committed /\ pages[p].real = p
<1>1. /\ n \in Nat /\ DOMAIN met = 1 .. n /\ \A k \in 1 .. n : met[k] \in ToSet(met)
      /\ \A j, k \in 1 .. n : met[j] = met[k] => j = k
  BY LenProperties DEF ToSet, IsInjective
<1>2. \A p : \A f : In(f, MapOfPage(FALSE, p)) <=> Covers(p, f)
  BY DEF In, MapOfPage, EndOf, Covers
<1> HIDE DEF n
<1>3. PICK w : InAddition(w, gs, n, met)
  BY <1>1, AddsInTurn
<1>4. /\ w[0] = <<>> /\ w[n] = ReadOnlyMaps(gs)
      /\ \A k \in 1 .. n : w[k] = Add(w[k - 1], met[k])
  BY <1>3 DEF InAddition
<1> DEFINE Good(k) == /\ AllFor(FALSE, w[k]) /\ Apart(w[k])
                      /\ \A f \in Frames : Names(w[k], f) <=>
                            \E j \in 1 .. k : Wanted(met[j]) /\ Covers(met[j], f)
           Bad == {k \in 0 .. n : ~ Good(k)}
<1>5. Good(0)
  <2>1. <<>> \in Seq(Requests) /\ Len(<<>>) = 0
    BY EmptySeq
  <2>2. AllFor(FALSE, <<>>) /\ Apart(<<>>) /\ \A f : ~ Names(<<>>, f)
    BY <2>1 DEF AllFor, Apart, Names
  <2>3. \A j \in 1 .. 0 : FALSE
    OBVIOUS
  <2> HIDE DEF Wanted
  <2>4. \A f \in Frames : ~ \E j \in 1 .. 0 : Wanted(met[j]) /\ Covers(met[j], f)
    BY <2>3
  <2>5. w[0] = <<>>
    BY <1>4
  <2>6. AllFor(FALSE, w[0]) /\ Apart(w[0]) /\ \A f : ~ Names(w[0], f)
    BY <2>2, <2>5
  <2> QED BY <2>4, <2>6
<1>6. ASSUME NEW k \in 1 .. n, Good(k - 1) PROVE Good(k)
  <2> DEFINE u == w[k - 1]
             p == met[k]
             m == MapOfPage(FALSE, p)
  <2>1. w[k] = Add(u, p) /\ p \in ToSet(met) /\ m \in Requests /\ m.w = FALSE
    <3>1. p \in ToSet(met)
      BY <1>1
    <3>2. MapOfPage(FALSE, met[k]) \in Requests
      BY <3>1
    <3> QED BY <1>4, <3>1, <3>2 DEF MapOfPage
  <2>2. /\ AllFor(FALSE, u) /\ Apart(u)
        /\ \A f \in Frames : Names(u, f) <=> \E j \in 1 .. k - 1 : Wanted(met[j]) /\ Covers(met[j], f)
    BY <1>6
  <2>3. /\ \A j \in 1 .. k : j = k \/ j \in 1 .. k - 1
        /\ \A j \in 1 .. k - 1 : j \in 1 .. n /\ j # k /\ j \in 1 .. k
        /\ k \in 1 .. k
    BY <1>1
  <2>4. \A f \in Frames : In(f, m) <=> Covers(p, f)
    BY <1>2
  <2>5. \A j \in 1 .. k - 1 : \A f \in Frames : ~ (Covers(met[j], f) /\ Covers(p, f))
    <3> SUFFICES ASSUME NEW j \in 1 .. k - 1, NEW f \in Frames, Covers(met[j], f), Covers(met[k], f)
                 PROVE  FALSE
      OBVIOUS
    <3>1. met[j] = met[k]
      BY <1>1, <2>3
    <3> QED BY <1>1, <2>3, <3>1
  <2> HIDE DEF u, m
  <2>6. CASE ~Wanted(p)
    <3>1. w[k] = u
      BY <2>1, <2>6 DEF Add
    <3>2. \A f \in Frames : (\E j \in 1 .. k : Wanted(met[j]) /\ Covers(met[j], f)) <=>
                               \E j \in 1 .. k - 1 : Wanted(met[j]) /\ Covers(met[j], f)
      BY <2>3, <2>6
    <3> HIDE DEF Wanted, p
    <3> QED BY <2>2, <3>1, <3>2
  <2>7. CASE Wanted(p)
    <3>1. w[k] = Append(u, m)
      BY <2>1, <2>7 DEF Add, m
    <3>2. u \in Seq(Requests) /\ Len(u) \in Nat
      BY <2>2, LenProperties DEF AllFor
    <3>3. /\ w[k] \in Seq(Requests) /\ Len(w[k]) = Len(u) + 1 /\ w[k][Len(u) + 1] = m
          /\ \A j \in 1 .. Len(u) : w[k][j] = u[j]
      BY <2>1, <3>1, <3>2, AppendProperties
    <3>4. Longer(w[k], u, m)
      BY <3>3 DEF Longer
    <3>5. AllFor(FALSE, w[k])
      <4>1. \A j \in 1 .. Len(u) + 1 : j \in 1 .. Len(u) \/ j = Len(u) + 1
        BY <3>2
      <4> QED BY <2>1, <2>2, <3>3, <4>1 DEF AllFor
    <3> HIDE DEF p, Wanted
    <3>6. \A f \in Frames : In(f, m) => ~Names(u, f)
      BY <2>2, <2>4, <2>5
    <3>7. Apart(w[k]) /\ \A f \in Frames : Names(u, f) \/ In(f, m) <=> Names(w[k], f)
      BY <2>2, <3>2, <3>4, <3>6, LongerApart, LongerNames
    <3>8. \A f \in Frames : (\E j \in 1 .. k : Wanted(met[j]) /\ Covers(met[j], f)) <=>
             (\E j \in 1 .. k - 1 : Wanted(met[j]) /\ Covers(met[j], f)) \/ Covers(p, f)
      BY <2>3, <2>7 DEF p
    <3> QED BY <2>2, <2>4, <3>5, <3>7, <3>8
  <2> QED BY <2>6, <2>7
<1> HIDE DEF Good
<1>7. Bad = {}
  <2> SUFFICES ASSUME Bad # {} PROVE FALSE
    OBVIOUS
  <2>1. PICK k \in Bad : \A j \in Bad : k <= j
    <3>1. Bad \in SUBSET Nat
      OBVIOUS
    <3> HIDE DEF Bad
    <3> QED BY <3>1, Least
  <2>2. k # 0
    BY <1>5, <2>1
  <2>3. k \in 1 .. n /\ k - 1 \in 0 .. n /\ k - 1 < k
    BY <1>1, <2>1, <2>2
  <2>4. k - 1 \notin Bad
    BY <2>1, <2>3
  <2> QED BY <1>6, <2>1, <2>3, <2>4
<1>8. Good(n)
  BY <1>1, <1>7
<1>9. /\ AllFor(FALSE, w[n]) /\ Apart(w[n])
      /\ \A f \in Frames : Names(w[n], f) <=> \E j \in 1 .. n : Wanted(met[j]) /\ Covers(met[j], f)
  BY <1>8 DEF Good
<1>10. \A f \in Frames : (\E j \in 1 .. n : Wanted(met[j]) /\ Covers(met[j], f)) <=>
                            \E p \in ToSet(met) : Wanted(p) /\ Covers(p, f)
  <2>1. ToSet(met) = {met[j] : j \in 1 .. n}
    BY <1>1 DEF ToSet
  <2> HIDE DEF Wanted
  <2> QED BY <2>1
<1> DEFINE maps == ReadOnlyMaps(gs)
<1>11. maps = w[n]
  BY <1>4
<1> HIDE DEF maps, Wanted
<1>12. AllFor(FALSE, maps) /\ Apart(maps)
  BY <1>9, <1>11
<1>13. \A f \in Frames : Names(maps, f) <=> \E p \in ToSet(met) : Wanted(p) /\ Covers(p, f)
  BY <1>9, <1>10, <1>11
<1> QED BY <1>12, <1>13 DEF Wanted, maps
-----------------------------------------------------------------------------
\* The frames of a page share one protection, and those after the last page may
\* be written.
Even(q) == /\ \A p \in AllPages : \A f, h \in Frames : Covers(p, f) /\ Covers(p, h) => q[f] = q[h]
           /\ \A f \in Frames : f >= FreshPage => q[f]
Truthful == proc = "up" => /\ gens[root] # Null
                           /\ prot \in [Frames -> BOOLEAN] /\ Agrees(table, prot)
                           /\ Even(prot)

\* No request of a transaction's start has a hole.
BeginsWhole ==
    BeginMut => LET maps == Coalesce(ReadOnlyMaps(gens'))
                IN  \A k \in 1 .. Len(maps) : NoHole(prot, maps[k])

\* Where no page moves, grows or shrinks, and at most one is made, after the last.
LEMMA EvenStep ==
    ASSUME HeapInv, HeapInv', Layout, gens[root] # Null,
           prot' \in [Frames -> BOOLEAN], Agrees(table', prot'),
           Even(prot')
    PROVE  Truthful'
<1>0. /\ \A p \in AllPages : \A f, h \in Frames : Covers(p, f) /\ Covers(p, h) => prot'[f] = prot'[h]
      /\ \A f \in Frames : f >= FreshPage => prot'[f]
  BY DEF Even
<1>1. lastPage \in AllPages /\ AllPages \subseteq Frames
  BY DEF HeapInv, TypeOK, AllPages
<1>2. AllPages \subseteq AllPages' /\ gens'[root] # Null
  <2>1. AllPages \subseteq AllPages'
    BY DEF Layout, Lengthened
  <2> QED BY <1>1, <2>1 DEF HeapInv, TypeOK
<1>3. \A p \in AllPages : pages'[p].pages = pages[p].pages
  BY DEF Layout, SameLayout
<1>4. pages[lastPage].pages \in Nat \ {0} /\ lastPage \in Nat
  BY <1>1, HeapFacts DEF Page, Frames
<1>5. FreshPage \in Nat
  BY <1>4 DEF FreshPage
<1>6. \A p \in AllPages : \A f \in Frames : Covers(p, f)' <=> Covers(p, f)
  BY <1>3 DEF Covers
<1>7. CASE Lengthened
  <2>0. PICK n : n = FreshPage
    OBVIOUS
  <2>1. n \in Nat /\ n \in AllPages' /\ AllPages' = AllPages \cup {n} /\ lastPage' = n
    BY <1>5, <1>7, <2>0 DEF Lengthened
  <2>2. pages'[n].pages \in Nat
    <3>1. n \in Frames /\ pages'[n] # Null
      BY <2>1 DEF AllPages
    <3>2. pages' \in [Frames -> Page \cup {Null}]
      BY DEF HeapInv, TypeOK
    <3>3. pages'[n] \in Page
      BY <3>1, <3>2
    <3> QED BY <3>3 DEF Page
  <2>3. FreshPage' = n + pages'[n].pages
    BY <2>1 DEF FreshPage
  <2>4. \A f \in Frames : f >= n => prot'[f]
    BY <1>0, <2>0
  <2>5. \A f \in Frames : Covers(n, f)' => f >= n
    BY <2>1, NumFramesAssumption DEF Covers, Frames
  <2>6. ASSUME NEW p \in AllPages', NEW f \in Frames, NEW h \in Frames,
               Covers(p, f)', Covers(p, h)'
        PROVE  prot'[f] = prot'[h]
    <3>1. CASE p = n
      <4>1. prot'[f] /\ prot'[h]
        BY <2>4, <2>5, <2>6, <3>1
      <4>2. prot'[f] \in BOOLEAN /\ prot'[h] \in BOOLEAN
        OBVIOUS
      <4> QED BY <4>1, <4>2
    <3>2. CASE p \in AllPages
      BY <1>0, <1>6, <2>6, <3>2
    <3> QED BY <2>1, <3>1, <3>2
  <2>7. ASSUME NEW f \in Frames, f >= FreshPage' PROVE prot'[f]
    <3>1. f >= n
      BY <2>1, <2>2, <2>3, <2>7, NumFramesAssumption DEF Frames
    <3> QED BY <2>4, <3>1
  <2> QED BY <1>2, <2>6, <2>7 DEF Truthful, Even
<1>8. CASE AllPages' = AllPages /\ lastPage' = lastPage
  <2>1. FreshPage' = FreshPage
    BY <1>1, <1>3, <1>8 DEF FreshPage
  <2> QED BY <1>0, <1>2, <1>6, <1>8, <2>1 DEF Truthful, Even
<1> QED BY <1>7, <1>8 DEF Layout

\* The requests name the frames of these pages.
WholePages(maps, S) == \A f \in Frames : Names(maps, f) <=> \E p \in S : Covers(p, f)

\* Whatever the kernel is told of whole pages.
LEMMA AskedEven ==
    ASSUME HeapInv, gens[root] # Null, Even(prot), prot \in [Frames -> BOOLEAN],
           NEW S \in SUBSET AllPages, NEW maps, NEW b \in BOOLEAN,
           WholePages(maps, S),
           NEW q, q = Asked(prot, b, maps)
    PROVE  Even(q)
<1>1. \A f \in Frames : q[f] = IF Names(maps, f) THEN b ELSE prot[f]
  BY DEF Asked
<1>2. Frames \subseteq Nat /\ AllPages \subseteq Frames
  BY NumFramesAssumption DEF Frames, AllPages
<1>3. ASSUME NEW p \in AllPages, NEW f \in Frames, NEW h \in Frames, Covers(p, f), Covers(p, h)
      PROVE  q[f] = q[h]
  <2>1. \A x \in Frames : Covers(p, x) => (Names(maps, x) <=> p \in S)
    BY <1>2, OneCovers DEF WholePages
  <2>2. prot[f] = prot[h]
    BY <1>3 DEF Even
  <2> QED BY <1>1, <1>3, <2>1, <2>2
<1>4. ASSUME NEW f \in Frames, f >= FreshPage PROVE q[f]
  <2>1. ASSUME NEW p \in S, Covers(p, f) PROVE FALSE
    <3>1. p + pages[p].pages <= FreshPage
      BY DEF HeapInv, PagesAreDisjoint, FreshPage
    <3>2. p \in Nat /\ pages[p].pages \in Nat /\ f \in Nat
      BY <1>2, HeapFacts DEF Page
    <3>3. FreshPage \in Nat
      <4>1. lastPage \in AllPages
        BY DEF HeapInv, TypeOK
      <4>2. lastPage \in Nat /\ pages[lastPage].pages \in Nat
        BY <1>2, <4>1, HeapFacts DEF Page
      <4> QED BY <4>2 DEF FreshPage
    <3> HIDE DEF FreshPage
    <3> QED BY <1>4, <2>1, <3>1, <3>2, <3>3 DEF Covers
  <2>2. ~Names(maps, f)
    BY <2>1 DEF WholePages
  <2>3. prot[f]
    BY <1>4 DEF Even
  <2> QED BY <1>1, <2>2, <2>3
<1> QED BY <1>3, <1>4 DEF Even

\* A merge that fails no assert told the kernel what was asked for.
LEMMA MergeMapsTold ==
    ASSUME NEW maps, MergeMaps(maps), proc' = "up", NEW b,
           LET d == MergeInTable([table |-> table, prot |-> prot], maps)
           IN  d.table = Aborted \/ Told(d, Asked(prot, b, maps))
    PROVE  /\ prot' = Asked(prot, b, maps)
           /\ prot' \in [Frames -> BOOLEAN] /\ Agrees(table', prot')
<1> DEFINE d == MergeInTable([table |-> table, prot |-> prot], maps)
           q == Asked(prot, b, maps)
<1>1. d.table = Aborted \/ Told(d, q)
  OBVIOUS
<1>2. table' = d.table /\ prot' = d.prot /\ d.table # Aborted
  BY DEF MergeMaps, Merged
<1> HIDE DEF d, q
<1>3. d = [table |-> d.table, prot |-> q] /\ q \in [Frames -> BOOLEAN] /\ Agrees(d.table, q)
  BY <1>1, <1>2 DEF Told
<1>4. d.prot = q
  BY <1>3
<1> QED BY <1>2, <1>3, <1>4 DEF q

\* A merge of whole pages keeps the table truthful.
LEMMA AskedStep ==
    ASSUME HeapInv, HeapInv', Layout, Truthful, proc = "up", proc' = "up",
           NEW S \in SUBSET AllPages, NEW maps, NEW b \in BOOLEAN, MergeMaps(maps),
           WholePages(maps, S),
           LET d == MergeInTable([table |-> table, prot |-> prot], maps)
           IN  d.table = Aborted \/ Told(d, Asked(prot, b, maps))
    PROVE  Truthful' /\ prot' = Asked(prot, b, maps)
<1>1. /\ prot' = Asked(prot, b, maps)
      /\ prot' \in [Frames -> BOOLEAN] /\ Agrees(table', prot')
  BY MergeMapsTold
<1>2. gens[root] # Null /\ Even(prot) /\ prot \in [Frames -> BOOLEAN]
  BY DEF Truthful
<1>3. Even(prot')
  BY <1>1, <1>2, AskedEven
<1> QED BY <1>1, <1>2, <1>3, EvenStep

\* What the request for a page names.
LEMMA PageIsUniform ==
    ASSUME Even(prot), NEW p \in AllPages, NEW w
    PROVE  /\ Uniform(prot, MapOfPage(w, p)) /\ MapOfPage(w, p).w = w
           /\ \A f : In(f, MapOfPage(w, p)) <=> Covers(p, f)
<1>1. \A f : In(f, MapOfPage(w, p)) <=> Covers(p, f)
  BY DEF In, MapOfPage, EndOf, Covers
<1>2. MapOfPage(w, p).w = w
  BY DEF MapOfPage
<1> QED BY <1>1, <1>2 DEF Uniform, Even

\* A checkout moves a page that is not at home.
LEMMA NextIsDisplaced ==
    ASSUME HeapInv, GensInOrder, HeldOnce, NextToMove \in AllPages
    PROVE  NextToMove # pages[NextToMove].real
<1> DEFINE g      == gens[target].gen
           met    == PagesIn(gens, root, g)
           list   == PagesUpToGen(g)
           toMove == {k \in DOMAIN list : Displaced(list[k])}
<1>1. NextToMove = IF toMove = {} THEN Null ELSE list[Min(toMove)]
  BY DEF NextToMove, FirstThat
<1>2. NextToMove # Null
  BY NullAssumption DEF AllPages, Frames
<1>0. DOMAIN list \subseteq Nat
  <2>1. gens[root] # Null /\ Closed(gens) /\ AllPages \in SUBSET Frames
    BY ClosedNow DEF AllPages, HeapInv, TypeOK
  <2> HIDE DEF g
  <2>2. met \in Seq(Nat)
    BY <2>1, MetArePages DEF GensInOrder, HeldOnce
  <2>3. list = ListOf(met, pages)
    BY <2>2 DEF PagesUpToGen, SameReal, ListOf, Firsts, Others
  <2> HIDE DEF met, list
  <2>4. DOMAIN list \subseteq DOMAIN met
    BY <2>3 DEF ListOf, Firsts
  <2> QED BY <2>2, <2>4, LenProperties
<1> HIDE DEF list
<1>3. toMove # {} /\ NextToMove = list[Min(toMove)]
  BY <1>1, <1>2
<1>4. toMove \in SUBSET Nat
  BY <1>0
<1>5. Min(toMove) \in toMove
  <2> HIDE DEF toMove
  <2> QED BY <1>3, <1>4, MinIsOne
<1> QED BY <1>3, <1>5 DEF Displaced

\* handle_segv: one page.
LEMMA TrapTold ==
    ASSUME HeapInv, HeapInv', PagesFit, TilesWhileUp, Truthful, proc' = "up",
           NEW f \in Frames, TrappedWrite(f)
    PROVE  /\ Truthful'
           /\ prot' = [h \in Frames |-> IF Covers(FindPage(f), h) THEN TRUE ELSE prot[h]]
<1> DEFINE p == FindPage(f)
           m == MapOfPage(TRUE, p)
           maps == <<m>>
<1>1. p \in AllPages /\ MergeMaps(maps) /\ proc = "up"
  BY DEF TrappedWrite, Trappable
<1>2. Layout
  BY TrapLayout
<1>3. /\ Tiles(table) /\ prot \in [Frames -> BOOLEAN] /\ Agrees(table, prot) /\ Even(prot)
  BY <1>1 DEF TilesWhileUp, Truthful
<1> HIDE DEF p
<1>4. m \in Requests
  BY <1>1, PageMaps
<1>5. Uniform(prot, m) /\ m.w = TRUE /\ \A h : In(h, m) <=> Covers(p, h)
  BY <1>1, <1>3, PageIsUniform
<1> HIDE DEF m
<1>6. maps \in Seq(Requests) /\ Len(maps) = 1 /\ maps[1] = m
  BY <1>4
<1> DEFINE d == MergeInTable([table |-> table, prot |-> prot], <<m>>)
<1>7. d.table = Aborted \/ Told(d, Asked(prot, m.w, <<m>>))
  BY <1>3, <1>4, <1>5, OnePageTold
<1>8. d.table = Aborted \/ Told(d, Asked(prot, TRUE, maps))
  BY <1>5, <1>7
<1> HIDE DEF maps
<1>9. \A h \in Frames : Names(maps, h) <=> Covers(p, h)
  BY <1>5, <1>6 DEF Names
<1>10. WholePages(maps, {p})
  BY <1>9 DEF WholePages
<1>11. Truthful' /\ prot' = Asked(prot, TRUE, maps)
  <2>1. {p} \in SUBSET AllPages
    BY <1>1
  <2>2. LET e == MergeInTable([table |-> table, prot |-> prot], maps)
        IN  e.table = Aborted \/ Told(e, Asked(prot, TRUE, maps))
    BY <1>8 DEF maps
  <2> QED BY <1>1, <1>2, <1>10, <2>1, <2>2, AskedStep
<1> QED BY <1>9, <1>11 DEF Asked, p

\* A checkout: two pages, at two places.
LEMMA SwapTold ==
    ASSUME HeapInv, GensInOrder, HeldOnce, HeapInv', PagesFit, TilesWhileUp, Truthful,
           proc' = "up", CheckoutSwap
    PROVE  Truthful' /\ \A h \in Frames : prot[h] => prot'[h]
<1> DEFINE p == NextToMove
           home == pages[p].real
           x == MapOfPage(TRUE, p)
           y == MapOfPage(TRUE, home)
           maps == <<x, y>>
<1>1. p \in AllPages /\ MergeMaps(maps) /\ proc = "up"
  BY DEF CheckoutSwap
<1>2. Layout
  BY SwapLayout
<1>3. /\ Tiles(table) /\ prot \in [Frames -> BOOLEAN] /\ Agrees(table, prot) /\ Even(prot)
  BY <1>1 DEF TilesWhileUp, Truthful
<1>4. p # home
  BY <1>1, NextIsDisplaced
<1> HIDE DEF p
<1>5. home \in AllPages
  BY <1>1 DEF HeapInv, PagesHaveHomes
<1> HIDE DEF home
<1>6. x \in Requests /\ y \in Requests
  BY <1>1, <1>5, PageMaps
<1>7. /\ Uniform(prot, x) /\ x.w = TRUE /\ \A h : In(h, x) <=> Covers(p, h)
      /\ Uniform(prot, y) /\ y.w = TRUE /\ \A h : In(h, y) <=> Covers(home, h)
  BY <1>1, <1>3, <1>5, PageIsUniform
<1>8. \A h \in Frames : ~ (In(h, x) /\ In(h, y))
  <2>1. Frames \subseteq Nat
    BY NumFramesAssumption DEF Frames
  <2> QED BY <1>1, <1>4, <1>5, <1>7, <2>1, OneCovers
<1> HIDE DEF x, y
<1>9. Len(maps) = 2 /\ maps[1] = x /\ maps[2] = y
  OBVIOUS
<1> DEFINE d == MergeInTable([table |-> table, prot |-> prot], <<x, y>>)
<1>10. d.table = Aborted \/ Told(d, Asked(prot, TRUE, <<x, y>>))
  BY <1>3, <1>6, <1>7, <1>8, TwoPagesTold
<1>11. LET e == MergeInTable([table |-> table, prot |-> prot], maps)
       IN  e.table = Aborted \/ Told(e, Asked(prot, TRUE, maps))
  BY <1>10
<1> HIDE DEF maps, d
<1>12. WholePages(maps, {p, home})
  <2>1. 1 .. 2 = {1, 2}
    OBVIOUS
  <2> QED BY <1>7, <1>9, <2>1 DEF Names, WholePages
<1>13. Truthful' /\ prot' = Asked(prot, TRUE, maps)
  <2>1. {p, home} \in SUBSET AllPages
    BY <1>1, <1>5
  <2> QED BY <1>1, <1>2, <1>11, <1>12, <2>1, AskedStep
<1> QED BY <1>13 DEF Asked

\* The start of a transaction: every page listed, one request each.
LEMMA BeginTold ==
    ASSUME HeapInv, PagesFit, TilesWhileUp, Truthful, HeapInv', GensInOrder', HeldOnce',
           BeginMut, BeginsWhole, proc' = "up"
    PROVE  Truthful'
<1> DEFINE new  == gens'
           maps == ReadOnlyMaps(new)
           met  == PagesIn(new, root, MaxGen)
           S    == {p \in ToSet(met) : pages[p].committed /\ pages[p].real = p}
<1>1. MergeMaps(maps) /\ proc = "up" /\ AllPages' = AllPages /\ Layout
  BY SamePages DEF BeginMut, AllPages
<1>2. Closed(new) /\ new[root] # Null
  <2>1. Closed(new)
    BY ClosedNext
  <2>2. committed' = committed /\ committed # Null
    BY DEF BeginMut
  <2> QED BY <2>1, <2>2 DEF HeapInv, TypeOK
<1>3. InOrder(new, lastGen', lastGenIndex') /\ Form(new, AllPages) /\ AllPages \in SUBSET Frames
  BY <1>1 DEF GensInOrder, HeldOnce, AllPages
<1>4. met \in Seq(Nat) /\ ToSet(met) \subseteq AllPages
  BY <1>2, <1>3, MetArePages
<1>5. IsInjective(met)
  BY <1>2, <1>3, MetOnce
<1>6. \A k \in 1 .. Len(Coalesce(maps)) : NoHole(prot, Coalesce(maps)[k])
  BY DEF BeginsWhole
<1> HIDE DEF new
<1>7. \A p \in ToSet(met) : MapOfPage(FALSE, p) \in Requests
  BY <1>4, PageMaps
<1>8. \A p, q \in ToSet(met) : \A f \in Frames : Covers(p, f) /\ Covers(q, f) => p = q
  <2>1. Frames \subseteq Nat
    BY NumFramesAssumption DEF Frames
  <2> QED BY <1>4, <2>1, OneCovers
<1>9. /\ AllFor(FALSE, maps) /\ Apart(maps)
      /\ \A f \in Frames : Names(maps, f) <=>
            \E p \in ToSet(met) : pages[p].committed /\ pages[p].real = p /\ Covers(p, f)
  BY <1>4, <1>5, <1>7, <1>8, ReadOnlyExactly
<1> HIDE DEF maps, met
<1>10. WholePages(maps, S)
  BY <1>9 DEF WholePages
<1>11. Tiles(table) /\ prot \in [Frames -> BOOLEAN] /\ Agrees(table, prot)
  BY <1>1 DEF TilesWhileUp, Truthful
<1>12. LET d == MergeInTable([table |-> table, prot |-> prot], maps)
       IN  d.table = Aborted \/ Told(d, Asked(prot, FALSE, maps))
  BY <1>6, <1>9, <1>11, TableTells
<1>13. S \in SUBSET AllPages
  BY <1>4
<1> HIDE DEF S
<1> QED BY <1>1, <1>10, <1>12, <1>13, AskedStep

\* One writable map, as the kernel has it.
LEMMA RemapTruthful == ASSUME HeapInv', gens'[root] # Null, Remap PROVE Truthful'
<1>1. table' = OneWritableMap /\ prot' = [f \in Frames |-> TRUE]
  BY DEF Remap
<1>2. Len(OneWritableMap) = 1 /\ OneWritableMap[1].w = TRUE
  BY DEF OneWritableMap
<1>3. \A f \in Frames : prot'[f] = TRUE
  BY <1>1
<1>4. Agrees(table', prot')
  <2> SUFFICES ASSUME NEW i \in 1 .. Len(table'), NEW f \in Frames PROVE prot'[f] = table'[i].w
    BY DEF Agrees
  <2>1. i = 1
    BY <1>1, <1>2
  <2> QED BY <1>1, <1>2, <1>3, <2>1
<1>5. prot' \in [Frames -> BOOLEAN]
  BY <1>1
<1>6. Even(prot)'
  BY <1>3 DEF Even
<1> QED BY <1>4, <1>5, <1>6 DEF Truthful

LEMMA TruthStep ==
    ASSUME HeapInv, GensInOrder, HeldOnce, PagesFit, TilesWhileUp, Truthful,
           HeapInv', GensInOrder', HeldOnce', [Next]_heapVars, BeginsWhole
    PROVE  Truthful'
<1>1. CASE SnapInit
  <2>1. gens'[root] # Null
    <3>1. CASE CreateDb
      <4>1. gens'[root] = [gen |-> 0, committed |-> TRUE, c |-> <<PageRef(initialPage)>>]
        BY <3>1, HeapFacts DEF CreateDb, NewDb, GensType
      <4>2. working' = root /\ working' \in AllGens' \cup {Null}
        BY <3>1 DEF CreateDb, NewDb, HeapInv, TypeOK
      <4>3. root # Null
        BY NullAssumption DEF root
      <4> QED BY <4>2, <4>3 DEF AllGens
    <3>2. CASE OpenDb
      BY <3>2 DEF OpenDb
    <3> QED BY <1>1, <3>1, <3>2 DEF SnapInit
  <2> QED BY <1>1, <2>1, RemapTruthful DEF SnapInit, CreateDb, OpenDb
<1>2. CASE proc' # "up"
  BY <1>2 DEF Truthful
<1>3. CASE proc = "up" /\ UNCHANGED mapVars
  <2>1. gens[root] # Null /\ Even(prot) /\ prot \in [Frames -> BOOLEAN] /\ Agrees(table, prot)
    BY <1>3 DEF Truthful
  <2>2. Layout
    BY <2>1, LayoutStep DEF NewDb
  <2>3. prot' = prot /\ table' = table
    BY <1>3 DEF mapVars
  <2> QED BY <2>1, <2>2, <2>3, EvenStep
<1>4. CASE proc' = "up" /\ BeginMut
  BY <1>4, BeginTold
<1>5. ASSUME proc' = "up", NEW f \in Frames, Write(f) \/ TrapDies(f) PROVE Truthful'
  BY <1>2, <1>3, <1>5, TrapTold DEF Write, PlainWrite, TrapFails, TrapDies, Gone
<1>6. CASE proc' = "up" /\ CheckoutSwap
  BY <1>6, SwapTold
<1>7. ASSUME NEW size, NEW p, Malloc(size, p) \/ MallocDies(size) PROVE Truthful'
  BY <1>2, <1>3, <1>7 DEF Malloc, MallocFits, MallocGrows, MallocDies, Gone
<1>8. ASSUME NEW g, CheckoutSame(g) \/ CheckoutStart(g) PROVE Truthful'
  BY <1>3, <1>8 DEF CheckoutSame, CheckoutStart, heapVars
<1>9. CASE \/ Commit \/ Exit \/ MallocAborts \/ NullDeref \/ CheckoutFails \/ CheckoutEnd
           \/ BeginDies \/ CommitDies \/ Peek
  BY <1>2, <1>3, <1>9 DEF Commit, Exit, MallocAborts, NullDeref, CheckoutFails, CheckoutEnd,
                           BeginDies, CommitDies, Gone, Peek
<1>10. CASE PeekFirst
  BY <1>2, <1>10 DEF PeekFirst
<1>11. CASE UNCHANGED heapVars
  BY <1>2, <1>3, <1>11 DEF heapVars
<1> QED BY <1>1, <1>2, <1>4, <1>5, <1>6, <1>7, <1>8, <1>9, <1>10, <1>11 DEF Next

LEMMA TruthfulAgrees == TilesWhileUp /\ Truthful => MapsAgree
BY TableFacts DEF TilesWhileUp, Truthful, MapInv, MapsAgree

\* The table of protections tells the truth, for any number of frames,
\* generations and queries, for as long as no transaction starts with a hole:
\* the requests of handle_segv and of snap_checkout never have one.
THEOREM TableTellsTheTruth == EvalerSpec /\ [][BeginsWhole]_heapVars => []MapsAgree
<1>1. EvalerInit => Truthful
  BY DEF EvalerInit, Init, Truthful
<1>2. Ground /\ Ground' /\ Mapped /\ Truthful /\ [Next]_heapVars /\ [BeginsWhole]_heapVars
         => Truthful'
  <2> SUFFICES ASSUME Ground, Ground', Mapped, Truthful, [Next]_heapVars, [BeginsWhole]_heapVars
               PROVE  Truthful'
    OBVIOUS
  <2>1. CASE BeginsWhole
    BY <2>1, TruthStep DEF Ground, Mapped
  <2>2. CASE UNCHANGED heapVars
    <3>1. ~BeginMut
      <4>1. lastGenIndex \in Nat
        BY SnapAssumption DEF Ground, HeapInv, TypeOK
      <4> QED BY <2>2, <4>1 DEF heapVars, fileVars, BeginMut
    <3> QED BY <3>1, TruthStep DEF Ground, Mapped, BeginsWhole
  <2> QED BY <2>1, <2>2
<1>3. EvalerSpec => [][Next]_heapVars
  BY EvalerUsesHeap, PTL DEF Spec
<1>4. Mapped /\ Truthful => MapsAgree
  BY TruthfulAgrees DEF Mapped
<1> QED BY <1>1, <1>2, <1>3, <1>4, GroundHolds, MappedHolds, PTL DEF EvalerSpec

-----------------------------------------------------------------------------
\* A process that evaluates one query starts its one transaction with a memory
\* nobody has protected yet.
AllWritable == \A f \in Frames : prot[f]
Clean == /\ after \in {"begin", "exit"}
         /\ pc \in {"init", "commit-init", "ready", "begin"} \/ (pc = "moving" /\ after = "begin")
               => AllWritable
OneQuery == ~Server => Truthful /\ Clean

LEMMA CleanBegins ==
    ASSUME HeapInv, PagesFit, HeapInv', GensInOrder', HeldOnce', Truthful, AllWritable, BeginMut
    PROVE  BeginsWhole
<1> DEFINE new  == gens'
           maps == ReadOnlyMaps(new)
           c    == Coalesce(maps)
<1>1. AllPages' = AllPages
  BY DEF BeginMut, AllPages
<1>2. Closed(new) /\ new[root] # Null
  <2>1. Closed(new)
    BY ClosedNext
  <2>2. committed' = committed /\ committed # Null
    BY DEF BeginMut
  <2> QED BY <2>1, <2>2 DEF HeapInv, TypeOK
<1>3. InOrder(new, lastGen', lastGenIndex') /\ Form(new, AllPages) /\ AllPages \in SUBSET Frames
  BY <1>1 DEF GensInOrder, HeldOnce, AllPages
<1>4. /\ PagesIn(new, root, MaxGen) \in Seq(Nat)
      /\ ToSet(PagesIn(new, root, MaxGen)) \subseteq AllPages
  BY <1>2, <1>3, MetArePages
<1>5. \A p \in ToSet(PagesIn(new, root, MaxGen)) : MapOfPage(FALSE, p) \in Requests
  BY <1>4, PageMaps
<1>6. AllFor(FALSE, maps)
  BY <1>4, <1>5, ReadOnlyNames
<1> HIDE DEF maps
<1>7. AllFor(FALSE, c)
  BY <1>6, CoalesceCovers
<1> HIDE DEF c
<1>8. \A k \in 1 .. Len(c) : NoHole(prot, c[k])
  BY <1>7 DEF AllFor, NoHole, AllWritable
<1> QED BY <1>8 DEF BeginsWhole, c, maps

LEMMA CleanStep ==
    ASSUME Ground, Ground', Mapped, Settled, Truthful, Clean, ~Server, [EvalerNext]_vars
    PROVE  Clean'
<1>1. CASE Start
  <2>1. Remap /\ after' = after
    BY <1>1 DEF Start, SnapInit, CreateDb, OpenDb
  <2>2. AllWritable'
    BY <2>1 DEF Remap, AllWritable
  <2> QED BY <2>1, <2>2 DEF Clean
<1>2. CASE pc' = "off" /\ after' \in {"begin", after}
  BY <1>2 DEF Clean
<1>3. CASE \/ InitAborts \/ InitCommitCrashes \/ BeginCrashes \/ EvalAborts \/ Leave
           \/ LeaveUncommitted \/ Kill \/ KillInTrap \/ KillInMalloc \/ KillInBegin \/ KillInCommit
  BY <1>2, <1>3 DEF InitAborts, InitCommitCrashes, BeginCrashes, EvalAborts, Leave,
       LeaveUncommitted, Kill, KillInTrap, KillInMalloc, KillInBegin, KillInCommit, DriverGone
<1>4. CASE InitAlloc \/ InitDone \/ InitCommit
  <2>1. /\ pc \in {"init", "commit-init"} /\ after' = after /\ UNCHANGED prot
    BY <1>4 DEF InitAlloc, InitDone, InitCommit, Malloc, MallocFits, MallocGrows, Commit,
                heapVars, mapVars
  <2> QED BY <2>1 DEF Clean, AllWritable
<1>5. CASE CheckoutQuery
  <2>1. /\ pc = "ready" /\ UNCHANGED prot
        /\ (pc' = "begin" /\ after' = after) \/ (pc' = "moving" /\ after' = "begin")
    BY <1>5 DEF CheckoutQuery, BeginCheckout, CheckoutSame, CheckoutStart, heapVars, mapVars
  <2> QED BY <2>1 DEF Clean, AllWritable
<1>6. CASE CheckoutMoves
  <2>1. CASE proc' # "up"
    BY <1>2, <1>6, <2>1 DEF CheckoutMoves
  <2>2. CASE proc' = "up"
    <3>1. CheckoutSwap /\ pc' = pc /\ after' = after /\ pc = "moving"
      BY <1>6, <2>2 DEF CheckoutMoves, CheckoutFails
    <3>2. \A h \in Frames : prot[h] => prot'[h]
      BY <2>2, <3>1, SwapTold DEF Ground, Mapped
    <3> QED BY <3>1, <3>2 DEF Clean, AllWritable
  <2> QED BY <2>1, <2>2
<1>7. CASE CheckoutDone
  <2>1. pc = "moving" /\ pc' = after /\ after' = "begin" /\ UNCHANGED prot
    BY <1>7 DEF CheckoutDone, CheckoutEnd, mapVars
  <2> QED BY <2>1 DEF Clean, AllWritable
<1>8. CASE pc' \in {"eval", "off", "undo", "exit"} /\ after' = after
  BY <1>8 DEF Clean
<1>9. CASE Begin \/ EvalWrite \/ EvalAlloc
  BY <1>8, <1>9 DEF Begin, EvalWrite, EvalAlloc
<1>10. ASSUME NEW outcome, CommitQuery(outcome) PROVE Clean'
  <2>1. pc' \in {"undo", "exit"} /\ after' = after
    BY <1>10 DEF CommitQuery
  <2> QED BY <1>8, <2>1
<1>11. CASE Undo
  <2>1. (pc' = "exit" /\ after' = after) \/ (pc' = "moving" /\ after' = "exit")
    BY <1>11 DEF Undo, BeginCheckout
  <2> QED BY <2>1 DEF Clean
<1>12. CASE MemGraph
  <2>1. UNCHANGED <<pc, after, prot>>
    BY <1>12 DEF MemGraph, Peek, PeekFirst, mapVars
  <2> QED BY <2>1 DEF Clean, AllWritable
<1>13. CASE UNCHANGED vars
  BY <1>13 DEF vars, heapVars, mapVars, Clean, AllWritable
<1> QED BY <1>1, <1>3, <1>4, <1>5, <1>6, <1>7, <1>9, <1>10, <1>11, <1>12, <1>13 DEF EvalerNext

\* Only begin_mut starts a transaction.
LEMMA OnlyBegin ==
    ASSUME HeapInv, Settled, [EvalerNext]_vars, BeginMut
    PROVE  Begin
<1>1. /\ lastGenIndex' # lastGenIndex /\ proc = "up" /\ proc' \in {"up", "aborted"}
  <2>1. lastGenIndex \in Nat /\ lastGenIndex' = lastGenIndex + 1
    BY SnapAssumption DEF HeapInv, TypeOK, BeginMut
  <2> QED BY <2>1 DEF BeginMut, MergeMaps
<1>2. \A size, p : ~Malloc(size, p)
  BY <1>1 DEF Malloc, MallocFits, MallocGrows
<1>3. ~SnapInit /\ ~Commit /\ ~NullDeref /\ ~MallocAborts /\ ~Exit
  BY <1>1 DEF SnapInit, CreateDb, OpenDb, Commit, NullDeref, MallocAborts, Exit, Gone, fileVars
<1>4. \A g, next : ~BeginCheckout(g, next)
  BY <1>1 DEF BeginCheckout, CheckoutSame, CheckoutStart, heapVars, fileVars
<1>5. ~Gone
  BY <1>1 DEF Gone
<1>6. ~CheckoutSwap /\ ~CheckoutFails /\ ~CheckoutEnd /\ ~Peek /\ ~PeekFirst
  BY <1>1 DEF CheckoutSwap, CheckoutFails, CheckoutEnd, Peek, PeekFirst, fileVars
<1>7. \A f : ~Write(f)
  BY <1>1 DEF Write, PlainWrite, TrappedWrite, TrapFails, fileVars
<1>8. ~UNCHANGED heapVars
  BY <1>1 DEF heapVars, fileVars
<1>9. CASE \/ Start \/ InitAlloc \/ InitAborts \/ InitDone \/ InitCommit \/ InitCommitCrashes
           \/ BeginCrashes \/ EvalAlloc \/ EvalAborts \/ Leave \/ LeaveUncommitted
  BY <1>2, <1>3, <1>8, <1>9 DEF Start, InitAlloc, InitAborts, InitDone, InitCommit,
       InitCommitCrashes, BeginCrashes, EvalAlloc, EvalAborts, Leave, LeaveUncommitted
<1>10. CASE CheckoutQuery \/ CheckoutMoves \/ CheckoutDone \/ Undo \/ EvalWrite \/ MemGraph
  BY <1>4, <1>6, <1>7, <1>10 DEF CheckoutQuery, CheckoutMoves, CheckoutDone, Undo, EvalWrite, MemGraph
<1>11. CASE Kill \/ KillInTrap \/ KillInMalloc \/ KillInBegin \/ KillInCommit
  BY <1>5, <1>11 DEF Kill, Exit, KillInTrap, TrapDies, KillInMalloc, MallocDies, KillInBegin,
       BeginDies, KillInCommit, CommitDies
<1>12. ASSUME NEW outcome PROVE ~CommitQuery(outcome)
  BY <1>3 DEF CommitQuery
<1>13. ~UNCHANGED vars
  BY <1>8 DEF vars
<1> QED BY <1>9, <1>10, <1>11, <1>12, <1>13 DEF EvalerNext

LEMMA OneQueryHolds == EvalerSpec => []OneQuery
<1>1. EvalerInit => OneQuery
  BY DEF EvalerInit, Init, OneQuery, Truthful, Clean
<1>2. Ground /\ Ground' /\ Mapped /\ Settled /\ OneQuery /\ [Next]_heapVars /\ [EvalerNext]_vars
         => OneQuery'
  <2> SUFFICES ASSUME Ground, Ground', Mapped, Settled, OneQuery, [Next]_heapVars, [EvalerNext]_vars,
                      ~Server
               PROVE  Truthful' /\ Clean'
    BY DEF OneQuery
  <2>1. Truthful /\ Clean
    BY DEF OneQuery
  <2>2. BeginsWhole
    <3> SUFFICES ASSUME BeginMut PROVE BeginsWhole
      BY DEF BeginsWhole
    <3>1. Begin
      BY OnlyBegin DEF Ground
    <3>2. AllWritable
      BY <2>1, <3>1 DEF Begin, Clean
    <3> QED BY <2>1, <3>2, CleanBegins DEF Ground, Mapped
  <2>3. Truthful'
    BY <2>1, <2>2, TruthStep DEF Ground, Mapped
  <2> QED BY <2>1, <2>3, CleanStep
<1>3. EvalerSpec => [][Next]_heapVars
  BY EvalerUsesHeap, PTL DEF Spec
<1> QED BY <1>1, <1>2, <1>3, GroundHolds, MappedHolds, SettledHolds, PTL DEF EvalerSpec

\* With -e the table tells the truth, whatever the process allocates, stores,
\* checks out and is killed in: its one transaction starts with the one writable
\* map of snap_init, or with what snap_checkout has made writable again.
THEOREM TableTrueForOneQuery == EvalerSpec /\ ~Server => []MapsAgree
<1>1. Mapped /\ OneQuery /\ ~Server => MapsAgree
  BY TruthfulAgrees DEF Mapped, OneQuery
<1>2. ~Server => ~Server'
  OBVIOUS
<1> QED BY <1>1, <1>2, MappedHolds, OneQueryHolds, PTL

\* So with -e, with nothing assumed of the table, the program stores to no
\* committed page without a fault ...
THEOREM ProtectedForOneQuery == EvalerSpec /\ ~Server => []CommittedAreProtected
<1> QED BY TableTrueForOneQuery, CommittedStayProtected, PTL

\* ... and no committed version is ever lost.
THEOREM VersionsKeptForOneQuery == EvalerSpec /\ ~Server => VersionsAreKept
<1> QED BY TableTrueForOneQuery, VersionsSurvive, PTL
-----------------------------------------------------------------------------
\* Truthful on its own, as TableTellsTheTruth and OneQueryHolds have it.
LEMMA TruthfulHolds == EvalerSpec /\ [][BeginsWhole]_heapVars => []Truthful
<1>1. EvalerInit => Truthful
  BY DEF EvalerInit, Init, Truthful
<1>2. Ground /\ Ground' /\ Mapped /\ Truthful /\ [Next]_heapVars /\ [BeginsWhole]_heapVars
         => Truthful'
  <2> SUFFICES ASSUME Ground, Ground', Mapped, Truthful, [Next]_heapVars, [BeginsWhole]_heapVars
               PROVE  Truthful'
    OBVIOUS
  <2>1. CASE BeginsWhole
    BY <2>1, TruthStep DEF Ground, Mapped
  <2>2. CASE UNCHANGED heapVars
    <3>1. ~BeginMut
      <4>1. lastGenIndex \in Nat
        BY SnapAssumption DEF Ground, HeapInv, TypeOK
      <4> QED BY <2>2, <4>1 DEF heapVars, fileVars, BeginMut
    <3> QED BY <3>1, TruthStep DEF Ground, Mapped, BeginsWhole
  <2> QED BY <2>1, <2>2
<1>3. EvalerSpec => [][Next]_heapVars
  BY EvalerUsesHeap, PTL DEF Spec
<1> QED BY <1>1, <1>2, <1>3, GroundHolds, MappedHolds, PTL DEF EvalerSpec

\* What the transaction holds may be written without a fault.
OwnWritable == pc = "eval" /\ working # committed =>
                  \A q \in HeldBy(gens, {lastGenIndex}) : \A h \in FramesOf(q) : prot[h]

LEMMA OwnWritableStep ==
    ASSUME HeapInv, HeapInv', GensInOrder, HeldOnce, PagesFit, TilesWhileUp, Truthful,
           Settled, OwnPages, OwnWritable, lineage \subseteq Home, [EvalerNext]_vars
    PROVE  OwnWritable'
<1> SUFFICES ASSUME pc' = "eval", working' # committed',
                    NEW q \in HeldBy(gens', {lastGenIndex'}), NEW h \in FramesOf(q)'
             PROVE  prot'[h]
  BY DEF OwnWritable
<1>0. q \in Frames
  BY DEF HeldBy
<1>1. CASE Begin
  BY <1>1, BegunHeld DEF Begin, BeginMut
<1>2. ASSUME pc = "eval", working # committed, q \in HeldBy(gens, {lastGenIndex}),
             pages'[q].pages = pages[q].pages, UNCHANGED prot
      PROVE  prot'[h]
  BY <1>2 DEF OwnWritable, FramesOf
<1>3. ASSUME pc = "eval", NEW f \in Frames, PlainWrite(f) PROVE prot'[h]
  <2>1. /\ q \in HeldBy(gens, {lastGenIndex}) /\ UNCHANGED prot /\ working # committed
    BY <1>3 DEF PlainWrite, mapVars
  <2>2. q \in AllPages
    BY <2>1, HeldArePages
  <2>3. pages'[q].pages = pages[q].pages
    BY <1>0, <1>3, <2>2, PlainPages DEF AllPages
  <2> QED BY <1>2, <1>3, <2>1, <2>3
<1>4. ASSUME pc = "eval", NEW f \in Frames, TrappedWrite(f), proc' = "up",
             NEW r \in lineage, f \in FramesOf(r)
      PROVE  prot'[h]
  <2> DEFINE p == FindPage(f)
  <2>1. lastGenIndex' = lastGenIndex /\ working # committed
    BY <1>4 DEF TrappedWrite
  <2>2. /\ p \in Home /\ pages[p].committed /\ pages'[p].pages = pages[p].pages
        /\ FreshPage \notin AllPages
        /\ \A g \in Frames : g \notin {p, FreshPage} => pages'[g] = pages[g]
    BY <1>4, TrappedPages
  <2>3. q = p \/ (q = FreshPage /\ p \in HeldBy(gens, {lastGenIndex})) \/ q \in HeldBy(gens, {lastGenIndex})
    BY <1>4, <2>1, HeldTrapped
  <2>4. \A g \in Frames : prot'[g] = IF Covers(p, g) THEN TRUE ELSE prot[g]
    BY <1>4, TrapTold
  <2> HIDE DEF p
  <2>5. p \notin HeldBy(gens, {lastGenIndex})
    BY <1>4, <2>1, <2>2 DEF OwnPages
  <2>6. CASE q = p
    <3>1. q \in AllPages /\ h \in FramesOf(q)
      BY <2>2, <2>6 DEF FramesOf, Home
    <3>2. h \in Frames /\ Covers(q, h)
      BY <3>1, FramesFit
    <3> QED BY <2>4, <2>6, <3>2
  <2>7. CASE q # p
    <3>1. q \in HeldBy(gens, {lastGenIndex})
      BY <2>3, <2>5, <2>7
    <3>2. q \in AllPages
      BY <3>1, HeldArePages
    <3>3. h \in FramesOf(q)
      BY <1>0, <2>2, <2>7, <3>2 DEF FramesOf
    <3>4. h \in Frames /\ prot[h]
      BY <1>4, <2>1, <3>1, <3>2, <3>3, FramesFit DEF OwnWritable
    <3> QED BY <2>4, <3>4
  <2> QED BY <2>6, <2>7
<1>5. CASE pc = "eval" /\ EvalWrite
  <2>1. PICK f \in Frames : (\E p \in lineage : f \in FramesOf(p)) /\ Write(f)
    BY <1>5 DEF EvalWrite
  <2>2. proc' = "up"
    BY <1>5, EvalerAssumption DEF EvalWrite
  <2>3. ~TrapFails(f)
    BY <2>2 DEF TrapFails
  <2> QED BY <1>3, <1>4, <1>5, <2>1, <2>2, <2>3 DEF Write
<1>6. CASE pc = "eval" /\ EvalAlloc
  <2>1. PICK size \in Sizes, p \in Frames : Malloc(size, p)
    BY <1>6 DEF EvalAlloc
  <2>2. size \in Nat \ {0}
    BY EvalerAssumption
  <2>3. UNCHANGED prot /\ lastGenIndex' = lastGenIndex /\ working # committed
    BY <2>1 DEF Malloc, MallocFits, MallocGrows, mapVars
  <2>4. q \in HeldBy(gens, {lastGenIndex}) \/ (MallocGrows(size, p) /\ q = p)
    BY <2>1, <2>3, HeldGrown DEF Malloc, MallocFits
  <2>5. CASE q \in HeldBy(gens, {lastGenIndex})
    <3>1. q \in AllPages
      BY <2>5, HeldArePages
    <3>2. pages'[q].pages = pages[q].pages
      BY <2>1, <2>2, <3>1, MallocLayout DEF Layout, SameLayout
    <3> QED BY <1>2, <1>6, <2>3, <2>5, <3>2
  <2>6. CASE MallocGrows(size, p) /\ q = p
    <3> DEFINE n == (size \div Units) + 1
    <3>1. /\ q = FreshPage /\ RoomFor(n) /\ gens[root] # Null
          /\ pages' = [pages EXCEPT ![p] = [real |-> p, committed |-> FALSE, pages |-> n,
                                            used |-> size, val |-> 0]]
      BY <2>6, HeapFacts DEF MallocGrows, HeapInv, TypeOK
    <3>2. n \in Nat \ {0}
      BY <2>2, SnapAssumption
    <3>3. pages'[q].pages = n
      BY <1>0, <2>6, <3>1, HeapFacts DEF PagesType, HeapInv, TypeOK
    <3> HIDE DEF n
    <3>4. h \in q .. q + n - 1
      BY <3>3 DEF FramesOf
    <3>5. q + n < NumFrames /\ q \in Nat
      BY <1>0, <3>1, NumFramesAssumption DEF RoomFor, Frames
    <3>6. h \in Frames /\ h >= FreshPage
      BY <3>1, <3>2, <3>4, <3>5, NumFramesAssumption DEF Frames
    <3>7. Even(prot)
      BY <1>6, <2>1 DEF Truthful, Malloc, MallocFits, MallocGrows
    <3> QED BY <2>3, <3>6, <3>7 DEF Even
  <2> QED BY <2>4, <2>5, <2>6
<1>7. CASE pc = "eval" /\ MemGraph
  <2>1. CASE Peek
    BY <2>1 DEF Peek
  <2>2. CASE PeekFirst
    BY <1>7, <2>2 DEF PeekFirst, Settled
  <2> QED BY <1>7, <2>1, <2>2 DEF MemGraph
<1>8. CASE pc = "eval" /\ UNCHANGED vars
  <2>1. UNCHANGED <<gens, pages, prot, lastGenIndex, working, committed>>
    BY <1>8 DEF vars, heapVars, fileVars, mapVars
  <2> QED BY <1>2, <1>8, <2>1
<1> QED BY <1>1, <1>5, <1>6, <1>7, <1>8, EvalSteps

\* What a walk from the working generation lists the transaction holds.
LEMMA OwnedMeans ==
    ASSUME HeapInv, GensInOrder, HeldOnce, Settled, OwnWritable, working # committed
    PROVE  OwnPagesAreWritable
<1> SUFFICES ASSUME pc = "eval", NEW p \in ToSet(PagesIn(gens, working, MaxGen)), NEW f \in FramesOf(p)
             PROVE  prot[f]
  BY DEF OwnPagesAreWritable
<1>1. gens[working].gen = lastGenIndex
  BY DEF Settled
<1>2. working \in AllGens /\ Closed(gens) /\ working \in Made(gens) /\ Made(gens) = AllGens
  <2>1. working \in AllGens \cup {Null} /\ (committed # Null => working # Null)
    BY DEF HeapInv, TypeOK
  <2> QED BY <2>1, HeapFacts, ClosedNow DEF HeapInv, TypeOK, Made, AllGens
<1>3. PageRef(p) \in Kin(gens, working, MaxGen)
  BY <1>2, WalkKin DEF GensInOrder, PagesIn, PageRef
<1>4. PICK j \in Made(gens) : PageRef(p) \in Children(gens, j) /\ gens[working].gen <= gens[j].gen
  BY <1>3, RefsDiffer DEF Kin
<1>5. gens[j].gen <= lastGenIndex /\ gens[j].gen \in Nat /\ lastGenIndex \in Nat
  BY <1>4, HeapFacts DEF GensInOrder, InOrder, Made, HeapInv, TypeOK, GensType, Generation
<1>6. gens[j].gen = lastGenIndex
  BY <1>1, <1>4, <1>5
<1>7. PageRef(p) \in All(gens, AllPages)
  BY <1>4 DEF HeldOnce, Form
<1>8. p \in Frames
  BY <1>7, RefsDiffer DEF All, AllPages
<1>9. p \in HeldBy(gens, {lastGenIndex})
  BY <1>4, <1>6, <1>8 DEF HeldBy
<1> QED BY <1>9 DEF OwnWritable

\* A transaction is under way while the program runs, unless somebody rolls it back.
Running == pc = "eval" => working # committed

LEMMA RunningStep ==
    ASSUME HeapInv, GensInOrder, HeldOnce, Settled, Running, [EvalerNext]_vars, ~MemGraph
    PROVE  Running'
<1> SUFFICES ASSUME pc' = "eval" PROVE working' # committed'
  BY DEF Running
<1>1. CASE Begin
  <2>1. BeginMut /\ committed' = committed /\ lastGenIndex' = lastGenIndex + 1
    BY <1>1 DEF Begin, BeginMut
  <2>2. committed \in AllGens
    BY <2>1 DEF BeginMut, HeapInv, TypeOK
  <2>3. gens'[working'].gen = lastGenIndex + 1
    BY <2>1, BegunId
  <2>4. gens'[committed].gen = gens[committed].gen
    BY <2>1, <2>2, BegunIds DEF SameIds, AllGens
  <2>5. gens[committed].gen <= lastGenIndex /\ lastGenIndex \in Nat
    BY <2>2 DEF GensInOrder, InOrder, AllGens, HeapInv, TypeOK
  <2>6. gens[committed].gen \in Nat
    BY <2>2, HeapFacts DEF GensType, Generation, AllGens
  <2> QED BY <2>1, <2>3, <2>4, <2>5, <2>6
<1>2. CASE pc = "eval" /\ EvalWrite
  <2>1. UNCHANGED <<working, committed>>
    BY <1>2 DEF EvalWrite, Write, PlainWrite, TrappedWrite, TrapFails, fileVars
  <2> QED BY <1>2, <2>1 DEF Running
<1>3. CASE pc = "eval" /\ EvalAlloc
  <2>1. UNCHANGED <<working, committed>>
    BY <1>3 DEF EvalAlloc, Malloc, MallocFits, MallocGrows
  <2> QED BY <1>3, <2>1 DEF Running
<1>4. CASE pc = "eval" /\ UNCHANGED vars
  BY <1>4 DEF vars, heapVars, fileVars, Running
<1> QED BY <1>1, <1>2, <1>3, <1>4, EvalSteps

LEMMA OwnedHolds ==
    EvalerSpec /\ []Truthful /\ [][~MemGraph]_vars => []OwnPagesAreWritable
<1>1. EvalerInit => OwnWritable /\ Running
  BY DEF EvalerInit, OwnWritable, Running
<1>2. Ground /\ Ground' /\ Mapped /\ Truthful /\ Settled /\ AtHome /\ OwnWritable /\ [EvalerNext]_vars
         => OwnWritable'
  BY OwnWritableStep DEF Ground, Mapped, AtHome
<1>3. Ground /\ Settled /\ Running /\ [EvalerNext]_vars /\ [~MemGraph]_vars => Running'
  <2> SUFFICES ASSUME Ground, Settled, Running, [EvalerNext]_vars, [~MemGraph]_vars
               PROVE  Running'
    OBVIOUS
  <2>1. CASE ~MemGraph
    BY <2>1, RunningStep DEF Ground
  <2>2. CASE UNCHANGED vars
    BY <2>2 DEF vars, heapVars, fileVars, Running
  <2> QED BY <2>1, <2>2
<1>4. Ground /\ Settled /\ OwnWritable /\ Running => OwnPagesAreWritable
  <2> SUFFICES ASSUME Ground, Settled, OwnWritable, Running PROVE OwnPagesAreWritable
    OBVIOUS
  <2>1. CASE working # committed
    BY <2>1, OwnedMeans DEF Ground
  <2>2. CASE pc # "eval"
    BY <2>2 DEF OwnPagesAreWritable
  <2> QED BY <2>1, <2>2 DEF Running
<1> QED BY <1>1, <1>2, <1>3, <1>4, GroundHolds, MappedHolds, SettledHolds, AtHomeHolds, PTL
        DEF EvalerSpec

\* Writing to its own pages never faults: what a transaction owns may be written,
\* however its pages came to it, by a trap or new, unless another process has
\* rolled it back under its feet.
THEOREM OwnedIsWritable ==
    EvalerSpec /\ [][BeginsWhole]_heapVars /\ [][~MemGraph]_vars => []OwnPagesAreWritable
<1> QED BY TruthfulHolds, OwnedHolds, PTL

\* ... with -e whatever the file looks like.
THEOREM OwnedIsWritableForOneQuery ==
    EvalerSpec /\ ~Server /\ [][~MemGraph]_vars => []OwnPagesAreWritable
<1>1. OneQuery /\ ~Server => Truthful
  BY DEF OneQuery
<1>2. ~Server => ~Server'
  OBVIOUS
<1> QED BY <1>1, <1>2, OneQueryHolds, OwnedHolds, PTL
-----------------------------------------------------------------------------
(***************************************************************************)
(* Programs that are not interrupted                                       *)
(*                                                                         *)
(* The README of the code says more than that committed pages are          *)
(* protected: whatever may be written without a fault belongs to the       *)
(* generation under way.  That is so as long as nothing is left behind     *)
(* that was never committed.                                               *)
(***************************************************************************)

\* Every page is met from the root of a whole tree.
LEMMA AllAreMet ==
    ASSUME HeapInv, GensInOrder, HeldOnce, NothingLost, InTree, gens[root] # Null,
           NEW f \in AllPages
    PROVE  f \in ToSet(PagesIn(gens, root, MaxGen))
<1>1. PICK i \in Made(gens) : PageRef(f) \in Children(gens, i)
  BY DEF NothingLost, Whole
<1>2. gens[i].c # <<>>
  BY <1>1 DEF Children, ToSet
<1>3. Reached(gens, i)
  BY <1>2 DEF InTree, Rooted
<1>4. Closed(gens) /\ f \in Frames /\ AllPages \in SUBSET Frames
  BY ClosedNow DEF AllPages
<1> QED BY <1>1, <1>3, <1>4, ReachedAreMet DEF HeldOnce

LEMMA StillBelow ==
    ASSUME NEW gs, NEW new, NEW s, NEW j, Below(gs, s, j),
           \A i \in Made(gs) : i \in Made(new) /\ \A k \in Nodes :
              GenRef(k) \in Children(gs, i) => GenRef(k) \in Children(new, i)
    PROVE  Below(new, s, j)
BY DEF Below

\* A split keeps what is below s, and adds the new node to it.
LEMMA SplitBelow ==
    ASSUME NEW gs \in GensType, NEW s, NEW i \in Made(gs), Below(gs, s, i),
           NEW n \in Nodes, gs[n] = Null
    PROVE  LET new == NewGenBetween(gs, i, n)
           IN  Below(new, s, n) /\ \A j : Below(gs, s, j) => Below(new, s, j)
<1> DEFINE new == NewGenBetween(gs, i, n)
           Down(t, S) == \A j \in Made(t) : j \in S =>
                            \A k \in Nodes : GenRef(k) \in Children(t, j) => k \in S
<1>1. i \in Nodes /\ gs[i] # Null /\ gs[i] \in Generation /\ i # n
  BY DEF Made, GensType
<1>2. /\ new[n] = gs[i] /\ new[i].c = <<GenRef(n)>>
      /\ \A j \in Nodes : j # n /\ j # i => new[j] = gs[j]
  BY SplitIs
<1>3. new[i] # Null
  <2>1. <<GenRef(n)>> \in Seq(Ref)
    BY DEF Ref, GenRef
  <2>2. [gs[i] EXCEPT !.c = <<GenRef(n)>>] \in Generation
    BY <1>1, <2>1 DEF Generation
  <2>3. [gs[i] EXCEPT !.c = <<GenRef(n)>>] # Null
    BY <2>2
  <2>4. new = [gs EXCEPT ![n] = gs[i], ![i] = [gs[i] EXCEPT !.c = <<GenRef(n)>>]]
    BY <1>1 DEF NewGenBetween, GensType
  <2> HIDE DEF new
  <2> QED BY <1>1, <2>3, <2>4 DEF GensType
<1> HIDE DEF new
<1>4. GenRef(n) \in Children(new, i)
  BY <1>2 DEF Children, ToSet
<1>5. \A j \in Made(gs) : j \in Made(new) /\ n \in Made(new)
  BY <1>1, <1>2, <1>3 DEF Made
<1>6. ASSUME NEW S \in SUBSET Nodes, Down(new, S) PROVE Down(gs, S) /\ (i \in S => n \in S)
  <2>1. i \in S => n \in S
    BY <1>1, <1>4, <1>5, <1>6
  <2>2. \A k \in Nodes : /\ GenRef(k) \in Children(gs, i) => GenRef(k) \in Children(new, n)
                         /\ \A j \in Made(gs) : j # i =>
                              (GenRef(k) \in Children(gs, j) => GenRef(k) \in Children(new, j))
    BY <1>1, <1>2 DEF Children, Made
  <2> QED BY <1>5, <1>6, <2>1, <2>2
<1>7. \A t, j : Below(t, s, j) <=> \A S \in SUBSET Nodes : s \in S /\ Down(t, S) => j \in S
  BY DEF Below
<1> HIDE DEF Down
<1> QED BY <1>6, <1>7 DEF new

-----------------------------------------------------------------------------
\* The generations of an id are below s, none of them above it.
BelowOnly(gs, s, id) ==
    \A j \in Made(gs) : gs[j].gen = id => Below(gs, s, j) /\ GenRef(s) \notin Children(gs, j)

\* The tree of these generations.
Only(gs, id) == [i \in Nodes |-> IF gs[i] # Null /\ gs[i].gen = id THEN gs[i] ELSE Null]

\* Where an id is the newest there is, a walk from s meets all their pages.
LEMMA OwnAreMet ==
    ASSUME HeapInv, GensInOrder, HeldOnce, NEW s \in AllGens, gens[s].gen = lastGenIndex,
           BelowOnly(gens, s, lastGenIndex), NEW f \in HeldBy(gens, {lastGenIndex})
    PROVE  f \in ToSet(PagesIn(gens, s, MaxGen))
<1> DEFINE id  == lastGenIndex
           own == Only(gens, id)
           P   == AllPages
<1>1. /\ gens \in GensType /\ Closed(gens) /\ lastGenIndex \in Nat /\ s \in Nodes /\ gens[s] # Null
      /\ Made(gens) = AllGens
  BY HeapFacts, ClosedNow DEF AllGens, Made, HeapInv, TypeOK
<1>2. own \in GensType
  BY <1>1 DEF Only, GensType
<1>3. \A i \in Nodes : own[i] = IF gens[i] # Null /\ gens[i].gen = id THEN gens[i] ELSE Null
  BY DEF Only
<1> HIDE DEF own
<1>4. \A i \in Made(own) : i \in Made(gens) /\ own[i] = gens[i] /\ gens[i].gen = id /\ i \in Nodes
  BY <1>3 DEF Made
<1>5. \A i \in Made(gens) : gens[i].gen = id => i \in Made(own)
  BY <1>3 DEF Made
<1>6. ASSUME NEW i \in Made(own), NEW r \in Children(gens, i), r.type = "generation"
      PROVE  r.at \in Made(own)
  <2>1. PICK k \in DOMAIN gens[i].c : r = gens[i].c[k]
    BY <1>6 DEF Children, ToSet
  <2>2. r.at \in Nodes /\ gens[r.at] # Null /\ gens[i].gen <= gens[r.at].gen
        /\ gens[r.at].gen <= lastGenIndex
    BY <1>4, <1>6, <2>1 DEF GensInOrder, InOrder, Made
  <2>3. gens[r.at].gen \in Nat /\ gens[i].gen = id
    BY <1>1, <1>4, <2>2 DEF GensType, Generation
  <2> QED BY <1>1, <1>5, <2>2, <2>3 DEF Made
<1>7. Closed(own)
  <2>1. ASSUME NEW i \in Nodes, own[i] # Null, NEW k \in DOMAIN own[i].c,
               own[i].c[k].type = "generation"
        PROVE  own[own[i].c[k].at] # Null
    <3>1. i \in Made(own) /\ own[i] = gens[i]
      BY <1>4, <2>1 DEF Made
    <3>2. own[i].c[k] \in Children(gens, i)
      BY <3>1 DEF Children, ToSet
    <3> QED BY <1>6, <2>1, <3>1, <3>2 DEF Made
  <2> QED BY <1>2, <2>1 DEF Closed
<1>8. Form(own, P)
  <2>1. \A i \in Made(own) : Children(own, i) = Children(gens, i)
    BY <1>4 DEF Children
  <2>2. ASSUME NEW i \in Made(own), NEW r \in Children(gens, i)
        PROVE  r \in All(own, P) \ {GenRef(root)}
    <3>1. r \in All(gens, P) \ {GenRef(root)}
      BY <1>4, <2>2 DEF HeldOnce, Form
    <3>2. CASE r \in {PageRef(x) : x \in P}
      BY <3>1, <3>2 DEF All
    <3>3. CASE r \notin {PageRef(x) : x \in P}
      <4>1. PICK k \in Made(gens) : r = GenRef(k)
        BY <3>1, <3>3 DEF All
      <4>2. k \in Made(own)
        BY <1>6, <2>2, <4>1, RefsDiffer
      <4> QED BY <3>1, <4>1, <4>2 DEF All
    <3> QED BY <3>2, <3>3
  <2>3. \A i \in Made(own) : own[i].c = gens[i].c
    BY <1>4
  <2> QED BY <1>4, <2>1, <2>2, <2>3 DEF HeldOnce, Form
<1>9. s \in Made(own) /\ \A j \in Made(own) : GenRef(s) \notin Children(own, j)
  BY <1>1, <1>4, <1>5 DEF BelowOnly, Children
<1>10. PICK i \in Made(gens) : gens[i].gen = id /\ PageRef(f) \in Children(gens, i)
  BY DEF HeldBy
<1>11. Below(own, s, i)
  <2> SUFFICES ASSUME NEW S \in SUBSET Nodes, s \in S,
                      \A j \in Made(own) : j \in S =>
                         \A k \in Nodes : GenRef(k) \in Children(own, j) => k \in S
               PROVE  i \in S
    BY DEF Below
  <2> DEFINE T == S \cap Made(own)
  <2>1. T \in SUBSET Nodes /\ s \in T
    BY <1>9
  <2>2. ASSUME NEW j \in Made(gens), j \in T, NEW k \in Nodes, GenRef(k) \in Children(gens, j)
        PROVE  k \in T
    <3>1. k \in Made(own)
      BY <1>6, <2>2, RefsDiffer
    <3>2. GenRef(k) \in Children(own, j)
      BY <1>4, <2>2 DEF Children
    <3> QED BY <2>2, <3>1, <3>2
  <2>3. Below(gens, s, i)
    BY <1>1, <1>10 DEF BelowOnly
  <2> QED BY <2>1, <2>2, <2>3 DEF Below
<1>12. f \in Frames /\ i \in Made(own) /\ PageRef(f) \in Children(own, i) /\ P \in SUBSET Frames
  BY <1>4, <1>5, <1>10 DEF HeldBy, Children, AllPages
<1>13. f \in ToSet(PagesIn(own, s, MaxGen))
  <2> HIDE DEF P
  <2> QED BY <1>7, <1>8, <1>9, <1>11, <1>12, BelowAreMet
<1>14. Agree(own, gens, MaxGen)
  BY <1>4 DEF Agree, Made
<1>15. Walk(gens, s, MaxGen, "page") = Walk(own, s, MaxGen, "page")
  <2>1. own[s] # Null
    BY <1>9 DEF Made
  <2> QED BY <1>1, <1>7, <1>14, <2>1, AgreeWalk
<1> QED BY <1>13, <1>15 DEF PagesIn

-----------------------------------------------------------------------------
\* Two trees that hang generations alike.
SameHung(gs, new) ==
    /\ Made(new) = Made(gs)
    /\ \A i \in Made(gs) :
          /\ new[i].gen = gs[i].gen
          /\ \A k \in Nodes : GenRef(k) \in Children(new, i) <=> GenRef(k) \in Children(gs, i)

LEMMA HungBelow ==
    ASSUME NEW gs, NEW new, SameHung(gs, new), NEW s \in Nodes, NEW id, BelowOnly(gs, s, id)
    PROVE  BelowOnly(new, s, id)
<1>1. \A j : Below(gs, s, j) => Below(new, s, j)
  BY StillBelow DEF SameHung
<1> QED BY <1>1 DEF BelowOnly, SameHung

\* A page that gets a slot.
LEMMA AttachHung ==
    ASSUME NEW slot, slot.gens \in GensType, Found(slot), NEW f \in Frames
    PROVE  LET new == Attach(slot, PageRef(f))
           IN  /\ SameHung(slot.gens, new)
               /\ \A G : /\ HeldBy(slot.gens, G) \subseteq HeldBy(new, G)
                         /\ slot.gens[slot.target].gen \in G => f \in HeldBy(new, G)
<1> DEFINE gs  == slot.gens
           t   == slot.target
           ref == PageRef(f)
           c2  == Append(gs[t].c, ref)
           new == Attach(slot, ref)
           d   == [gs[t] EXCEPT !.c = c2]
<1>1. t \in Nodes /\ gs[t] \in Generation /\ gs[t].c \in Seq(Ref) /\ t \in Made(gs) /\ ref \in Ref
  BY DEF Found, GensType, Made, Generation, PageRef, Ref
<1>2. new = [gs EXCEPT ![t] = d]
  BY DEF Attach
<1> HIDE DEF ref
<1>3. ToSet(c2) = ToSet(gs[t].c) \cup {ref} /\ c2 \in Seq(Ref)
  BY <1>1, OneMore
<1> HIDE DEF c2
<1>4. d # Null /\ d.c = c2 /\ d.gen = gs[t].gen
  <2>1. d \in Generation
    BY <1>1, <1>3 DEF Generation
  <2> QED BY <1>1, <2>1 DEF Generation
<1> HIDE DEF gs, t, new, d
<1>5. \A i \in Nodes : new[i] = IF i = t THEN d ELSE gs[i]
  BY <1>1, <1>2 DEF GensType, gs
<1>6. Made(new) = Made(gs)
  BY <1>1, <1>4, <1>5 DEF Made
<1>7. \A i \in Made(gs) : /\ new[i].gen = gs[i].gen
                          /\ Children(gs, i) \subseteq Children(new, i)
                          /\ Children(new, i) \subseteq Children(gs, i) \cup {ref}
  BY <1>1, <1>3, <1>4, <1>5 DEF Made, Children
<1>8. \A k : GenRef(k) # ref
  BY RefsDiffer DEF ref
<1>9. SameHung(gs, new)
  BY <1>6, <1>7, <1>8 DEF SameHung
<1>10. ref \in Children(new, t) /\ new[t].gen = gs[t].gen
  BY <1>1, <1>3, <1>4, <1>5 DEF Children
<1>11. \A G : /\ HeldBy(gs, G) \subseteq HeldBy(new, G)
              /\ gs[t].gen \in G => f \in HeldBy(new, G)
  BY <1>1, <1>6, <1>7, <1>10 DEF HeldBy, ref
<1> QED BY <1>9, <1>11 DEF gs, new, t, ref

LEMMA RelinkHung ==
    ASSUME NEW gs \in GensType, NEW moved \in [Frames -> Frames]
    PROVE  LET new == Relink(gs, moved)
           IN  /\ SameHung(gs, new)
               /\ \A G : \A q \in HeldBy(gs, G) : moved[q] \in HeldBy(new, G)
<1> DEFINE new == Relink(gs, moved)
<1>1. \A i \in Nodes : new[i] = Null <=> gs[i] = Null
  BY RelinkType
<1>2. Made(new) = Made(gs)
  BY <1>1 DEF Made
<1>3. ASSUME NEW i \in Made(gs)
      PROVE  /\ new[i].gen = gs[i].gen
             /\ \A r : r \in Children(new, i) <=>
                         \E x \in Children(gs, i) : x \in Ref /\ r = RefMap(moved)[x]
  <2>1. i \in Nodes /\ gs[i] # Null /\ gs[i].c \in Seq(Ref)
    BY DEF Made, GensType, Generation
  <2>2. new[i].c = Over(gs[i].c, RefMap(moved)) /\ new[i].gen = gs[i].gen
    BY <2>1, RelinkIs
  <2> HIDE DEF new
  <2>3. \A k \in DOMAIN gs[i].c : gs[i].c[k] \in Ref
    BY <2>1, ElementOfSeq, LenProperties
  <2>4. /\ DOMAIN new[i].c = DOMAIN gs[i].c
        /\ \A k \in DOMAIN gs[i].c : new[i].c[k] = RefMap(moved)[gs[i].c[k]]
    BY <2>2 DEF Over
  <2>5. /\ Children(gs, i) = {gs[i].c[k] : k \in DOMAIN gs[i].c}
        /\ Children(new, i) = {new[i].c[k] : k \in DOMAIN gs[i].c}
    BY <2>4 DEF Children, ToSet
  <2>6. \A r : r \in Children(new, i) <=> \E k \in DOMAIN gs[i].c : r = RefMap(moved)[gs[i].c[k]]
    BY <2>4, <2>5
  <2> QED BY <2>2, <2>3, <2>5, <2>6
<1>4. /\ \A x \in Ref : /\ x.type = "page" => RefMap(moved)[x] = PageRef(moved[x.at])
                        /\ x.type # "page" => RefMap(moved)[x] = x
      /\ \A k \in Nodes : GenRef(k) \in Ref /\ GenRef(k).type # "page"
      /\ \A q \in Frames : PageRef(q) \in Ref /\ PageRef(q).type = "page" /\ PageRef(q).at = q
  BY DEF RefMap, Ref, GenRef, PageRef
<1> HIDE DEF new
<1>5. ASSUME NEW i \in Made(gs), NEW k \in Nodes
      PROVE  GenRef(k) \in Children(new, i) <=> GenRef(k) \in Children(gs, i)
  <2>1. ASSUME NEW x \in Ref, GenRef(k) = RefMap(moved)[x] PROVE x = GenRef(k)
    BY <1>4, <2>1, RefsDiffer
  <2> QED BY <1>3, <1>4, <2>1
<1>6. SameHung(gs, new)
  BY <1>2, <1>3, <1>5 DEF SameHung
<1>7. ASSUME NEW G, NEW q \in HeldBy(gs, G) PROVE moved[q] \in HeldBy(new, G)
  <2>1. q \in Frames /\ moved[q] \in Frames
    BY DEF HeldBy
  <2>2. PICK j \in Made(gs) : gs[j].gen \in G /\ PageRef(q) \in Children(gs, j)
    BY DEF HeldBy
  <2>3. RefMap(moved)[PageRef(q)] = PageRef(moved[q])
    BY <1>4, <2>1
  <2>4. PageRef(moved[q]) \in Children(new, j)
    BY <1>3, <1>4, <2>1, <2>2, <2>3
  <2> QED BY <1>2, <1>3, <2>1, <2>2, <2>4 DEF HeldBy
<1> QED BY <1>6, <1>7 DEF new

-----------------------------------------------------------------------------
\* The slot that a page of the transaction gets is the transaction's.
LEMMA SlotIsOwn ==
    ASSUME HeapInv, GensInOrder, working \in AllGens, Found(SlotBelow(working)),
           gens[working].gen = lastGenIndex, BelowOnly(gens, working, lastGenIndex)
    PROVE  LET slot == SlotBelow(working)
           IN  /\ BelowOnly(slot.gens, working, lastGenIndex)
               /\ slot.gens[slot.target].gen = lastGenIndex
               /\ \A G : HeldBy(gens, G) \subseteq HeldBy(slot.gens, G)
<1> DEFINE slot  == SlotBelow(working)
           old   == slot.gens
           n     == lastGen + 1
           split == NewGenBetween(gens, working, n)
           id    == lastGenIndex
<1>1. /\ old \in GensType /\ slot.lastGen \in Nodes /\ InOrder(old, slot.lastGen, lastGenIndex)
      /\ gens \in GensType /\ lastGen \in Nodes /\ id \in Nat
  BY HeapFacts, SlotBelowOrder DEF HeapInv, TypeOK
<1>2. working \in Nodes /\ gens[working] # Null /\ working \in Made(gens)
  BY DEF AllGens, Made
<1>3. slot.target \in Nodes /\ old[slot.target] # Null
  BY DEF Found
<1>4. old[slot.target].gen = id
  <2>1. old[slot.target].gen <= id /\ old[slot.target].gen \in Nat
    BY <1>1, <1>3 DEF InOrder, GensType, Generation
  <2>2. CASE id = 0
    BY <2>1, <2>2
  <2>3. CASE id # 0
    <3>1. id - 1 \in Nat /\ gens[working].gen > id - 1
      BY <1>1, <2>3
    <3>2. old[slot.target].gen > id - 1
      BY <3>1, SlotAgrees
    <3> QED BY <1>1, <2>1, <3>2
  <2> QED BY <2>2, <2>3
<1>5. CASE FirstFreeSlot(gens, working) # Null
  <2>1. old = gens
    BY <1>5 DEF SlotBelow
  <2> QED BY <1>4, <2>1
<1>6. CASE FirstFreeSlot(gens, working) = Null
  <2>1. old = split /\ slot.lastGen = n
    BY <1>6 DEF SlotBelow
  <2>2. n \in Nodes /\ gens[n] = Null
    BY <1>1, <2>1 DEF GensInOrder, InOrder, Nodes
  <2>3. /\ split[n] = gens[working]
        /\ split[working].gen = gens[working].gen /\ split[working].c = <<GenRef(n)>>
        /\ \A j \in Nodes : j # n /\ j # working => split[j] = gens[j]
    BY <1>1, <1>2, <2>2, SplitIs
  <2>4. Below(gens, working, working) /\ GenRef(working) \notin Children(gens, working)
    BY <1>2 DEF BelowOnly
  <2>5. Below(split, working, n) /\ \A j : Below(gens, working, j) => Below(split, working, j)
    BY <1>1, <1>2, <2>2, <2>4, SplitBelow
  <2> HIDE DEF split, n, slot
  <2>6. Children(split, n) = Children(gens, working) /\ Children(split, working) = {GenRef(n)}
        /\ n # working
    BY <1>2, <2>2, <2>3 DEF Children, ToSet
  <2>7. ASSUME NEW j \in Made(split), split[j].gen = id
        PROVE  Below(split, working, j) /\ GenRef(working) \notin Children(split, j)
    <3>1. CASE j = n
      BY <2>4, <2>5, <2>6, <3>1
    <3>2. CASE j = working
      BY <2>4, <2>5, <2>6, <3>2, RefsDiffer
    <3>3. CASE j # n /\ j # working
      <4>1. j \in Made(gens) /\ split[j] = gens[j]
        BY <2>3, <3>3 DEF Made
      <4> QED BY <2>5, <2>7, <4>1 DEF BelowOnly, Children
    <3> QED BY <3>1, <3>2, <3>3
  <2>8. \A G : HeldBy(gens, G) \subseteq HeldBy(split, G)
    <3>1. ASSUME NEW G, NEW j \in Made(gens), gens[j].gen \in G, NEW f \in Frames,
                 PageRef(f) \in Children(gens, j)
          PROVE  f \in HeldBy(split, G)
      <4>1. CASE j = working
        BY <1>2, <2>2, <2>3, <2>6, <3>1, <4>1 DEF HeldBy, Made
      <4>2. CASE j # working
        BY <2>2, <2>3, <3>1, <4>2 DEF HeldBy, Made, Children
      <4> QED BY <4>1, <4>2
    <3> QED BY <3>1 DEF HeldBy
  <2> QED BY <1>4, <2>1, <2>7, <2>8 DEF BelowOnly, slot
<1> QED BY <1>5, <1>6

\* What a trap makes of what the transaction holds.
LEMMA TrapIsOwn ==
    ASSUME HeapInv, GensInOrder, NEW f \in Frames, TrappedWrite(f),
           gens[working].gen = lastGenIndex, BelowOnly(gens, working, lastGenIndex)
    PROVE  LET p == FindPage(f)
           IN  /\ BelowOnly(gens', working, lastGenIndex)
               /\ p \in HeldBy(gens', {lastGenIndex})
               /\ \A q \in HeldBy(gens, {lastGenIndex}) : q # p => q \in HeldBy(gens', {lastGenIndex})
<1> DEFINE p      == FindPage(f)
           slot   == SlotBelow(working)
           moved  == [x \in Frames |-> IF x = p THEN FreshPage ELSE x]
           placed == CopyInPlace(slot, p)
           with   == [slot EXCEPT !.gens = placed]
           id     == lastGenIndex
<1>1. /\ p \in AllPages /\ Found(slot) /\ RoomFor(pages[p].pages) /\ working # committed
      /\ gens' = Attach(with, PageRef(p))
  BY DEF TrappedWrite, Trappable
<1>2. working \in AllGens /\ gens[root] # Null /\ working \in Nodes
  BY <1>1, HeapFacts DEF HeapInv, TypeOK, AllGens
<1>3. /\ slot.gens \in GensType /\ placed \in GensType
      /\ \A j \in Nodes : placed[j] = Null <=> slot.gens[j] = Null
  BY <1>1, <1>2, CopyInPlaceType, Zenon
<1>4. with.gens = placed /\ with.lastGen = slot.lastGen /\ with.target = slot.target
  BY DEF SlotBelow
<1>5. FreshPage \in Frames /\ p \in Frames
  BY <1>1, <1>2, HeapFacts, FreshPageIsFree DEF Page
<1>6. moved \in [Frames -> Frames] /\ placed = Relink(slot.gens, moved)
  BY <1>5 DEF CopyInPlace
<1>7. /\ BelowOnly(slot.gens, working, id) /\ slot.gens[slot.target].gen = id
      /\ HeldBy(gens, {id}) \subseteq HeldBy(slot.gens, {id})
  BY <1>1, <1>2, SlotIsOwn
<1>8. slot.target \in Made(slot.gens)
  BY <1>1 DEF Found, Made
<1>9. \A q \in HeldBy(gens, {id}) : q \in Frames /\ (q # p => moved[q] = q)
  BY DEF HeldBy
<1> HIDE DEF p, slot, placed, with, moved
<1>10. Found(with)
  BY <1>1, <1>3, <1>4 DEF Found
<1>11. /\ SameHung(slot.gens, placed)
       /\ \A q \in HeldBy(slot.gens, {id}) : moved[q] \in HeldBy(placed, {id})
  BY <1>3, <1>6, RelinkHung
<1>12. BelowOnly(placed, working, id) /\ placed[slot.target].gen = id
  BY <1>2, <1>7, <1>8, <1>11, HungBelow DEF SameHung
<1>13. /\ SameHung(placed, gens')
       /\ HeldBy(placed, {id}) \subseteq HeldBy(gens', {id})
       /\ p \in HeldBy(gens', {id})
  <2>1. /\ SameHung(with.gens, Attach(with, PageRef(p)))
        /\ HeldBy(with.gens, {id}) \subseteq HeldBy(Attach(with, PageRef(p)), {id})
        /\ with.gens[with.target].gen \in {id} => p \in HeldBy(Attach(with, PageRef(p)), {id})
    BY <1>3, <1>4, <1>5, <1>10, AttachHung
  <2> QED BY <1>1, <1>4, <1>12, <2>1
<1>14. BelowOnly(gens', working, id)
  BY <1>2, <1>12, <1>13, HungBelow
<1> QED BY <1>7, <1>9, <1>11, <1>13, <1>14 DEF p

\* An allocation that needs a page.
LEMMA GrownIsOwn ==
    ASSUME HeapInv, GensInOrder, NEW size, NEW p \in Frames, MallocGrows(size, p),
           gens[working].gen = lastGenIndex, BelowOnly(gens, working, lastGenIndex)
    PROVE  /\ BelowOnly(gens', working, lastGenIndex)
           /\ p \in HeldBy(gens', {lastGenIndex})
           /\ HeldBy(gens, {lastGenIndex}) \subseteq HeldBy(gens', {lastGenIndex})
<1> DEFINE slot == SlotBelow(working)
           id   == lastGenIndex
<1>1. Found(slot) /\ gens' = Attach(slot, PageRef(p)) /\ working # committed
  BY DEF MallocGrows
<1>2. working \in AllGens /\ working \in Nodes
  BY <1>1 DEF HeapInv, TypeOK, AllGens
<1>3. slot.gens \in GensType
  BY <1>1, <1>2, HeapFacts, SlotBelowType DEF HeapInv, TypeOK
<1>4. /\ BelowOnly(slot.gens, working, id) /\ slot.gens[slot.target].gen = id
      /\ HeldBy(gens, {id}) \subseteq HeldBy(slot.gens, {id})
  BY <1>1, <1>2, SlotIsOwn
<1> HIDE DEF slot
<1>5. /\ SameHung(slot.gens, gens')
      /\ HeldBy(slot.gens, {id}) \subseteq HeldBy(gens', {id})
      /\ p \in HeldBy(gens', {id})
  BY <1>1, <1>3, <1>4, AttachHung
<1> QED BY <1>2, <1>4, <1>5, HungBelow

-----------------------------------------------------------------------------
LEMMA UniformNotEmptying ==
    ASSUME NEW t, Tiles(t), NEW q, Agrees(t, q), NEW m \in Requests, Uniform(q, m)
    PROVE  ~Emptying(t, m)
<1> DEFINE lo == Min(Overlaps(t, m))
           hi == Max(Overlaps(t, m))
<1>1. /\ lo \in 1 .. Len(t) /\ hi \in lo .. Len(t)
      /\ In(m.start, t[lo]) /\ In(EndOf(m) - 1, t[hi])
  BY Hits
<1>2. m.start \in Frames /\ EndOf(m) - 1 \in Frames /\ In(m.start, m) /\ In(EndOf(m) - 1, m)
  BY RequestFacts DEF In
<1>3. hi \in 1 .. Len(t)
  BY <1>1, LenProperties DEF Tiles
<1>4. t[lo].w = q[m.start] /\ t[hi].w = q[EndOf(m) - 1]
  BY <1>1, <1>2, <1>3 DEF Agrees
<1>5. t[lo].w = t[hi].w
  BY <1>2, <1>4 DEF Uniform
<1> QED BY <1>5 DEF Emptying

\* A request for frames of one protection is never refused.
LEMMA UniformIsGranted ==
    ASSUME NEW t, Tiles(t), NEW q \in [Frames -> BOOLEAN], Agrees(t, q),
           NEW m \in Requests, Uniform(q, m)
    PROVE  MergeInTable([table |-> t, prot |-> q], <<m>>).table # Aborted
<1> DEFINE s == [table |-> t, prot |-> q]
<1>1. s.table = t
  OBVIOUS
<1>2. t \in Seq(Piece) /\ t[1].start = 0 /\ EndOf(Last(t)) = NumFrames
  BY DEF Tiles, Last
<1>3. m.start >= 0 /\ EndOf(m) <= NumFrames
  BY RequestFacts, NumFramesAssumption
<1>4. MergeInTable(s, <<m>>) = MergeInMap(s, m)
  BY <1>1, <1>2, <1>3, OneRequest
<1>5. ~Lossy(t, m)
  BY UniformHasNoHole, NotLossy
<1>6. ~Emptying(t, m)
  BY UniformNotEmptying
<1>7. Tiles(MergeInMap(s, m).table)
  BY <1>5, <1>6, MergeGrants
<1>8. \A e : Tiles(e) => e # Aborted
  BY DEF Tiles, Aborted
<1> HIDE DEF s
<1> QED BY <1>4, <1>7, <1>8 DEF s

\* The frame that is hit is one of a page that a walk meets.
LEMMA HitIsFound ==
    ASSUME HeapInv, GensInOrder, HeldOnce, NothingLost, InTree, NEW r \in AllPages,
           NEW f \in Frames, Covers(r, f)
    PROVE  FindPage(f) = r
<1> DEFINE met  == PagesIn(gens, root, MaxGen)
           hits == {k \in DOMAIN met : Covers(met[k], f)}
<1>1. gens[root] # Null
  BY DEF HeapInv, TypeOK
<1>2. met \in Seq(Nat) /\ ToSet(met) \subseteq AllPages
  <2>1. Closed(gens) /\ AllPages \in SUBSET Frames
    BY ClosedNow DEF AllPages
  <2> QED BY <1>1, <2>1, MetArePages DEF GensInOrder, HeldOnce
<1>3. r \in ToSet(met)
  BY <1>1, AllAreMet
<1>4. FindPage(f) = IF hits = {} THEN Null ELSE met[Min(hits)]
  BY DEF FindPage, FirstThat
<1> HIDE DEF met
<1>5. hits # {} /\ hits \subseteq Nat
  BY <1>2, <1>3, LenProperties DEF ToSet
<1>6. Min(hits) \in hits
  <2> HIDE DEF hits
  <2> QED BY <1>5, MinIsOne
<1>7. met[Min(hits)] \in AllPages /\ Covers(met[Min(hits)], f)
  BY <1>2, <1>6 DEF ToSet
<1> HIDE DEF hits
<1>8. FindPage(f) \in AllPages /\ Covers(FindPage(f), f)
  BY <1>4, <1>5, <1>7
<1> QED BY <1>8, OneCovers, NumFramesAssumption DEF Frames

\* What is not committed the transaction holds.
Flagged ==
    /\ pc = "eval" => \A p \in AllPages :
          pages[p].committed \/ (ops # 0 /\ p \in HeldBy(gens, {lastGenIndex}))
    /\ pc \notin {"init", "commit-init", "eval"} => \A p \in AllPages : pages[p].committed

\* A write that faults hits a committed page and is granted it.
LEMMA NoTrapFails ==
    ASSUME HeapInv, GensInOrder, HeldOnce, NothingLost, PagesFit, TilesWhileUp, InTree, Truthful,
           OwnWritable, Running, Flagged, lineage \subseteq Home, pc = "eval", proc = "up",
           NEW r \in lineage, NEW f \in FramesOf(r), ~prot[f]
    PROVE  Trappable(f)
<1>1. r \in AllPages /\ f \in Frames /\ Covers(r, f)
  BY FramesFit DEF Home
<1>2. FindPage(f) = r
  BY <1>1, HitIsFound
<1>3. working # committed
  BY DEF Running
<1>4. pages[r].committed
  BY <1>1, <1>3 DEF Flagged, OwnWritable
<1>5. Tiles(table) /\ prot \in [Frames -> BOOLEAN] /\ Agrees(table, prot) /\ Even(prot)
  BY DEF TilesWhileUp, Truthful
<1>6. MapOfPage(TRUE, r) \in Requests /\ Uniform(prot, MapOfPage(TRUE, r))
  BY <1>1, <1>5, PageMaps, PageIsUniform
<1>7. Merged(<<MapOfPage(TRUE, r)>>).table # Aborted
  BY <1>5, <1>6, UniformIsGranted DEF Merged
<1> QED BY <1>1, <1>2, <1>3, <1>4, <1>7 DEF Trappable

\* So a store of the program goes through.
LEMMA StoresGoThrough ==
    ASSUME HeapInv, GensInOrder, HeldOnce, NothingLost, PagesFit, TilesWhileUp, InTree, Truthful,
           OwnWritable, Running, Flagged, lineage \subseteq Home, Settled, EvalWrite
    PROVE  /\ pc' = "eval" /\ proc' = "up" /\ ops' = ops + 1
           /\ \E f \in Frames : \E r \in lineage : f \in FramesOf(r) /\ (PlainWrite(f) \/ TrappedWrite(f))
<1>1. PICK f \in Frames : (\E r \in lineage : f \in FramesOf(r)) /\ Write(f)
  BY DEF EvalWrite
<1>2. PICK r \in lineage : f \in FramesOf(r)
  BY <1>1
<1>3. pc = "eval" /\ proc = "up"
  BY DEF EvalWrite, Settled
<1>4. ~TrapFails(f)
  BY <1>2, <1>3, NoTrapFails DEF TrapFails
<1>5. proc' = "up"
  <2>1. CASE PlainWrite(f)
    BY <2>1 DEF PlainWrite
  <2>2. CASE TrappedWrite(f)
    BY <2>2 DEF TrappedWrite, Trappable, MergeMaps
  <2> QED BY <1>1, <1>4, <2>1, <2>2 DEF Write
<1>6. pc' = "eval" /\ ops' = ops + 1
  BY <1>3, <1>5 DEF EvalWrite
<1> QED BY <1>1, <1>2, <1>4, <1>5, <1>6 DEF Write

-----------------------------------------------------------------------------
\* A transaction that was just begun is a generation of its own.
LEMMA BegunIsAlone ==
    ASSUME HeapInv, GensInOrder, HeldOnce, BeginMut
    PROVE  BelowOnly(gens', working', lastGenIndex')
<1> DEFINE slot == SlotBelow(committed)
           next == slot.lastGen + 1
           id   == lastGenIndex + 1
           node == NewGen(id)
           made == [slot.gens EXCEPT ![next] = node]
           with == [slot EXCEPT !.gens[next] = node]
           t    == slot.target
           new  == gens'
<1>1. /\ Found(slot) /\ next \in Nodes /\ committed \in AllGens /\ lastGenIndex < MaxGen
      /\ new = Attach(with, GenRef(next)) /\ working' = next /\ lastGenIndex' = id
  BY DEF HeapInv, TypeOK, BeginMut
<1>2. id \in 0 .. MaxGen /\ lastGenIndex \in Nat
  BY <1>1 DEF HeapInv, TypeOK
<1>3. InOrder(slot.gens, slot.lastGen, lastGenIndex) /\ slot.gens \in GensType
  BY <1>1, HeapFacts, SlotBelowOrder DEF HeapInv, TypeOK
<1>4. /\ slot.gens[next] = Null /\ made \in GensType
  <2>1. made \in GensType
    BY <1>1, <1>2, NewGenType, Zenon
  <2>2. slot.lastGen \in Nodes
    BY <1>1 DEF Found
  <2> HIDE DEF slot
  <2> QED BY <1>1, <1>3, <2>1, <2>2 DEF InOrder, Nodes
<1>5. with.gens = made /\ with.target = slot.target /\ with.lastGen = slot.lastGen
  BY DEF SlotBelow
<1>6. node.c = <<>> /\ node.gen = id
  BY DEF NewGen
<1>7. t \in Nodes /\ t # next
  BY <1>1, <1>4 DEF Found
<1> HIDE DEF slot, next, with, node, t, new
<1>8. \A j \in Nodes : made[j] = IF j = next THEN node ELSE slot.gens[j]
  BY <1>1, <1>3 DEF GensType
<1>9. Found(with)
  BY <1>1, <1>4, <1>5, <1>8 DEF Found
<1> HIDE DEF made
<1>10. new = [made EXCEPT ![t].c = Append(@, GenRef(next))]
  BY <1>1, <1>5 DEF Attach, t
<1>11. \A j \in Nodes : j # t => new[j] = made[j]
  BY <1>4, <1>10 DEF GensType
<1>12. GenRef(next) \in Ref
  BY <1>1 DEF GenRef, Ref
<1>13. SameIds(made, new) /\ \A j \in Nodes : new[j] = Null <=> made[j] = Null
  <2>1. SameIds(with.gens, Attach(with, GenRef(next)))
    BY <1>4, <1>5, <1>9, <1>12, AttachIds
  <2>2. \A j \in Nodes : Attach(with, GenRef(next))[j] = Null <=> with.gens[j] = Null
    BY <1>4, <1>5, <1>9, <1>12, AttachType
  <2> QED BY <1>1, <1>5, <2>1, <2>2
<1>14. ASSUME NEW j \in Made(new), new[j].gen = id PROVE j = next
  <2> SUFFICES ASSUME j # next PROVE FALSE
    OBVIOUS
  <2>1. j \in Nodes /\ made[j] # Null /\ made[j].gen = id
    BY <1>13, <1>14 DEF Made, SameIds
  <2>2. slot.gens[j] # Null /\ slot.gens[j].gen = id
    BY <1>8, <2>1
  <2>3. slot.gens[j].gen <= lastGenIndex
    BY <1>3, <2>1, <2>2 DEF InOrder
  <2> QED BY <1>2, <2>2, <2>3
<1>15. Below(new, next, next)
  BY DEF Below
<1>16. GenRef(next) \notin Children(new, next)
  <2>1. new[next].c = <<>>
    BY <1>1, <1>6, <1>7, <1>8, <1>11
  <2> QED BY <2>1 DEF Children, ToSet
<1>17. BelowOnly(new, next, id)
  BY <1>14, <1>15, <1>16 DEF BelowOnly
<1> QED BY <1>1, <1>17 DEF new

\* The generations of a transaction hang below the one it writes to.
OwnTree == pc = "eval" /\ working # committed => BelowOnly(gens, working, lastGenIndex)

LEMMA OwnTreeStep ==
    ASSUME HeapInv, GensInOrder, HeldOnce, Settled, OwnTree, [EvalerNext]_vars
    PROVE  OwnTree'
<1> SUFFICES ASSUME pc' = "eval", working' # committed'
             PROVE  BelowOnly(gens', working', lastGenIndex')
  BY DEF OwnTree
<1>1. CASE Begin
  BY <1>1, BegunIsAlone DEF Begin
<1>2. ASSUME pc = "eval", working # committed, UNCHANGED <<gens, working, lastGenIndex>>
      PROVE  BelowOnly(gens', working', lastGenIndex')
  BY <1>2 DEF OwnTree
<1>3. CASE pc = "eval" /\ EvalWrite
  <2>1. PICK f \in Frames : Write(f)
    BY <1>3 DEF EvalWrite
  <2>2. UNCHANGED <<working, committed, lastGenIndex>>
    BY <2>1 DEF Write, PlainWrite, TrappedWrite, TrapFails, fileVars
  <2>3. CASE PlainWrite(f) \/ TrapFails(f)
    BY <1>2, <1>3, <2>2, <2>3 DEF PlainWrite, TrapFails, fileVars
  <2>4. CASE TrappedWrite(f)
    <3>1. gens[working].gen = lastGenIndex /\ BelowOnly(gens, working, lastGenIndex)
      BY <1>3, <2>2 DEF Settled, OwnTree
    <3>2. BelowOnly(gens', working, lastGenIndex)
      BY <2>4, <3>1, TrapIsOwn
    <3> QED BY <2>2, <3>2
  <2> QED BY <2>1, <2>3, <2>4 DEF Write
<1>4. CASE pc = "eval" /\ EvalAlloc
  <2>1. PICK size \in Sizes, p \in Frames : Malloc(size, p)
    BY <1>4 DEF EvalAlloc
  <2>2. UNCHANGED <<working, committed, lastGenIndex>>
    BY <2>1 DEF Malloc, MallocFits, MallocGrows
  <2>3. CASE MallocFits(size, p)
    BY <1>2, <1>4, <2>2, <2>3 DEF MallocFits
  <2>4. CASE MallocGrows(size, p)
    <3>1. gens[working].gen = lastGenIndex /\ BelowOnly(gens, working, lastGenIndex)
      BY <1>4, <2>2 DEF Settled, OwnTree
    <3>2. BelowOnly(gens', working, lastGenIndex)
      BY <2>4, <3>1, GrownIsOwn
    <3> QED BY <2>2, <3>2
  <2> QED BY <2>1, <2>3, <2>4 DEF Malloc
<1>5. CASE pc = "eval" /\ MemGraph
  <2>1. ~Peek
    BY DEF Peek
  <2>2. ~PeekFirst
    BY <1>5 DEF PeekFirst, Settled
  <2> QED BY <1>5, <2>1, <2>2 DEF MemGraph
<1>6. CASE pc = "eval" /\ UNCHANGED vars
  <2>1. UNCHANGED <<gens, working, committed, lastGenIndex>>
    BY <1>6 DEF vars, heapVars, fileVars
  <2> QED BY <1>2, <1>6, <2>1
<1> QED BY <1>1, <1>3, <1>4, <1>5, <1>6, EvalSteps

-----------------------------------------------------------------------------
\* Something uncommitted is left behind: by a process killed inside the allocator,
\* before its first commit or with a transaction under way, by a query that
\* returns before it commits what it wrote, or by another process that rolls a
\* transaction back.
Interrupted ==
    \/ KillInside \/ MemGraph
    \/ Kill /\ pc \in {"init", "commit-init", "eval"}
    \/ LeaveUncommitted /\ ops # 0

\* A process that makes the interpreter has made the file.
Founded ==
    /\ pc = "off" /\ ~userPtr => gens[root] = Null
    /\ pc \in {"init", "commit-init"} => working = root

\* No process finds itself without a transaction where it needs one.
LEMMA NeverWithout ==
    ASSUME Fresh, Founded, Running
    PROVE  ~InitAborts /\ ~InitCommitCrashes /\ ~EvalAborts
<1>1. root # Null
  BY NullAssumption DEF root
<1> QED BY <1>1 DEF Fresh, Founded, Running, InitAborts, InitCommitCrashes, EvalAborts, MallocAborts

LEMMA FoundedStep ==
    ASSUME Settled, Fresh, Running, Founded, [EvalerNext]_vars, ~Interrupted
    PROVE  Founded'
<1>1. ASSUME userPtr' \/ pc' # "off", pc' \notin {"init", "commit-init"} PROVE Founded'
  BY <1>1 DEF Founded
<1>2. ASSUME pc \notin {"off", "init"}, userPtr' = userPtr, pc' \notin {"init", "commit-init"}
      PROVE  Founded'
  BY <1>1, <1>2 DEF Settled
<1>3. CASE Start
  <2>1. CASE userPtr
    BY <1>1, <1>3, <2>1 DEF Start
  <2>2. CASE ~userPtr
    <3>1. CreateDb
      BY <1>3, <2>2 DEF Start, SnapInit, OpenDb, Founded
    <3> QED BY <1>3, <2>2, <3>1 DEF Start, CreateDb, NewDb, Founded
  <2> QED BY <2>1, <2>2
<1>4. CASE InitAlloc
  <2>1. pc' = pc /\ pc = "init" /\ working' = working
    BY <1>4 DEF InitAlloc, Malloc, MallocFits, MallocGrows
  <2> QED BY <2>1 DEF Founded
<1>5. CASE InitDone
  <2>1. pc = "init" /\ pc' = "commit-init" /\ working' = working
    BY <1>5 DEF InitDone, heapVars, fileVars
  <2> QED BY <2>1 DEF Founded
<1>6. CASE InitCommit \/ Begin \/ BeginCrashes \/ EvalWrite \/ EvalAlloc \/ Leave \/ LeaveUncommitted
  BY <1>2, <1>6 DEF InitCommit, Begin, BeginCrashes, EvalWrite, EvalAlloc, Leave, LeaveUncommitted
<1>7. CASE CheckoutQuery \/ CheckoutMoves \/ CheckoutDone \/ Undo
  BY <1>2, <1>7 DEF CheckoutQuery, BeginCheckout, CheckoutMoves, CheckoutDone, Undo, Settled
<1>8. ASSUME NEW outcome, CommitQuery(outcome) PROVE Founded'
  <2>1. pc = "eval" /\ userPtr' = userPtr /\ pc' \in {"undo", "ready", "exit"}
    BY <1>8, EvalerAssumption DEF CommitQuery
  <2> QED BY <1>2, <2>1
<1>9. CASE Kill
  <2>1. pc \notin {"init", "commit-init", "eval"}
    BY <1>9 DEF Interrupted
  <2>2. userPtr' = userPtr /\ pc' = "off" /\ gens' = gens
    BY <1>9 DEF Kill, DriverGone, Exit, fileVars
  <2> QED BY <1>2, <2>1, <2>2 DEF Founded
<1>10. CASE KillInCommit
  BY <1>2, <1>10 DEF KillInCommit, DriverGone
<1>11. CASE UNCHANGED vars
  BY <1>11 DEF vars, heapVars, fileVars, Founded
<1> QED BY <1>3, <1>4, <1>5, <1>6, <1>7, <1>8, <1>9, <1>10, <1>11, NeverWithout
        DEF EvalerNext, Interrupted, KillInside

\* What set_committed does to the pages.
LEMMA FlagsThem ==
    ASSUME HeapInv, FlagCommitted,
           \A p \in AllPages : pages[p].committed \/ p \in ToSet(PagesIn(gens, working, MaxGen))
    PROVE  \A p \in AllPages' : pages'[p].committed
<1> DEFINE S == AllPages \cap ToSet(PagesIn(gens, working, MaxGen))
<1>1. pages' = [f \in Frames |-> IF f \in S THEN [pages[f] EXCEPT !.committed = TRUE] ELSE pages[f]]
  BY DEF FlagCommitted
<1>2. \A p \in S : [pages[p] EXCEPT !.committed = TRUE].committed
  BY HeapFacts DEF Page
<1>3. \A p \in AllPages : pages[p].committed \/ p \in S
  OBVIOUS
<1>4. S \subseteq AllPages
  OBVIOUS
<1> HIDE DEF S
<1>5. ASSUME NEW p \in AllPages' PROVE pages'[p].committed
  <2>1. p \in Frames /\ pages'[p] # Null
    BY DEF AllPages
  <2>2. CASE p \in S
    BY <1>1, <1>2, <2>1, <2>2
  <2>3. CASE p \notin S
    <3>1. pages'[p] = pages[p]
      BY <1>1, <2>1, <2>3
    <3>2. p \in AllPages
      BY <2>1, <3>1 DEF AllPages
    <3> QED BY <1>3, <2>3, <3>1, <3>2
  <2> QED BY <2>2, <2>3
<1> QED BY <1>5

\* A commit leaves nothing uncommitted.
LEMMA CommitFlags ==
    ASSUME HeapInv, GensInOrder, HeldOnce, NothingLost, InTree, Settled, Founded, OwnTree, Running,
           Flagged, pc \in {"commit-init", "eval"}, working # Null, FlagCommitted
    PROVE  \A p \in AllPages' : pages'[p].committed
<1>1. gens[root] # Null /\ working \in AllGens
  BY HeapFacts
<1>2. ASSUME NEW p \in AllPages, ~pages[p].committed
      PROVE  p \in ToSet(PagesIn(gens, working, MaxGen))
  <2>1. CASE pc = "commit-init"
    <3>1. working = root
      BY <2>1 DEF Founded
    <3> QED BY <1>1, <3>1, AllAreMet
  <2>2. CASE pc = "eval"
    <3>1. working # committed
      BY <2>2 DEF Running
    <3>2. gens[working].gen = lastGenIndex /\ BelowOnly(gens, working, lastGenIndex)
      BY <2>2, <3>1 DEF Settled, OwnTree
    <3>3. p \in HeldBy(gens, {lastGenIndex})
      BY <1>2, <2>2 DEF Flagged
    <3> QED BY <1>1, <3>2, <3>3, OwnAreMet
  <2> QED BY <2>1, <2>2
<1> QED BY <1>2, FlagsThem

\* A checkout marks nothing.
LEMMA SwapFlags ==
    ASSUME HeapInv, CheckoutSwap, \A p \in AllPages : pages[p].committed
    PROVE  \A p \in AllPages' : pages'[p].committed
<1> DEFINE p    == NextToMove
           home == pages[p].real
<1>1. p \in AllPages /\ pages' = [pages EXCEPT ![p] = pages[home], ![home] = pages[p]]
  BY DEF CheckoutSwap
<1> HIDE DEF p
<1>2. home \in AllPages
  BY <1>1 DEF HeapInv, PagesHaveHomes
<1> HIDE DEF home
<1>3. \A q \in Frames : pages'[q] \in {pages[q], pages[p], pages[home]}
  BY <1>1, <1>2, HeapFacts DEF PagesType
<1>4. ASSUME NEW q \in AllPages' PROVE pages'[q].committed
  <2>1. q \in Frames /\ pages'[q] # Null
    BY DEF AllPages
  <2>2. pages'[q] = pages[q] \/ pages'[q] = pages[p] \/ pages'[q] = pages[home]
    BY <1>3, <2>1
  <2>3. pages'[q] = pages[q] => q \in AllPages
    BY <2>1 DEF AllPages
  <2> QED BY <1>1, <1>2, <2>2, <2>3
<1> QED BY <1>4

\* What a query does to pages that are not committed.
LEMMA EvalFlags ==
    ASSUME HeapInv, GensInOrder, HeldOnce, NothingLost, PagesFit, TilesWhileUp, InTree, Truthful,
           OwnTree, OwnWritable, Running, Flagged, lineage \subseteq Home, Settled, ops \in Nat,
           pc = "eval", EvalWrite \/ EvalAlloc
    PROVE  Flagged'
<1> DEFINE id == lastGenIndex
<1>1. working # committed /\ gens[working].gen = id /\ BelowOnly(gens, working, id)
  BY DEF Running, Settled, OwnTree
<1>2. \A p \in AllPages : pages[p].committed \/ p \in HeldBy(gens, {id})
  BY DEF Flagged
<1>3. pc' = "eval" /\ ops' # 0
  <2>1. CASE EvalWrite
    BY <2>1, StoresGoThrough
  <2>2. CASE EvalAlloc
    BY <2>2 DEF EvalAlloc
  <2> QED BY <2>1, <2>2
<1> SUFFICES ASSUME NEW q \in AllPages', ~pages'[q].committed
             PROVE  q \in HeldBy(gens', {lastGenIndex'})
  BY <1>3 DEF Flagged
<1>4. q \in Frames /\ pages'[q] # Null
  BY DEF AllPages
<1>5. CASE EvalWrite
  <2>1. PICK f \in Frames : \E r \in lineage : f \in FramesOf(r) /\ (PlainWrite(f) \/ TrappedWrite(f))
    BY <1>5, StoresGoThrough
  <2>2. CASE PlainWrite(f)
    <3>1. AllPages' = AllPages /\ pages'[q].committed = pages[q].committed
      BY <1>4, <2>2, PlainPages
    <3>2. gens' = gens /\ lastGenIndex' = id
      BY <2>2 DEF PlainWrite
    <3> QED BY <1>2, <3>1, <3>2
  <2>3. CASE TrappedWrite(f)
    <3> DEFINE p == FindPage(f)
    <3>1. PICK r \in lineage : f \in FramesOf(r)
      BY <2>1
    <3>2. /\ lastGenIndex' = id /\ p \in HeldBy(gens', {id})
          /\ \A x \in HeldBy(gens, {id}) : x # p => x \in HeldBy(gens', {id})
      BY <1>1, <2>3, TrapIsOwn DEF TrappedWrite
    <3>3. /\ FreshPage \in Frames /\ FreshPage \notin AllPages /\ p \in AllPages
          /\ \A x \in Frames : x \notin {p, FreshPage} => pages'[x] = pages[x]
      BY <2>3, <3>1, TrappedPages DEF Home
    <3>4. pages'[FreshPage] = pages[p] /\ pages[p].committed
      <4>1. /\ pages[p].committed
            /\ pages' = [pages EXCEPT ![FreshPage] = pages[p],
                                      ![p] = [pages[p] EXCEPT !.committed = FALSE,
                                                              !.val = lastGenIndex]]
        BY <2>3 DEF TrappedWrite, Trappable, CopyOf
      <4> HIDE DEF p
      <4>2. FreshPage # p /\ pages \in PagesType
        BY <3>3, HeapFacts
      <4> QED BY <3>3, <4>1, <4>2 DEF PagesType
    <3> HIDE DEF p
    <3>5. q # FreshPage
      BY <3>4
    <3>6. q # p => q \in HeldBy(gens, {id})
      BY <1>2, <1>4, <3>3, <3>5 DEF AllPages
    <3> QED BY <3>2, <3>6
  <2> QED BY <2>1, <2>2, <2>3
<1>6. CASE EvalAlloc
  <2>1. PICK size \in Sizes, p \in Frames : Malloc(size, p)
    BY <1>6 DEF EvalAlloc
  <2>2. size \in Nat \ {0}
    BY EvalerAssumption
  <2>3. lastGenIndex' = id
    BY <2>1 DEF Malloc, MallocFits, MallocGrows
  <2>4. \A x \in AllPages : pages'[x].committed = pages[x].committed
    BY <2>1, <2>2, MadeHome
  <2>5. q \in AllPages => q \in HeldBy(gens, {id})
    BY <1>2, <2>4
  <2>6. CASE MallocFits(size, p)
    <3>1. gens' = gens /\ p \in AllPages /\ pages' = [pages EXCEPT ![p].used = @ + size]
      BY <2>6 DEF MallocFits
    <3>2. \A x \in Frames : x # p => pages'[x] = pages[x]
      BY <3>1, HeapFacts DEF PagesType
    <3>3. q \in AllPages
      BY <1>4, <3>1, <3>2 DEF AllPages
    <3> QED BY <2>3, <2>5, <3>1, <3>3
  <2>7. CASE MallocGrows(size, p)
    <3>1. p \in HeldBy(gens', {id}) /\ HeldBy(gens, {id}) \subseteq HeldBy(gens', {id})
      BY <1>1, <2>7, GrownIsOwn
    <3>2. \E x : pages' = [pages EXCEPT ![p] = x]
      BY <2>7 DEF MallocGrows
    <3>3. \A x \in Frames : x # p => pages'[x] = pages[x]
      BY <3>2, HeapFacts DEF PagesType
    <3>4. q # p => q \in AllPages
      BY <1>4, <3>3 DEF AllPages
    <3> QED BY <2>3, <2>5, <3>1, <3>4
  <2> QED BY <2>1, <2>6, <2>7 DEF Malloc
<1> QED BY <1>5, <1>6

LEMMA FlaggedStep ==
    ASSUME HeapInv, GensInOrder, HeldOnce, NothingLost, PagesFit, TilesWhileUp, InTree, Truthful,
           OwnTree, OwnWritable, Running, Flagged, Founded, Fresh, lineage \subseteq Home, Settled,
           ops \in Nat, [EvalerNext]_vars, ~Interrupted
    PROVE  Flagged'
<1> DEFINE Busy == {"init", "commit-init", "eval"}
<1>1. ASSUME \A p \in AllPages' : pages'[p].committed PROVE Flagged'
  BY <1>1 DEF Flagged
<1>2. ASSUME pages' = pages, pc \notin Busy PROVE Flagged'
  <2>1. \A p \in AllPages' : pages'[p].committed
    BY <1>2 DEF Flagged, AllPages
  <2> QED BY <1>1, <2>1
<1>3. CASE Start
  <2>1. pc = "off" /\ (CreateDb \/ OpenDb)
    BY <1>3 DEF Start, SnapInit
  <2>2. CASE OpenDb
    BY <1>2, <2>1, <2>2 DEF OpenDb
  <2>3. CASE CreateDb
    <3> DEFINE x == [real |-> initialPage, committed |-> TRUE, pages |-> 1, used |-> 0, val |-> 0]
    <3>1. AllPages = {} /\ pages' = [pages EXCEPT ![initialPage] = x]
      BY <2>3 DEF CreateDb, NewDb, HeapInv, TypeOK
    <3>2. x.committed
      OBVIOUS
    <3> HIDE DEF x
    <3>3. \A q \in Frames : pages'[q] = x \/ pages'[q] = pages[q]
      BY <3>1, HeapFacts DEF PagesType
    <3>4. \A q \in AllPages' : pages'[q] = x
      BY <3>1, <3>3 DEF AllPages
    <3> QED BY <1>1, <3>2, <3>4
  <2> QED BY <2>1, <2>2, <2>3
<1>4. CASE InitAlloc \/ InitDone
  <2>1. pc' \in {"init", "commit-init"}
    BY <1>4 DEF InitAlloc, InitDone
  <2> QED BY <2>1 DEF Flagged
<1>5. ASSUME Commit \/ CommitDies, pc \in {"commit-init", "eval"} PROVE Flagged'
  BY <1>1, <1>5, CommitFlags DEF Commit, CommitDies
<1>6. CASE InitCommit \/ KillInCommit
  BY <1>5, <1>6 DEF InitCommit, KillInCommit
<1>7. ASSUME NEW outcome, CommitQuery(outcome) PROVE Flagged'
  BY <1>5, <1>7 DEF CommitQuery
<1>8. ASSUME NEW g, NEW next, BeginCheckout(g, next) PROVE pages' = pages
  BY <1>8 DEF BeginCheckout, CheckoutSame, CheckoutStart, heapVars, fileVars
<1>9. CASE CheckoutQuery \/ Undo
  BY <1>2, <1>8, <1>9 DEF CheckoutQuery, Undo
<1>10. CASE CheckoutMoves
  <2>1. CASE CheckoutSwap
    BY <1>1, <1>10, <2>1, SwapFlags DEF Flagged, CheckoutMoves
  <2>2. CASE CheckoutFails
    BY <1>2, <1>10, <2>2 DEF CheckoutFails, fileVars, CheckoutMoves
  <2> QED BY <1>10, <2>1, <2>2 DEF CheckoutMoves
<1>11. CASE CheckoutDone \/ Begin \/ BeginCrashes \/ Leave
  BY <1>2, <1>11 DEF CheckoutDone, CheckoutEnd, Begin, BeginMut, BeginCrashes, NullDeref, Leave, Exit,
                     fileVars
<1>12. CASE EvalWrite \/ EvalAlloc
  <2>1. pc = "eval"
    BY <1>12 DEF EvalWrite, EvalAlloc
  <2> QED BY <1>12, <2>1, EvalFlags
<1>13. CASE LeaveUncommitted
  <2>1. pc = "eval" /\ pages' = pages
    BY <1>13 DEF LeaveUncommitted, Exit, fileVars
  <2>2. ops = 0
    BY <1>13 DEF Interrupted
  <2>3. \A p \in AllPages' : pages'[p].committed
    BY <2>1, <2>2 DEF Flagged, AllPages
  <2> QED BY <1>1, <2>3
<1>14. CASE Kill
  <2>1. pages' = pages
    BY <1>14 DEF Kill, Exit, fileVars
  <2> QED BY <1>2, <1>14, <2>1 DEF Interrupted
<1>15. CASE UNCHANGED vars
  <2>1. UNCHANGED <<pc, ops, gens, pages, lastGenIndex>>
    BY <1>15 DEF vars, heapVars, fileVars
  <2> QED BY <2>1 DEF Flagged, AllPages
<1> QED BY <1>3, <1>4, <1>6, <1>7, <1>9, <1>10, <1>11, <1>12, <1>13, <1>14, <1>15, NeverWithout
        DEF EvalerNext, Interrupted, KillInside

-----------------------------------------------------------------------------
\* What holds as long as nothing is interrupted.
Smooth == /\ NothingLost /\ Founded /\ OwnTree /\ OwnWritable /\ Running /\ Flagged
          /\ ops \in Nat

LEMMA OpsStep == ops \in Nat /\ [EvalerNext]_vars => ops' \in Nat
<1> SUFFICES ASSUME ops \in Nat, [EvalerNext]_vars PROVE ops' \in Nat
  OBVIOUS
<1>1. CASE Forget \/ ops' = 0 \/ ops' = ops \/ ops' = ops + 1
  BY <1>1 DEF Forget
<1>2. CASE DriverGone
  BY <1>1, <1>2 DEF DriverGone
<1>3. CASE \/ Start \/ InitAlloc \/ InitAborts \/ InitDone \/ InitCommit \/ InitCommitCrashes
           \/ CheckoutQuery \/ CheckoutMoves \/ CheckoutDone \/ Begin \/ BeginCrashes
           \/ EvalWrite \/ EvalAlloc \/ EvalAborts
  BY <1>1, <1>3 DEF Start, InitAlloc, InitAborts, InitDone, InitCommit, InitCommitCrashes,
        CheckoutQuery, CheckoutMoves, CheckoutDone, Begin, BeginCrashes, EvalWrite, EvalAlloc,
        EvalAborts
<1>4. ASSUME NEW outcome, CommitQuery(outcome) PROVE ops' \in Nat
  BY <1>1, <1>4 DEF CommitQuery
<1>5. CASE Undo \/ Leave \/ LeaveUncommitted \/ MemGraph
  BY <1>1, <1>5 DEF Undo, Leave, LeaveUncommitted, MemGraph
<1>6. CASE Kill \/ KillInTrap \/ KillInMalloc \/ KillInBegin \/ KillInCommit
  BY <1>2, <1>6 DEF Kill, KillInTrap, KillInMalloc, KillInBegin, KillInCommit
<1>7. CASE UNCHANGED vars
  BY <1>1, <1>7 DEF vars
<1> QED BY <1>3, <1>4, <1>5, <1>6, <1>7 DEF EvalerNext

LEMMA SmoothStep ==
    ASSUME Ground, Ground', Mapped, Truthful, Settled, AtHome, parentGen \in 0 .. MaxGen,
           Smooth, [EvalerNext]_vars, ~Interrupted
    PROVE  Smooth'
<1>1. NothingLost'
  <2>1. [Unbroken]_heapVars
    BY DriverUnbroken DEF Interrupted
  <2> QED BY <2>1, UnbrokenStep DEF Ground, Smooth
<1>2. Founded'
  BY FoundedStep DEF Smooth, AtHome
<1>3. OwnTree'
  BY OwnTreeStep DEF Smooth, Ground
<1>4. OwnWritable'
  BY OwnWritableStep DEF Ground, Mapped, AtHome, Smooth
<1>5. Running'
  BY RunningStep DEF Ground, Smooth, Interrupted
<1>6. Flagged'
  BY FlaggedStep DEF Ground, Mapped, AtHome, Smooth
<1>7. ops' \in Nat
  BY OpsStep DEF Smooth
<1> QED BY <1>1, <1>2, <1>3, <1>4, <1>5, <1>6, <1>7 DEF Smooth

\* What the program can store to without a fault is the transaction's: it is not
\* committed, somebody holds it, and a walk from the transaction meets it.
LEMMA WritableIsOwn ==
    ASSUME Ground, Settled, AtHome, Smooth, CommittedAreProtected
    PROVE  WritesAreTrapped
<1> SUFFICES ASSUME pc = "eval", NEW p \in lineage, NEW f \in FramesOf(p), prot[f]
             PROVE  p \in ToSet(PagesIn(gens, working, MaxGen))
  BY DEF WritesAreTrapped
<1>1. HeapInv /\ GensInOrder /\ HeldOnce
  BY DEF Ground
<1>2. p \in AllPages
  BY DEF AtHome, Home
<1>3. working # committed /\ gens[working].gen = lastGenIndex /\ BelowOnly(gens, working, lastGenIndex)
  BY DEF Smooth, Running, Settled, OwnTree
<1>4. working \in AllGens
  BY <1>1, <1>3 DEF HeapInv, TypeOK
<1>5. ~pages[p].committed
  <2>1. PICK i \in Made(gens) : PageRef(p) \in Children(gens, i)
    BY <1>2 DEF Smooth, NothingLost, Whole
  <2>2. i \in AllGens /\ PageRef(p) \in ToSet(gens[i].c)
    BY <2>1 DEF Made, AllGens, Children
  <2>3. PageRef(p).type = "page" /\ PageRef(p).at = p
    BY DEF PageRef
  <2>4. Covers(p, f)
    <3>1. p \in Nat /\ pages[p].pages \in Nat
      BY <1>1, <1>2, HeapFacts DEF Frames, Page
    <3> QED BY <3>1 DEF FramesOf, Covers
  <2> QED BY <2>2, <2>3, <2>4 DEF CommittedAreProtected
<1>6. p \in HeldBy(gens, {lastGenIndex})
  BY <1>2, <1>5 DEF Smooth, Flagged
<1> QED BY <1>1, <1>3, <1>4, <1>6, OwnAreMet

LEMMA SmoothHolds ==
    EvalerSpec /\ []Truthful /\ [][~Interrupted]_vars => []Smooth
<1>1. EvalerInit => Smooth
  <2> HAVE EvalerInit
  <2>1. Init /\ pc = "off" /\ ops = 0
    BY DEF EvalerInit
  <2>2. AllPages = {} /\ gens[root] = Null
    BY <2>1 DEF Init, AllPages, root, Nodes
  <2> QED BY <2>1, <2>2, InitTree DEF Smooth, Founded, OwnTree, OwnWritable, Running, Flagged
<1>2. Ground /\ Ground' /\ Mapped /\ Truthful /\ Settled /\ AtHome /\ EvalerInv
         /\ Smooth /\ [EvalerNext]_vars /\ [~Interrupted]_vars => Smooth'
  <2> SUFFICES ASSUME Ground, Ground', Mapped, Truthful, Settled, AtHome, EvalerInv,
                      Smooth, [EvalerNext]_vars, [~Interrupted]_vars
               PROVE  Smooth'
    OBVIOUS
  <2>1. CASE ~Interrupted
    BY <2>1, SmoothStep DEF EvalerInv
  <2>2. CASE UNCHANGED vars
    <3>1. ~Interrupted \/ Interrupted
      OBVIOUS
    <3>2. UNCHANGED <<gens, pages, prot, working, committed, lastGenIndex, pc, userPtr, ops>>
      BY <2>2 DEF vars, heapVars, fileVars, mapVars
    <3>3. AllPages' = AllPages
      BY <3>2 DEF AllPages
    <3>4. NothingLost' /\ Founded' /\ Running' /\ Flagged' /\ ops' \in Nat
      BY <3>2, <3>3 DEF Smooth, NothingLost, Founded, Running, Flagged
    <3>5. OwnTree'
      BY <3>2 DEF Smooth, OwnTree
    <3>6. OwnWritable'
      BY <3>2 DEF Smooth, OwnWritable, FramesOf
    <3> QED BY <3>4, <3>5, <3>6 DEF Smooth
  <2> QED BY <2>1, <2>2
<1>3. EvalerSpec => []EvalerInv
  <2>1. EvalerInit => EvalerInv
    BY InitHeapInv, SnapAssumption DEF EvalerInit, EvalerInv
  <2>2. EvalerInv /\ [EvalerNext]_vars => EvalerInv'
    BY DriverStep, ParentStep, NextStep DEF EvalerInv
  <2> QED BY <2>1, <2>2, PTL DEF EvalerSpec
<1> QED BY <1>1, <1>2, <1>3, GroundHolds, MappedHolds, SettledHolds, AtHomeHolds, PTL
        DEF EvalerSpec

LEMMA TrappedHolds ==
    EvalerSpec /\ []Truthful /\ [][~Interrupted]_vars => []WritesAreTrapped
<1>1. Ground /\ Settled /\ AtHome /\ Smooth /\ CommittedAreProtected => WritesAreTrapped
  BY WritableIsOwn
<1>2. Mapped /\ Truthful => MapsAgree
  BY TruthfulAgrees DEF Mapped
<1> QED BY <1>1, <1>2, SmoothHolds, GroundHolds, MappedHolds, SettledHolds, AtHomeHolds,
           CommittedStayProtected, PTL

\* "Every memory write by the interpreter is trapped": as long as nothing is left
\* behind uncommitted, whatever the program can store to without a fault belongs to
\* the generation under way, for any number of generations, pages and splits, in
\* whatever order pages are trapped, made and moved back.
THEOREM EveryWriteIsTrapped ==
    EvalerSpec /\ [][BeginsWhole]_heapVars /\ [][~Interrupted]_vars => []WritesAreTrapped
<1> QED BY TruthfulHolds, TrappedHolds, PTL

\* ... with -e whatever the file looks like.
THEOREM EveryWriteIsTrappedForOneQuery ==
    EvalerSpec /\ ~Server /\ [][~Interrupted]_vars => []WritesAreTrapped
<1>1. OneQuery /\ ~Server => Truthful
  BY DEF OneQuery
<1>2. ~Server => ~Server'
  OBVIOUS
<1> QED BY <1>1, <1>2, OneQueryHolds, TrappedHolds, PTL
-----------------------------------------------------------------------------
(***************************************************************************)
(* Asserts                                                                 *)
(*                                                                         *)
(* Requests for frames that all have one protection are granted, however   *)
(* many there are in a call of merge_in_table.                             *)
(***************************************************************************)

LEMMA UniformMerges ==
    ASSUME NEW q, NEW s, Told(s, q), NEW m \in Requests, Uniform(q, m)
    PROVE  Told(MergeInMap(s, m), Mprotect(q, m))
<1> DEFINE t == s.table
           d == MergeInMap(s, m)
<1>1. s = [table |-> t, prot |-> q] /\ Tiles(t) /\ Agrees(t, q) /\ q \in [Frames -> BOOLEAN]
  BY DEF Told
<1>2. NoHole(q, m)
  BY UniformHasNoHole
<1> HIDE DEF t
<1>3. ~Lossy(t, m) /\ ~Emptying(t, m)
  BY <1>1, <1>2, NotLossy, UniformNotEmptying
<1>4. d = MergeInMap([table |-> t, prot |-> q], m)
  BY <1>1
<1> HIDE DEF d
<1>5. Tiles(d.table)
  BY <1>1, <1>3, <1>4, MergeGrants
<1>6. d.table # Aborted
  BY <1>5 DEF Tiles, Aborted
<1> QED BY <1>2, <1>6, MergeTells DEF d

LEMMA ListGranted ==
    ASSUME NEW b \in BOOLEAN, NEW q, NEW s, Told(s, q), NEW c, AllFor(b, c), Apart(c),
           \A k \in 1 .. Len(c) : Uniform(q, c[k])
    PROVE  FoldLeft(MergeInMap, s, c).table # Aborted
<1> DEFINE n == Len(c)
           prots(k) == [f \in Frames |-> IF \E j \in 1 .. k : In(f, c[j]) THEN b ELSE q[f]]
<1>1. n \in Nat /\ DOMAIN c = 1 .. n /\ \A k \in 1 .. n : c[k] \in Requests /\ c[k].w = b
  BY ElementOfSeq, LenProperties DEF AllFor
<1>2. PICK w : /\ w[0] = s /\ w[n] = FoldLeft(MergeInMap, s, c)
               /\ \A k \in 1 .. n : w[k] = MergeInMap(w[k - 1], c[k])
  <2> DEFINE m == n
  <2>1. m \in Nat /\ DOMAIN c = 1 .. m
    BY <1>1
  <2> HIDE DEF m
  <2>2. \E w : InTurn(w, s, m, c)
    BY <2>1, MergesInTurn
  <2> QED BY <2>2 DEF m, InTurn
<1> HIDE DEF n
<1> DEFINE Good(k) == Told(w[k], prots(k))
           Bad == {k \in 0 .. n : ~ Good(k)}
<1>3. Good(0)
  <2>1. \A f : ~ \E j \in 1 .. 0 : In(f, c[j])
    OBVIOUS
  <2>2. prots(0) = q
    BY <2>1 DEF Told
  <2> HIDE DEF prots
  <2> QED BY <1>2, <2>2
<1>4. ASSUME NEW k \in 1 .. n, Good(k - 1) PROVE Good(k)
  <2> DEFINE u == w[k - 1]
             p == prots(k - 1)
             m == c[k]
  <2>1. w[k] = MergeInMap(u, m) /\ m \in Requests /\ m.w = b /\ Uniform(q, m)
    BY <1>1, <1>2 DEF n
  <2>2. \A f \in Frames : In(f, m) => p[f] = q[f]
    <3> SUFFICES ASSUME NEW f \in Frames, In(f, m), NEW j \in 1 .. k - 1, In(f, c[j]) PROVE FALSE
      OBVIOUS
    <3>1. j \in 1 .. n /\ j # k
      BY <1>1
    <3> QED BY <3>1 DEF Apart, n
  <2>3. Uniform(p, m)
    <3> HIDE DEF p
    <3> QED BY <2>1, <2>2 DEF Uniform
  <2>4. Told(w[k], Mprotect(p, m))
    <3>1. Told(u, p)
      BY <1>4
    <3> HIDE DEF u, p, m
    <3> QED BY <2>1, <2>3, <3>1, UniformMerges
  <2>5. Mprotect(p, m) = prots(k)
    <3>1. \A f \in Frames : (\E j \in 1 .. k : In(f, c[j])) <=>
                              (\E j \in 1 .. k - 1 : In(f, c[j])) \/ In(f, m)
      <4>1. \A j \in 1 .. k : j = k \/ j \in 1 .. k - 1
        BY <1>1
      <4>2. k \in 1 .. k /\ \A j \in 1 .. k - 1 : j \in 1 .. k
        BY <1>1
      <4> QED BY <4>1, <4>2
    <3>2. \A f \in Frames : (m.start <= f /\ f < EndOf(m)) <=> In(f, m)
      BY DEF In
    <3>3. \A f \in Frames : Mprotect(p, m)[f] = IF In(f, m) THEN b ELSE p[f]
      <4> HIDE DEF p, m
      <4> QED BY <2>1, <3>2 DEF Mprotect
    <3>4. \A f \in Frames : Mprotect(p, m)[f] = prots(k)[f]
      BY <3>1, <3>3
    <3>5. Mprotect(p, m) = [f \in Frames |-> Mprotect(p, m)[f]]
      <4> HIDE DEF p, m
      <4> QED BY DEF Mprotect
    <3>6. prots(k) = [f \in Frames |-> prots(k)[f]]
      OBVIOUS
    <3> HIDE DEF p, m, prots
    <3> QED BY <3>4, <3>5, <3>6
  <2> QED BY <2>4, <2>5
<1> HIDE DEF Good
<1>5. Bad = {}
  <2> SUFFICES ASSUME Bad # {} PROVE FALSE
    OBVIOUS
  <2>1. PICK k \in Bad : \A j \in Bad : k <= j
    <3>1. Bad \in SUBSET Nat
      OBVIOUS
    <3> HIDE DEF Bad
    <3> QED BY <3>1, Least
  <2>2. k # 0
    BY <1>3, <2>1
  <2>3. k \in 1 .. n /\ k - 1 \in 0 .. n /\ k - 1 < k
    BY <1>1, <2>1, <2>2
  <2>4. k - 1 \notin Bad
    BY <2>1, <2>3
  <2> QED BY <1>4, <2>1, <2>3, <2>4
<1>6. Good(n)
  BY <1>1, <1>5
<1>7. w[n].table # Aborted
  BY <1>6 DEF Good, Told, Tiles, Aborted
<1> QED BY <1>2, <1>7

\* One call of merge_in_table.
LEMMA TableGrants ==
    ASSUME NEW t, Tiles(t), NEW q \in [Frames -> BOOLEAN], Agrees(t, q),
           NEW b \in BOOLEAN, NEW maps, AllFor(b, maps), Apart(maps), maps # <<>>,
           \A k \in 1 .. Len(Coalesce(maps)) : Uniform(q, Coalesce(maps)[k])
    PROVE  MergeInTable([table |-> t, prot |-> q], maps).table # Aborted
<1> DEFINE s == [table |-> t, prot |-> q]
           c == Coalesce(maps)
<1>1. AllFor(b, c) /\ Apart(c)
  BY CoalesceApart
<1>2. /\ Len(maps) \in Nat /\ Len(maps) >= 1
      /\ maps[1] \in Requests /\ Last(maps) \in Requests
  BY DEF AllFor, Last
<1>3. /\ t[1].start = 0 /\ EndOf(Last(t)) = NumFrames
      /\ maps[1].start >= t[1].start /\ EndOf(Last(maps)) <= EndOf(Last(t))
  <2>1. t[1].start = 0 /\ EndOf(Last(t)) = NumFrames
    BY DEF Tiles, Last
  <2>2. maps[1].start \in Nat /\ EndOf(Last(maps)) \in Nat /\ EndOf(Last(maps)) < NumFrames
    BY <1>2, RequestFacts
  <2> QED BY <2>1, <2>2, NumFramesAssumption
<1>4. s.table = t /\ Told(s, q)
  BY DEF Told
<1>5. \A k \in 1 .. Len(c) : Uniform(q, c[k])
  OBVIOUS
<1> HIDE DEF s, c
<1>6. FoldLeft(MergeInMap, s, c).table # Aborted
  BY <1>1, <1>4, <1>5, ListGranted
<1>7. MergeInTable(s, maps) = FoldLeft(MergeInMap, s, c)
  BY <1>3, <1>4 DEF MergeInTable, c
<1> QED BY <1>6, <1>7 DEF s

\* A page is not moved to a later place: its home was made before it.
HomesFirst == \A f \in AllPages : pages[f].real <= f

LEMMA HomesFirstStep ==
    ASSUME HeapInv, HeapInv', HomesFirst, [Next]_heapVars
    PROVE  HomesFirst'
<1>1. \A f \in AllPages : f \in Frames /\ pages[f] \in Page /\ pages[f].real \in AllPages
  BY HeapFacts DEF HeapInv, PagesHaveHomes
<1>2. Frames \subseteq Nat
  BY DEF Frames
<1>3. ASSUME \A f \in AllPages' : \/ f \in AllPages /\ pages'[f].real = pages[f].real
                                  \/ f = lastPage'
      PROVE  HomesFirst'
  <2> SUFFICES ASSUME NEW f \in AllPages', f = lastPage' PROVE pages'[f].real <= f
    BY <1>3 DEF HomesFirst
  <2> DEFINE home == pages'[f].real
  <2>1. /\ home \in AllPages' /\ pages'[home].pages = pages'[f].pages
        /\ home + pages'[home].pages <= f + pages'[f].pages
    BY DEF HeapInv, PagesHaveHomes, PagesAreDisjoint
  <2>2. f \in Nat /\ home \in Nat /\ pages'[f].pages \in Nat
    <3>1. AllPages' \subseteq Frames
      BY DEF AllPages
    <3>2. pages'[f] \in Page
      BY DEF HeapInv, TypeOK, AllPages
    <3> QED BY <1>2, <2>1, <3>1, <3>2 DEF Page
  <2> QED BY <2>1, <2>2
<1>4. CASE Layout
  BY <1>3, <1>4, <1>1 DEF Layout, SameLayout, Lengthened
<1>5. CASE NewDb
  <2>1. AllPages = {}
    BY <1>5 DEF NewDb, HeapInv, TypeOK
  <2>2. \A f \in AllPages' : f = lastPage'
    BY <1>5, <2>1 DEF NewDb, AllPages
  <2> QED BY <1>3, <2>2
<1> QED BY <1>4, <1>5, LayoutStep

\* What snap_checkout asks for, two pages of which the second lies before the first.
LEMMA SwapIsGranted ==
    ASSUME HeapInv, GensInOrder, HeldOnce, HomesFirst, PagesFit, TilesWhileUp, Truthful, proc = "up",
           NextToMove \in AllPages
    PROVE  LET p == NextToMove
           IN  Merged(<<MapOfPage(TRUE, p), MapOfPage(TRUE, pages[p].real)>>).table # Aborted
<1> DEFINE p == NextToMove
           home == pages[p].real
           x == MapOfPage(TRUE, p)
           y == MapOfPage(TRUE, home)
           maps == <<x, y>>
<1>1. p \in AllPages
  OBVIOUS
<1>2. /\ Tiles(table) /\ prot \in [Frames -> BOOLEAN] /\ Agrees(table, prot) /\ Even(prot)
  BY DEF TilesWhileUp, Truthful
<1>3. p # home
  BY NextIsDisplaced
<1> HIDE DEF p
<1>4. home \in AllPages /\ home <= p
  BY <1>1 DEF HeapInv, PagesHaveHomes, HomesFirst
<1> HIDE DEF home
<1>5. x \in Requests /\ y \in Requests /\ x.start = p /\ y.start = home
  BY <1>1, <1>4, PageMaps DEF MapOfPage
<1>6. /\ Uniform(prot, x) /\ x.w = TRUE /\ \A h : In(h, x) <=> Covers(p, h)
      /\ Uniform(prot, y) /\ y.w = TRUE /\ \A h : In(h, y) <=> Covers(home, h)
  BY <1>1, <1>2, <1>4, PageIsUniform
<1>7. \A h \in Frames : ~ (In(h, x) /\ In(h, y))
  <2>1. Frames \subseteq Nat
    BY NumFramesAssumption DEF Frames
  <2> QED BY <1>1, <1>3, <1>4, <1>6, <2>1, OneCovers
<1>8. EndOf(x) # y.start
  <2> HIDE DEF x, y
  <2>1. p < EndOf(x) /\ p \in Nat /\ home \in Nat /\ EndOf(x) \in Nat
    BY <1>5, RequestFacts
  <2> QED BY <1>4, <1>5, <2>1
<1> HIDE DEF x, y
<1>9. Longer(Coalesce(maps), <<x>>, y)
  <2>1. Coalesce(maps) = Join(<<x>>, y)
    BY <1>5, CoalesceTwo
  <2>2. <<x>> \in Seq(Requests) /\ Len(<<x>>) = 1 /\ <<x>>[1] = x
    BY <1>5
  <2>3. AllFor(TRUE, <<x>>)
    BY <1>6, <2>2 DEF AllFor
  <2>4. Extended(Join(<<x>>, y), <<x>>, y) \/ Longer(Join(<<x>>, y), <<x>>, y)
    BY <1>5, <1>6, <2>3, Joined
  <2>5. ~Extended(Join(<<x>>, y), <<x>>, y)
    BY <1>8, <2>2 DEF Extended
  <2> QED BY <2>1, <2>4, <2>5
<1>10. /\ maps \in Seq(Requests) /\ Len(maps) = 2 /\ maps[1] = x /\ maps[2] = y
       /\ maps # <<>> /\ \A k \in 1 .. 2 : k = 1 \/ k = 2
  BY <1>5
<1> HIDE DEF maps
<1>11. AllFor(TRUE, maps)
  BY <1>6, <1>10 DEF AllFor
<1>12. Apart(maps)
  BY <1>7, <1>10 DEF Apart
<1>13. \A k \in 1 .. Len(Coalesce(maps)) : Uniform(prot, Coalesce(maps)[k])
  <2>1. Len(<<x>>) = 1 /\ <<x>>[1] = x
    OBVIOUS
  <2>2. Len(Coalesce(maps)) = 2 /\ Coalesce(maps)[1] = x /\ Coalesce(maps)[2] = y
    BY <1>9, <2>1 DEF Longer
  <2> QED BY <1>6, <1>10, <2>2
<1>14. Merged(maps).table # Aborted
  BY <1>2, <1>10, <1>11, <1>12, <1>13, TableGrants DEF Merged
<1> QED BY <1>14 DEF maps, x, y, home, p

\* pages_up_to_gen lists pages.
LEMMA ListedArePages ==
    ASSUME HeapInv, GensInOrder, HeldOnce, gens[root] # Null, NEW g
    PROVE  /\ DOMAIN PagesUpToGen(g) \in SUBSET Nat
           /\ \A k \in DOMAIN PagesUpToGen(g) : PagesUpToGen(g)[k] \in AllPages
<1> DEFINE met  == PagesIn(gens, root, g)
           list == PagesUpToGen(g)
<1>1. Closed(gens) /\ AllPages \in SUBSET Frames /\ gens[root] # Null
  BY ClosedNow DEF AllPages
<1>2. met \in Seq(Nat) /\ ToSet(met) \subseteq AllPages
  BY <1>1, MetArePages DEF GensInOrder, HeldOnce
<1>3. list = ListOf(met, pages)
  BY <1>2 DEF PagesUpToGen, SameReal, ListOf, Firsts, Others
<1> HIDE DEF met, list
<1>4. DOMAIN list = Firsts(met, pages) /\ DOMAIN list \subseteq DOMAIN met
  BY <1>3 DEF ListOf, Firsts
<1>5. Len(met) \in Nat /\ DOMAIN met = 1 .. Len(met)
  BY <1>2, LenProperties
<1>6. ASSUME NEW k \in DOMAIN list PROVE list[k] \in AllPages
  <2>1. k \in Others(met, pages, k) /\ Others(met, pages, k) \in SUBSET (1 .. Len(met))
    BY <1>4, <1>5 DEF Others
  <2>2. Max(Others(met, pages, k)) \in DOMAIN met
    BY <1>5, <2>1, MaxIsOne
  <2>3. list[k] = met[Max(Others(met, pages, k))]
    BY <1>3, <1>4 DEF ListOf
  <2> QED BY <1>2, <2>2, <2>3 DEF ToSet
<1> QED BY <1>4, <1>5, <1>6 DEF list

\* What snap_checkout lists are pages that a walk meets.
LEMMA NextIsPage ==
    ASSUME HeapInv, GensInOrder, HeldOnce, gens[root] # Null, NextToMove # Null
    PROVE  NextToMove \in AllPages
<1> DEFINE g      == gens[target].gen
           list   == PagesUpToGen(g)
           toMove == {k \in DOMAIN list : Displaced(list[k])}
<1>1. NextToMove = IF toMove = {} THEN Null ELSE list[Min(toMove)]
  BY DEF NextToMove, FirstThat
<1>2. DOMAIN list \in SUBSET Nat /\ \A k \in DOMAIN list : list[k] \in AllPages
  BY ListedArePages
<1> HIDE DEF list
<1>3. toMove # {} /\ NextToMove = list[Min(toMove)]
  BY <1>1
<1>4. Min(toMove) \in toMove
  <2>1. toMove \in SUBSET Nat
    BY <1>2
  <2> HIDE DEF toMove
  <2> QED BY <1>3, <2>1, MinIsOne
<1> QED BY <1>2, <1>3, <1>4

\* A checkout never gives up: no assert of page_swap or of merge_in_map fails.
LEMMA CheckoutGoesOn ==
    ASSUME HeapInv, GensInOrder, HeldOnce, NothingLost, InTree, HomesFirst, PagesFit, TilesWhileUp,
           Truthful, CheckoutSwap \/ CheckoutFails
    PROVE  proc' = "up"
<1>1. proc = "up" /\ target # Null
  BY DEF CheckoutSwap, CheckoutFails
<1>2. gens[root] # Null
  BY <1>1 DEF HeapInv, TypeOK
<1>3. CASE CheckoutFails
  <2>1. NextToMove \in AllPages
    BY <1>2, <1>3, NextIsPage DEF CheckoutFails
  <2>2. pages[NextToMove].real \in AllPages
    BY <2>1 DEF HeapInv, PagesHaveHomes
  <2>3. HasParent(pages[NextToMove].real)
    BY <1>2, <2>2, AllAreMet DEF HasParent
  <2> QED BY <1>3, <2>3 DEF CheckoutFails
<1>4. CASE CheckoutSwap
  <2>1. NextToMove \in AllPages
    BY <1>4 DEF CheckoutSwap
  <2>2. Merged(<<MapOfPage(TRUE, NextToMove), MapOfPage(TRUE, pages[NextToMove].real)>>).table # Aborted
    BY <1>1, <2>1, SwapIsGranted
  <2> QED BY <1>4, <2>2 DEF CheckoutSwap, MergeMaps
<1> QED BY <1>3, <1>4

\* A transaction that begins with nothing protected: whatever is asked for is
\* granted, and there is a page to ask for.
LEMMA BeginIsGranted ==
    ASSUME HeapInv, PagesFit, TilesWhileUp, Truthful, AllWritable, \A p \in AllPages : pages[p].committed,
           HeapInv', GensInOrder', HeldOnce', InTree', NothingLost', BeginMut
    PROVE  proc' = "up"
<1> DEFINE new  == gens'
           maps == ReadOnlyMaps(new)
           met  == PagesIn(new, root, MaxGen)
           home == pages[lastPage].real
<1>1. /\ MergeMaps(maps) /\ proc = "up" /\ AllPages' = AllPages
      /\ pages' = pages /\ lastPage' = lastPage /\ committed' = committed /\ committed # Null
  BY DEF BeginMut, AllPages
<1>2. Closed(new) /\ new[root] # Null
  <2>1. Closed(new)
    BY ClosedNext
  <2> QED BY <1>1, <2>1 DEF HeapInv, TypeOK
<1>3. InOrder(new, lastGen', lastGenIndex') /\ Form(new, AllPages) /\ AllPages \in SUBSET Frames
  BY <1>1 DEF GensInOrder, HeldOnce, AllPages
<1>4. met \in Seq(Nat) /\ ToSet(met) \subseteq AllPages
  BY <1>2, <1>3, MetArePages
<1>5. IsInjective(met)
  BY <1>2, <1>3, MetOnce
<1>6. home \in ToSet(met) /\ home \in AllPages /\ pages[home].committed /\ pages[home].real = home
  <2>1. lastPage \in AllPages
    BY <1>1, <1>2 DEF HeapInv, TypeOK
  <2>2. home \in AllPages /\ pages[home].real = home /\ pages[home].committed
    BY <2>1 DEF HeapInv, PagesHaveHomes
  <2> HIDE DEF home
  <2>3. PICK i \in Made(new) : PageRef(home) \in Children(new, i)
    BY <1>1, <2>2 DEF NothingLost, Whole
  <2>4. new[i].c # <<>>
    BY <2>3 DEF Children, ToSet
  <2>5. Reached(new, i)
    BY <2>3, <2>4 DEF InTree, Rooted
  <2>6. home \in ToSet(met)
    BY <1>2, <1>3, <2>2, <2>3, <2>5, ReachedAreMet
  <2> QED BY <2>2, <2>6
<1> HIDE DEF new
<1>7. \A p \in ToSet(met) : MapOfPage(FALSE, p) \in Requests
  BY <1>4, PageMaps
<1>8. \A p, q \in ToSet(met) : \A f \in Frames : Covers(p, f) /\ Covers(q, f) => p = q
  <2>1. Frames \subseteq Nat
    BY NumFramesAssumption DEF Frames
  <2> QED BY <1>4, <2>1, OneCovers
<1>9. /\ AllFor(FALSE, maps) /\ Apart(maps)
      /\ \A f \in Frames : Names(maps, f) <=>
            \E p \in ToSet(met) : pages[p].committed /\ pages[p].real = p /\ Covers(p, f)
  BY <1>4, <1>5, <1>7, <1>8, ReadOnlyExactly
<1> HIDE DEF maps, met
<1>10. maps # <<>>
  <2> HIDE DEF home
  <2>1. home \in Frames /\ Covers(home, home)
    BY <1>6, HeapFacts, NumFramesAssumption DEF Covers, Frames, Page
  <2>2. Names(maps, home)
    BY <1>6, <1>9, <2>1
  <2> QED BY <2>2 DEF Names
<1> DEFINE c == Coalesce(maps)
<1>11. AllFor(FALSE, c)
  BY <1>9, CoalesceCovers
<1> HIDE DEF c
<1>12. \A k \in 1 .. Len(c) : Uniform(prot, c[k])
  BY <1>1 DEF Uniform, AllWritable, Truthful
<1>13. Tiles(table) /\ prot \in [Frames -> BOOLEAN] /\ Agrees(table, prot)
  BY <1>1 DEF TilesWhileUp, Truthful
<1>14. Merged(maps).table # Aborted
  BY <1>9, <1>10, <1>12, <1>13, TableGrants DEF Merged, c
<1> QED BY <1>1, <1>14 DEF MergeMaps

\* A file that is left with an interpreter that was never committed: what
\* Interrupted has, or a process killed in the first commit.
Halted == Interrupted \/ (KillInCommit /\ pc = "commit-init")

\* Where there is an interpreter there is a committed generation.
Based == userPtr /\ pc # "commit-init" => committed # Null

LEMMA BasedStep ==
    ASSUME HeapInv, Settled, Fresh, Running, Founded, Based, [EvalerNext]_vars, ~Halted
    PROVE  Based'
<1>1. ASSUME pc # "commit-init", userPtr' = userPtr, committed' = committed PROVE Based'
  BY <1>1 DEF Based
<1>2. CASE Start
  <2>1. pc = "off" /\ userPtr' = userPtr
    BY <1>2 DEF Start
  <2>2. CASE userPtr
    <3>1. gens[root] # Null
      BY <2>1, <2>2 DEF Based, HeapInv, TypeOK
    <3>2. committed' = committed
      BY <1>2, <3>1 DEF Start, SnapInit, CreateDb, NewDb, OpenDb
    <3> QED BY <1>1, <2>1, <3>2
  <2> QED BY <2>1, <2>2 DEF Based
<1>3. CASE InitAlloc
  <2>1. pc = "init" /\ userPtr' = userPtr /\ committed' = committed
    BY <1>3 DEF InitAlloc, Malloc, MallocFits, MallocGrows
  <2> QED BY <1>1, <2>1
<1>4. CASE InitDone
  BY <1>4 DEF InitDone, Based
<1>5. CASE InitCommit
  BY <1>5 DEF InitCommit, Commit, Based
<1>6. CASE CheckoutQuery \/ Undo
  <2>1. pc # "commit-init" /\ userPtr' = userPtr /\ committed' = committed
    BY <1>6 DEF CheckoutQuery, Undo, BeginCheckout, CheckoutSame, CheckoutStart, heapVars, fileVars
  <2> QED BY <1>1, <2>1
<1>7. CASE CheckoutMoves
  <2>1. pc # "commit-init" /\ userPtr' = userPtr /\ committed' = committed
    BY <1>7 DEF CheckoutMoves, CheckoutSwap, CheckoutFails, fileVars
  <2> QED BY <1>1, <2>1
<1>8. CASE CheckoutDone
  BY <1>8 DEF CheckoutDone, CheckoutEnd, Based
<1>9. CASE Begin \/ BeginCrashes
  <2>1. pc # "commit-init" /\ userPtr' = userPtr /\ committed' = committed
    BY <1>9 DEF Begin, BeginMut, BeginCrashes, NullDeref, fileVars
  <2> QED BY <1>1, <2>1
<1>10. CASE EvalWrite
  <2>1. pc # "commit-init" /\ userPtr' = userPtr
    BY <1>10 DEF EvalWrite
  <2>2. committed' = committed
    BY <1>10 DEF EvalWrite, Write, PlainWrite, TrappedWrite, TrapFails, fileVars
  <2> QED BY <1>1, <2>1, <2>2
<1>11. CASE EvalAlloc
  <2>1. pc # "commit-init" /\ userPtr' = userPtr /\ committed' = committed
    BY <1>11 DEF EvalAlloc, Malloc, MallocFits, MallocGrows
  <2> QED BY <1>1, <2>1
<1>12. ASSUME NEW outcome, CommitQuery(outcome) PROVE Based'
  BY <1>12 DEF CommitQuery, Commit, Based
<1>13. CASE Leave \/ LeaveUncommitted
  <2>1. pc # "commit-init" /\ userPtr' = userPtr /\ committed' = committed
    BY <1>13 DEF Leave, LeaveUncommitted, Exit, fileVars
  <2> QED BY <1>1, <2>1
<1>14. CASE Kill
  <2>1. pc # "commit-init" /\ userPtr' = userPtr /\ committed' = committed
    BY <1>14 DEF Halted, Interrupted, Kill, DriverGone, Exit, fileVars
  <2> QED BY <1>1, <2>1
<1>15. CASE KillInCommit
  <2>1. pc # "commit-init" /\ userPtr' = userPtr /\ committed' = committed
    BY <1>15 DEF Halted, KillInCommit, DriverGone, CommitDies
  <2> QED BY <1>1, <2>1
<1>16. CASE UNCHANGED vars
  BY <1>16 DEF vars, heapVars, fileVars, Based
<1> QED BY <1>2, <1>3, <1>4, <1>5, <1>6, <1>7, <1>8, <1>9, <1>10, <1>11, <1>12, <1>13, <1>14,
           <1>15, <1>16, NeverWithout DEF EvalerNext, Halted, Interrupted, KillInside

\* Whatever the driver does but begin a transaction.
LEMMA GoesOn ==
    ASSUME Ground, Mapped, Truthful, Settled, AtHome, Smooth, HomesFirst, Based,
           [EvalerNext]_vars, ~Halted, ~BeginMut, NoAbort
    PROVE  NoAbort'
<1>0. HeapInv /\ GensInOrder /\ HeldOnce
  BY DEF Ground
<1>1. ASSUME proc' \in {proc, "up", "down"} PROVE NoAbort'
  BY <1>1 DEF NoAbort
<1>2. CASE Start \/ InitDone \/ InitCommit
  BY <1>1, <1>2 DEF Start, SnapInit, CreateDb, OpenDb, InitDone, InitCommit, Commit, heapVars
<1>3. CASE InitAlloc \/ EvalAlloc
  BY <1>1, <1>3 DEF InitAlloc, EvalAlloc, Malloc, MallocFits, MallocGrows
<1>4. CASE CheckoutQuery \/ Undo
  BY <1>1, <1>4 DEF CheckoutQuery, Undo, BeginCheckout, CheckoutSame, CheckoutStart, heapVars
<1>5. CASE CheckoutMoves
  BY <1>0, <1>1, <1>5, CheckoutGoesOn DEF CheckoutMoves, Mapped, Smooth
<1>6. CASE CheckoutDone
  BY <1>1, <1>6 DEF CheckoutDone, CheckoutEnd
<1>7. ~Begin /\ ~BeginCrashes
  <2>1. pc = "ready" => committed # Null
    BY DEF Based, Settled
  <2> QED BY <2>1 DEF Begin, BeginCrashes, NullDeref
<1>8. CASE EvalWrite
  BY <1>0, <1>1, <1>8, StoresGoThrough DEF Mapped, Smooth, AtHome
<1>9. ASSUME NEW outcome, CommitQuery(outcome) PROVE NoAbort'
  BY <1>1, <1>9 DEF CommitQuery, Commit
<1>10. CASE Leave \/ LeaveUncommitted \/ Kill
  BY <1>1, <1>10 DEF Leave, LeaveUncommitted, Kill, Exit, Gone
<1>11. CASE KillInCommit
  BY <1>1, <1>11 DEF KillInCommit, CommitDies, Gone
<1>12. CASE UNCHANGED vars
  BY <1>1, <1>12 DEF vars, heapVars
<1> QED BY <1>2, <1>3, <1>4, <1>5, <1>6, <1>7, <1>8, <1>9, <1>10, <1>11, <1>12, NeverWithout
        DEF EvalerNext, Halted, Interrupted, KillInside, AtHome, Smooth

\* A query of -e finds its pages committed and nothing protected.
LEMMA QueryBegins ==
    ASSUME Ground, Ground', Mapped, Mapped', Settled, Smooth, Smooth', OneQuery, ~Server,
           [EvalerNext]_vars, BeginMut
    PROVE  proc' = "up"
<1>1. HeapInv /\ HeapInv' /\ GensInOrder' /\ HeldOnce'
  BY DEF Ground
<1>2. Begin
  BY <1>1, OnlyBegin
<1>3. Truthful /\ AllWritable
  BY <1>2 DEF OneQuery, Clean, Begin
<1>4. \A p \in AllPages : pages[p].committed
  BY <1>2 DEF Begin, Smooth, Flagged
<1>5. PagesFit /\ TilesWhileUp /\ InTree' /\ NothingLost'
  BY DEF Mapped, Smooth
<1> QED BY <1>1, <1>3, <1>4, <1>5, BeginIsGranted

LEMMA BasedHolds ==
    EvalerSpec /\ []Truthful /\ [][~Halted]_vars => [](Smooth /\ Based /\ HomesFirst)
<1>1. EvalerInit => Based /\ HomesFirst
  <2> HAVE EvalerInit
  <2>1. Init /\ ~userPtr
    BY DEF EvalerInit
  <2>2. AllPages = {}
    BY <2>1 DEF Init, AllPages
  <2> QED BY <2>1, <2>2 DEF Based, HomesFirst
<1>2. [~Halted]_vars => [~Interrupted]_vars
  BY DEF Halted
<1>3. Ground /\ Settled /\ AtHome /\ Smooth /\ Based /\ [EvalerNext]_vars /\ [~Halted]_vars => Based'
  <2> SUFFICES ASSUME Ground, Settled, AtHome, Smooth, Based, [EvalerNext]_vars, [~Halted]_vars
               PROVE  Based'
    OBVIOUS
  <2>1. CASE ~Halted
    BY <2>1, BasedStep DEF Ground, AtHome, Smooth
  <2>2. CASE UNCHANGED vars
    BY <2>2 DEF vars, heapVars, fileVars, Based
  <2> QED BY <2>1, <2>2
<1>4. Ground /\ Ground' /\ HomesFirst /\ [Next]_heapVars => HomesFirst'
  BY HomesFirstStep DEF Ground
<1>5. EvalerSpec => [][Next]_heapVars
  BY EvalerUsesHeap, PTL DEF Spec
<1> QED BY <1>1, <1>2, <1>3, <1>4, <1>5, SmoothHolds, GroundHolds, SettledHolds, AtHomeHolds, PTL
        DEF EvalerSpec

\* While the table tells the truth and nothing uncommitted is left behind no step
\* ends in a failed assert, a null pointer or a fault that is not trapped, but the
\* merge with which a transaction starts.
LEMMA OnlyBeginAborts ==
    EvalerSpec /\ []Truthful /\ [][~Halted]_vars => [][NoAbort /\ ~BeginMut => NoAbort']_vars
<1>1. Ground /\ Mapped /\ Truthful /\ Settled /\ AtHome /\ Smooth /\ Based /\ HomesFirst
         /\ [EvalerNext]_vars /\ [~Halted]_vars => [NoAbort /\ ~BeginMut => NoAbort']_vars
  BY GoesOn
<1> QED BY <1>1, BasedHolds, GroundHolds, MappedHolds, SettledHolds, AtHomeHolds, PTL DEF EvalerSpec

\* No assert of the allocator ends the server but one: neither the search for a
\* page that was hit, nor a checkout's three asserts and its two requests, nor
\* those of an allocation or a commit.  What is left is the request that starts a
\* transaction, which merge_in_map may refuse or get wrong.
THEOREM OnlyBeginMayAbort ==
    EvalerSpec /\ [][BeginsWhole]_heapVars /\ [][~Halted]_vars
        => [][NoAbort /\ ~BeginMut => NoAbort']_vars
<1> QED BY TruthfulHolds, OnlyBeginAborts, PTL

\* With -e no assert fails at all, as long as nothing uncommitted is left behind.
THEOREM NoAbortForOneQuery == EvalerSpec /\ ~Server /\ [][~Halted]_vars => []NoAbort
<1>1. EvalerInit => NoAbort
  BY DEF EvalerInit, Init, NoAbort
<1>2. OneQuery /\ ~Server => Truthful
  BY DEF OneQuery
<1>3. ~Server => ~Server'
  OBVIOUS
<1>4. Ground /\ Ground' /\ Mapped /\ Mapped' /\ Settled /\ Smooth /\ Smooth' /\ OneQuery /\ ~Server
         /\ [EvalerNext]_vars /\ [NoAbort /\ ~BeginMut => NoAbort']_vars /\ NoAbort => NoAbort'
  <2> SUFFICES ASSUME Ground, Ground', Mapped, Mapped', Settled, Smooth, Smooth', OneQuery, ~Server,
                      [EvalerNext]_vars, [NoAbort /\ ~BeginMut => NoAbort']_vars, NoAbort
               PROVE  NoAbort'
    OBVIOUS
  <2>1. CASE BeginMut
    BY <2>1, QueryBegins DEF NoAbort
  <2>2. CASE UNCHANGED vars
    BY <2>2 DEF vars, heapVars, NoAbort
  <2> QED BY <2>1, <2>2
<1> QED BY <1>1, <1>2, <1>3, <1>4, BasedHolds, OnlyBeginAborts, OneQueryHolds, GroundHolds,
           MappedHolds, SettledHolds, PTL DEF EvalerSpec

-----------------------------------------------------------------------------
(***************************************************************************)
(* A version that can be restored                                          *)
(***************************************************************************)

\* Restorable, said of what is listed and of the view.
ListShows(list, ps, snap) ==
    /\ \A k \in DOMAIN list : ps[list[k]].committed
    /\ \A r \in DOMAIN snap :
          \E k \in DOMAIN list :
             /\ ps[list[k]].real = r
             /\ [used |-> ps[list[k]].used, val |-> ps[list[k]].val] = snap[r]
Looked(list, ps) == {Look(ps, p) : p \in Range(list)}
Holds(view, snap) ==
    /\ AllCommitted(view)
    /\ \A r \in DOMAIN snap : \E e \in view : e.real = r /\ e.content = snap[r]
Viewed(g) == Holds(View(g), snaps[g])

LEMMA ListOrView ==
    ASSUME NEW list, NEW ps, NEW snap
    PROVE  Holds(Looked(list, ps), snap) <=> ListShows(list, ps, snap)
<1> DEFINE view == Looked(list, ps)
<1> DEFINE Has(k) == [used |-> ps[list[k]].used, val |-> ps[list[k]].val]
<1>1. \A k \in DOMAIN list : Look(ps, list[k]) \in view
  BY DEF Looked, Range
<1>2. \A e \in view : \E k \in DOMAIN list : e = Look(ps, list[k])
  BY DEF Looked, Range
<1> HIDE DEF view
<1>3. \A k \in DOMAIN list :
         /\ Look(ps, list[k]).real = ps[list[k]].real
         /\ Look(ps, list[k]).content = Has(k)
         /\ Look(ps, list[k]).committed = ps[list[k]].committed
  BY DEF Look
<1>4. AllCommitted(view) <=> \A k \in DOMAIN list : ps[list[k]].committed
  <2>1. ASSUME AllCommitted(view), NEW k \in DOMAIN list PROVE ps[list[k]].committed
    <3>1. Look(ps, list[k]).committed
      BY <1>1, <2>1 DEF AllCommitted
    <3>2. Look(ps, list[k]).committed = ps[list[k]].committed
      BY <1>3
    <3> QED BY <3>1, <3>2, Zenon
  <2>2. ASSUME \A k \in DOMAIN list : ps[list[k]].committed, NEW e \in view PROVE e.committed
    <3>1. PICK k \in DOMAIN list : e = Look(ps, list[k])
      BY <1>2
    <3>2. ps[list[k]].committed /\ e.committed = ps[list[k]].committed
      BY <1>3, <2>2, <3>1
    <3> QED BY <3>2, Zenon
  <2> QED BY <2>1, <2>2 DEF AllCommitted
<1>5. \A r, c : (\E e \in view : e.real = r /\ e.content = c)
                 <=> \E k \in DOMAIN list : ps[list[k]].real = r /\ Has(k) = c
  <2> HIDE DEF Has
  <2> QED BY <1>1, <1>2, <1>3
<1> QED BY <1>4, <1>5 DEF Holds, ListShows, view

LEMMA RestorableIsViewed ==
    ASSUME NEW g
    PROVE  (Restorable(g) <=> Viewed(g)) /\ (Restorable(g)' <=> Viewed(g)')
<1>1. Restorable(g) <=> Viewed(g)
  <2>1. PICK list : list = PagesUpToGen(g)
    OBVIOUS
  <2>2. View(g) = Looked(list, pages)
    BY <2>1 DEF View, Looked, Look, Content
  <2>3. Restorable(g) <=> ListShows(list, pages, snaps[g])
    BY <2>1 DEF Restorable, ListShows, Content
  <2>4. Holds(Looked(list, pages), snaps[g]) <=> ListShows(list, pages, snaps[g])
    BY ListOrView
  <2> QED BY <2>2, <2>3, <2>4 DEF Viewed
<1>2. Restorable(g)' <=> Viewed(g)'
  <2>1. PICK list, ps, snap : list = PagesUpToGen(g)' /\ ps = pages' /\ snap = snaps'[g]
    OBVIOUS
  <2>2. View(g)' = Looked(list, ps)
    BY <2>1 DEF View, Looked, Look, Content
  <2>3. Restorable(g)' <=> ListShows(list, ps, snap)
    BY <2>1 DEF Restorable, ListShows, Content
  <2>4. Holds(Looked(list, ps), snap) <=> ListShows(list, ps, snap)
    BY ListOrView
  <2>5. Viewed(g)' <=> Holds(Looked(list, ps), snap)
    BY <2>1, <2>2 DEF Viewed, Holds, AllCommitted
  <2> QED BY <2>3, <2>4, <2>5
<1> QED BY <1>1, <1>2

\* The interpreter is committed first.
NothingYet == pc = "commit-init" => \A g \in 0 .. MaxGen : ~Committed(g)

\* The steps that commit nothing.
Records == InitCommit \/ \E outcome \in Outcomes \ {"nothing"} : CommitQuery(outcome)

LEMMA OnlyCommitsRecord ==
    ASSUME [EvalerNext]_vars, ~Records
    PROVE  snaps' = snaps /\ ancestors' = ancestors
<1>1. CASE UNCHANGED vars
  BY <1>1 DEF vars, historyVars
<1>2. CASE \/ Start \/ InitAlloc \/ InitAborts \/ InitDone \/ InitCommitCrashes
           \/ CheckoutQuery \/ CheckoutMoves \/ CheckoutDone \/ Undo
  BY <1>2 DEF Start, InitAlloc, InitAborts, InitDone, InitCommitCrashes, CheckoutQuery,
        CheckoutMoves, CheckoutDone, Undo, BeginCheckout, historyVars
<1>3. CASE \/ Begin \/ BeginCrashes \/ EvalWrite \/ EvalAlloc \/ EvalAborts
           \/ Leave \/ LeaveUncommitted
  BY <1>3 DEF Begin, BeginCrashes, EvalWrite, EvalAlloc, EvalAborts, Leave, LeaveUncommitted,
        historyVars
<1>4. CASE Kill \/ KillInTrap \/ KillInMalloc \/ KillInBegin \/ KillInCommit \/ MemGraph
  BY <1>4 DEF Kill, KillInTrap, KillInMalloc, KillInBegin, KillInCommit, MemGraph, DriverGone
<1> QED BY <1>1, <1>2, <1>3, <1>4 DEF EvalerNext, Records

LEMMA NothingYetHolds == EvalerSpec => []NothingYet
<1>1. EvalerInit => NothingYet
  BY DEF EvalerInit, NothingYet
<1>2. Settled /\ NothingYet /\ [EvalerNext]_vars => NothingYet'
  <2> SUFFICES ASSUME Settled, NothingYet, [EvalerNext]_vars, pc' = "commit-init"
               PROVE  snaps' = snaps /\ \A g \in 0 .. MaxGen : ~Committed(g)
    BY DEF NothingYet, Committed
  <2>1. CASE InitDone
    <3>1. ~userPtr
      BY <2>1 DEF InitDone, Settled
    <3> QED BY <2>1, <3>1 DEF InitDone, historyVars, Settled
  <2>2. CASE ~InitDone
    <3>1. ~Records
      BY DEF Records, InitCommit, CommitQuery
    <3>2. pc = "commit-init"
      <4>1. CASE UNCHANGED vars
        BY <4>1 DEF vars
      <4>2. CASE \/ Start \/ InitAlloc \/ InitAborts \/ InitCommitCrashes
                 \/ CheckoutQuery \/ CheckoutMoves \/ CheckoutDone \/ Undo
        BY <4>2 DEF Start, InitAlloc, InitAborts, InitCommitCrashes, CheckoutQuery,
              CheckoutMoves, CheckoutDone, Undo, BeginCheckout, Settled
      <4>3. CASE \/ Begin \/ BeginCrashes \/ EvalWrite \/ EvalAlloc \/ EvalAborts
                 \/ Leave \/ LeaveUncommitted
        BY <4>3 DEF Begin, BeginCrashes, EvalWrite, EvalAlloc, EvalAborts, Leave, LeaveUncommitted
      <4>4. CASE Kill \/ KillInTrap \/ KillInMalloc \/ KillInBegin \/ KillInCommit \/ MemGraph
        BY <4>4 DEF Kill, KillInTrap, KillInMalloc, KillInBegin, KillInCommit, MemGraph, DriverGone
      <4> QED BY <2>2, <3>1, <4>1, <4>2, <4>3, <4>4 DEF EvalerNext, Records
    <3> QED BY <3>1, <3>2, OnlyCommitsRecord DEF NothingYet
  <2> QED BY <2>1, <2>2
<1> QED BY <1>1, <1>2, SettledHolds, PTL DEF EvalerSpec

\* What was committed under a number is never replaced: a transaction's number is
\* above that of every version, and the driver commits its interpreter once.
LEMMA SnapKept ==
    ASSUME Ground, Settled, NothingYet, [EvalerNext]_vars, NEW g \in 0 .. MaxGen, Committed(g)
    PROVE  snaps'[g] = snaps[g]
<1>1. ~InitCommit
  BY DEF NothingYet, InitCommit
<1>2. ASSUME NEW outcome, CommitQuery(outcome), working # committed PROVE snaps'[g] = snaps[g]
  <2>1. gens[working].gen = lastGenIndex /\ ~Committed(lastGenIndex)
    BY <1>2 DEF CommitQuery, Settled
  <2>2. snaps' = [snaps EXCEPT ![gens[working].gen] = Image]
    BY <1>2 DEF CommitQuery, Record
  <2> QED BY <2>1, <2>2
<1>3. ASSUME NEW outcome, CommitQuery(outcome), working = committed PROVE snaps'[g] = snaps[g]
  <2>1. UNCHANGED <<snaps, ancestors>>
    BY <1>3 DEF CommitQuery
  <2> QED BY <2>1
<1> QED BY <1>1, <1>2, <1>3, OnlyCommitsRecord DEF Records

LEMMA RestorableStep ==
    ASSUME Ground, Ground', Settled, NothingYet, CommittedAreProtected, [EvalerNext]_vars,
           NEW g \in 0 .. MaxGen, Committed(g), Restorable(g)
    PROVE  Committed(g)' /\ Restorable(g)'
<1>0. Viewed(g)
  BY RestorableIsViewed
<1>1. snaps'[g] = snaps[g]
  BY SnapKept
<1>2. View(g)' = View(g)
  <2>1. CASE UNCHANGED <<gens, pages>>
    <3>1. Closed(gens) /\ gens[root] # Null /\ AllCommitted(View(g))
      BY <1>0, ClosedNow DEF Ground, Settled, Viewed, Holds
    <3>2. gens' = gens /\ pages' = pages
      BY <2>1
    <3>3. PagesIn(gens', root, g) = PagesIn(gens, root, g)
      BY <3>2
    <3>4. \A q \in ToSet(PagesIn(gens, root, g)) :
             /\ pages'[q].real = pages[q].real
             /\ pages[q].committed => Look(pages', q) = Look(pages, q)
      BY <3>2
    <3> QED BY <3>1, <3>3, <3>4, ViewStays
  <2>2. CASE ~UNCHANGED <<gens, pages>>
    <3>1. Kept(g)
      BY <2>2, KeptStep DEF Ground
    <3> QED BY <1>0, <3>1 DEF Kept, Viewed, Holds
  <2> QED BY <2>1, <2>2
<1>3. Viewed(g)'
  BY <1>0, <1>1, <1>2 DEF Viewed, Holds, AllCommitted
<1> QED BY <1>1, <1>3, RestorableIsViewed DEF Committed

\* A committed version that can be restored, with all that was in it, can be
\* restored for ever, whatever is done to the file: written, allocated, rolled
\* back, split, killed in the middle of.
THEOREM RestorableForEver ==
    ASSUME NEW g \in 0 .. MaxGen
    PROVE  EvalerSpec /\ []CommittedAreProtected =>
              [](Committed(g) /\ Restorable(g) => [](Committed(g) /\ Restorable(g)))
<1>1. Ground /\ Ground' /\ Settled /\ NothingYet /\ CommittedAreProtected /\ [EvalerNext]_vars
         /\ Committed(g) /\ Restorable(g) => Committed(g)' /\ Restorable(g)'
  BY RestorableStep
<1> QED BY <1>1, GroundHolds, SettledHolds, NothingYetHolds, PTL DEF EvalerSpec

\* With -e that is so with nothing assumed.
THEOREM RestorableForEverForOneQuery ==
    ASSUME NEW g \in 0 .. MaxGen
    PROVE  EvalerSpec /\ ~Server =>
              [](Committed(g) /\ Restorable(g) => [](Committed(g) /\ Restorable(g)))
<1> QED BY RestorableForEver, ProtectedForOneQuery, PTL

-----------------------------------------------------------------------------
\* A version that is not built on all the others is never built on them later.
LEMMA ChainKept ==
    ASSUME Ground, Settled, NothingYet, [EvalerNext]_vars, NEW g \in 0 .. MaxGen, Committed(g),
           OnChain(g)'
    PROVE  OnChain(g)
<1>1. ancestors'[g] = ancestors[g]
  <2>1. ~InitCommit
    BY DEF NothingYet, InitCommit
  <2>2. ASSUME NEW outcome, CommitQuery(outcome), working # committed PROVE ancestors'[g] = ancestors[g]
    <3>1. gens[working].gen = lastGenIndex /\ ~Committed(lastGenIndex)
      BY <2>2 DEF CommitQuery, Settled
    <3>2. \E from : ancestors' = [ancestors EXCEPT ![gens[working].gen] = from]
      BY <2>2 DEF CommitQuery, Record
    <3> QED BY <3>1, <3>2
  <2>3. ASSUME NEW outcome, CommitQuery(outcome), working = committed PROVE ancestors'[g] = ancestors[g]
    <3>1. UNCHANGED <<snaps, ancestors>>
      BY <2>3 DEF CommitQuery
    <3> QED BY <3>1
  <2>4. ~Records => ancestors' = ancestors
    BY OnlyCommitsRecord
  <2> QED BY <2>1, <2>2, <2>3, <2>4 DEF Records
<1>2. \A h \in 0 .. MaxGen : Committed(h) => Committed(h)'
  BY SnapKept DEF Committed
<1>3. 0 .. g - 1 \subseteq 0 .. MaxGen
  BY SnapAssumption
<1> QED BY <1>1, <1>2, <1>3 DEF OnChain

\* A version can be restored when it is committed.
CommitsRestorable ==
    \A g \in 0 .. MaxGen : ~Committed(g) /\ Committed(g)' /\ OnChain(g)' => Restorable(g)'

LEMMA VersionsStep ==
    ASSUME Ground, Ground', Settled, NothingYet, CommittedAreProtected, [EvalerNext]_vars,
           CommitsRestorable, RestorableVersions
    PROVE  RestorableVersions'
<1> SUFFICES ASSUME NEW g \in 0 .. MaxGen, Committed(g)', OnChain(g)' PROVE Restorable(g)'
  BY DEF RestorableVersions
<1>1. CASE Committed(g)
  <2>1. OnChain(g)
    BY <1>1, ChainKept
  <2>2. Restorable(g)
    BY <1>1, <2>1 DEF RestorableVersions
  <2> QED BY <1>1, <2>2, RestorableStep
<1>2. CASE ~Committed(g)
  BY <1>2 DEF CommitsRestorable
<1> QED BY <1>1, <1>2

\* So no version is lost later that was not lost at once: that every version all
\* the later ones are built on can be restored, always, follows from its being so
\* for each at the one step that commits it.
THEOREM LostAtOnceOrNever ==
    EvalerSpec /\ []CommittedAreProtected /\ [][CommitsRestorable]_vars => []RestorableVersions
<1>1. EvalerInit => RestorableVersions
  BY DEF EvalerInit, RestorableVersions, Committed
<1>2. Ground /\ Ground' /\ Settled /\ NothingYet /\ CommittedAreProtected /\ [EvalerNext]_vars
         /\ [CommitsRestorable]_vars /\ RestorableVersions => RestorableVersions'
  <2> SUFFICES ASSUME Ground, Ground', Settled, NothingYet, CommittedAreProtected,
                      [EvalerNext]_vars, [CommitsRestorable]_vars, RestorableVersions
               PROVE  RestorableVersions'
    OBVIOUS
  <2>1. UNCHANGED vars => CommitsRestorable
    BY DEF vars, historyVars, CommitsRestorable, Committed
  <2> QED BY <2>1, VersionsStep
<1> QED BY <1>1, <1>2, GroundHolds, SettledHolds, NothingYetHolds, PTL DEF EvalerSpec

-----------------------------------------------------------------------------
(***************************************************************************)
(* Isolation and rollback, from what can be restored                       *)
(***************************************************************************)

\* When snap_checkout finds no page to move, all it lists are at home.
LEMMA NoneDisplaced ==
    ASSUME HeapInv, GensInOrder, HeldOnce, gens[root] # Null, NextToMove = Null
    PROVE  LET list == PagesUpToGen(gens[target].gen)
           IN  \A k \in DOMAIN list : pages[list[k]].real = list[k]
<1> DEFINE list   == PagesUpToGen(gens[target].gen)
           toMove == {k \in DOMAIN list : Displaced(list[k])}
<1>1. NextToMove = IF toMove = {} THEN Null ELSE list[Min(toMove)]
  BY DEF NextToMove, FirstThat
<1>2. DOMAIN list \in SUBSET Nat /\ \A k \in DOMAIN list : list[k] \in AllPages
  BY ListedArePages
<1> HIDE DEF list
<1>3. ASSUME toMove # {} PROVE FALSE
  <2>1. toMove \in SUBSET Nat
    BY <1>2
  <2>2. Min(toMove) \in toMove
    <3> HIDE DEF toMove
    <3> QED BY <1>3, <2>1, MinIsOne
  <2>3. list[Min(toMove)] \in Nat
    <3>1. Min(toMove) \in DOMAIN list
      BY <2>2
    <3> HIDE DEF toMove
    <3>2. list[Min(toMove)] \in Frames
      BY <1>2, <3>1 DEF AllPages
    <3> QED BY <3>2, SnapAssumption DEF Frames
  <2> HIDE DEF toMove
  <2> QED BY <1>1, <1>3, <2>3, NullAssumption
<1> QED BY <1>3 DEF Displaced, list

\* A checkout that is over shows the version it was asked for.
LEMMA CheckoutShows ==
    ASSUME HeapInv, GensInOrder, HeldOnce, gens[root] # Null, target # Null, NextToMove = Null,
           RestorableVersions, gens[target].gen \in 0 .. MaxGen,
           Committed(gens[target].gen), OnChain(gens[target].gen),
           NEW r \in DOMAIN snaps[gens[target].gen]
    PROVE  Content(r) = snaps[gens[target].gen][r]
<1> DEFINE g    == gens[target].gen
           list == PagesUpToGen(g)
<1>1. PICK k \in DOMAIN list : pages[list[k]].real = r /\ Content(list[k]) = snaps[g][r]
  BY DEF RestorableVersions, Restorable
<1>2. pages[list[k]].real = list[k]
  BY NoneDisplaced
<1> QED BY <1>1, <1>2

\* What the driver has checked out is what the program sees, but while a query is
\* writing to it.
Shows == /\ target = Null /\ committed # Null /\ Committed(gens[committed].gen)
         /\ pc = "eval" => ops = 0
         => Image = snaps[gens[committed].gen]

\* A checkout under way is of a version that later ones are built on.
Headed == target # Null => pc = "moving" /\ OnChain(gens[target].gen)

\* A version is the memory at the pages it had.
Images == \A g \in 0 .. MaxGen : Committed(g) => snaps[g] = [r \in DOMAIN snaps[g] |-> snaps[g][r]]

Isolated == ops \in Nat /\ (tainted \/ (Running /\ Headed /\ Shows))

LEMMA ImagesStep == Images /\ Settled /\ [EvalerNext]_vars => Images'
<1> SUFFICES ASSUME Images, Settled, [EvalerNext]_vars PROVE Images'
  OBVIOUS
<1>1. CASE UNCHANGED snaps
  BY <1>1 DEF Images, Committed
<1>2. ASSUME NEW h, NEW from, Record(h, from) PROVE Images'
  <2>1. snaps' = [snaps EXCEPT ![h] = Image] /\ DOMAIN snaps = 0 .. MaxGen
    BY <1>2 DEF Record, Settled
  <2>2. ASSUME NEW g \in 0 .. MaxGen, Committed(g)' 
        PROVE  snaps'[g] = [r \in DOMAIN snaps'[g] |-> snaps'[g][r]]
    <3>1. CASE g = h
      <4>1. snaps'[g] = Image
        BY <2>1, <3>1
      <4> QED BY <4>1 DEF Image
    <3>2. CASE g # h
      <4>1. snaps'[g] = snaps[g]
        BY <2>1, <3>2
      <4> QED BY <2>2, <4>1 DEF Images, Committed
    <3> QED BY <3>1, <3>2
  <2> QED BY <2>2 DEF Images
<1>3. CASE Records
  <2>1. CASE InitCommit
    BY <1>2, <2>1 DEF InitCommit
  <2>2. ASSUME NEW outcome, CommitQuery(outcome) PROVE Images'
    BY <1>1, <1>2, <2>2 DEF CommitQuery
  <2> QED BY <1>3, <2>1, <2>2 DEF Records
<1> QED BY <1>1, <1>3, OnlyCommitsRecord

\* Whatever changes no page and no version.
LEMMA ShowsStill ==
    ASSUME HeapInv, GensInOrder, HeldOnce, [Next]_heapVars, Shows,
           UNCHANGED <<pages, lineage, snaps, committed>>, target = Null,
           pc = "eval" => ops = 0
    PROVE  Shows'
<1>1. committed # Null => gens'[committed].gen = gens[committed].gen
  BY IdsStep DEF SameIds, AllGens, HeapInv, TypeOK
<1>2. Image' = Image
  BY DEF Image, Content
<1> QED BY <1>1, <1>2 DEF Shows, Committed

\* A commit records what the program sees.
LEMMA CommitShows ==
    ASSUME HeapInv, GensInOrder, lineage \subseteq Home, Commit, NEW from,
           Record(gens[working].gen, from), DOMAIN snaps = 0 .. MaxGen, lineage' = lineage
    PROVE  Shows'
<1>1. working \in Nodes /\ gens[working] # Null /\ gens[working] \in Generation
  BY DEF Commit, HeapInv, TypeOK, AllGens
<1>2. gens[working].gen \in 0 .. MaxGen /\ gens'[working].gen = gens[working].gen
  BY <1>1 DEF Generation, GensInOrder, InOrder, AllGens, Commit, FlagCommitted
<1>3. snaps'[gens[working].gen] = Image
  BY <1>2 DEF Record
<1>4. \A p \in lineage : Content(p)' = Content(p)
  <2> SUFFICES ASSUME NEW p \in lineage
               PROVE  pages'[p].used = pages[p].used /\ pages'[p].val = pages[p].val
    BY DEF Content
  <2>1. p \in Frames /\ pages[p] \in Page
    BY DEF Home, AllPages, HeapInv, TypeOK
  <2>2. pages'[p] = pages[p] \/ pages'[p] = [pages[p] EXCEPT !.committed = TRUE]
    BY <2>1 DEF Commit, FlagCommitted
  <2> QED BY <2>1, <2>2 DEF Page
<1>5. Image' = Image
  BY <1>4 DEF Image
<1>6. committed' = working
  BY DEF Commit
<1> QED BY <1>2, <1>3, <1>5, <1>6 DEF Shows
LEMMA TaintStays == ASSUME [EvalerNext]_vars, tainted PROVE tainted'
<1>1. CASE UNCHANGED vars
  BY <1>1 DEF vars, historyVars
<1>2. CASE \/ Start \/ InitAlloc \/ InitAborts \/ InitDone \/ InitCommit \/ InitCommitCrashes
           \/ CheckoutQuery \/ CheckoutMoves \/ CheckoutDone \/ Undo
  BY <1>2 DEF Start, InitAlloc, InitAborts, InitDone, InitCommit, InitCommitCrashes, CheckoutQuery,
        CheckoutMoves, CheckoutDone, Undo, BeginCheckout, historyVars
<1>3. CASE \/ Begin \/ BeginCrashes \/ EvalWrite \/ EvalAlloc \/ EvalAborts
           \/ Leave \/ LeaveUncommitted
  BY <1>3 DEF Begin, BeginCrashes, EvalWrite, EvalAlloc, EvalAborts, Leave, LeaveUncommitted,
        historyVars
<1>4. ASSUME NEW outcome, CommitQuery(outcome) PROVE tainted'
  BY <1>4 DEF CommitQuery
<1>5. CASE Kill \/ KillInTrap \/ KillInMalloc \/ KillInBegin \/ KillInCommit \/ MemGraph
  BY <1>5 DEF Kill, KillInTrap, KillInMalloc, KillInBegin, KillInCommit, MemGraph
<1> QED BY <1>1, <1>2, <1>3, <1>4, <1>5 DEF EvalerNext

\* snap_checkout goes for a version the later ones are built on, or taints.
LEMMA CheckoutHeaded ==
    ASSUME HeapInv, GensInOrder, HeldOnce, [Next]_heapVars, Shows, gens[root] # Null,
           NEW g, NEW next, BeginCheckout(g, next), next # "eval", pc \in {"ready", "undo"},
           target = Null, ~tainted'
    PROVE  Headed' /\ Shows'
<1>1. CASE CheckoutSame(g) /\ UNCHANGED historyVars
  <2>1. UNCHANGED <<pages, lineage, snaps, committed, target>>
    BY <1>1 DEF CheckoutSame, heapVars, fileVars, historyVars
  <2> QED BY <2>1, ShowsStill DEF Headed
<1>2. CASE CheckoutStart(g) /\ pc' = "moving" /\ tainted' = (tainted \/ ~OnChain(g))
           /\ UNCHANGED <<snaps, ancestors, lineage>>
  <2>1. target' = NodeOf(g) /\ gens' = gens /\ NodeOf(g) \in AllGens
    BY <1>2 DEF CheckoutStart, fileVars
  <2>2. gens[NodeOf(g)].gen = g
    BY <2>1, NodeOfIs
  <2>3. gens'[target'].gen = g /\ target' # Null
    BY <2>1, <2>2, NullAssumption, SnapAssumption DEF AllGens, Nodes
  <2>4. OnChain(g)
    BY <1>2
  <2>5. OnChain(gens[target].gen)'
    BY <1>2, <2>3, <2>4 DEF OnChain, Committed
  <2> QED BY <1>2, <2>3, <2>5 DEF Headed, Shows
<1> QED BY <1>1, <1>2 DEF BeginCheckout

LEMMA IsolatedStep ==
    ASSUME Ground, Ground', Settled, NothingYet, AtHome, Images, RestorableVersions, NoAbort',
           Isolated, [Next]_heapVars, [EvalerNext]_vars
    PROVE  Isolated'
<1> SUFFICES ASSUME ~tainted' PROVE Running' /\ Headed' /\ Shows'
  BY OpsStep DEF Isolated
<1>0. /\ HeapInv /\ GensInOrder /\ HeldOnce /\ HeapInv'
      /\ lineage \subseteq Home /\ DOMAIN snaps = 0 .. MaxGen
  BY DEF Ground, AtHome, Settled
<1>1. Running /\ Headed /\ Shows
  BY TaintStays DEF Isolated
<1>2. ~MemGraph /\ ~KillInTrap /\ ~KillInMalloc /\ ~KillInCommit
  BY DEF MemGraph, KillInTrap, KillInMalloc, KillInCommit
<1>3. Running'
  BY <1>0, <1>1, <1>2, RunningStep
<1> DEFINE Goal == Headed' /\ Shows'
<1> SUFFICES Goal
  BY <1>3
<1>4. pc # "moving" => target = Null
  BY <1>1 DEF Headed
<1>5. ASSUME UNCHANGED <<pages, lineage, snaps, committed>>, target = Null, target' = Null,
             pc = "eval" => ops = 0
      PROVE  Goal
  BY <1>0, <1>1, <1>5, ShowsStill DEF Headed
<1>6. ASSUME target' = Null, committed' # Null => ~Committed(gens[committed].gen)' PROVE Goal
  BY <1>6 DEF Headed, Shows
<1>7. CASE Start
  <2>1. pc = "off" /\ target = Null /\ pc # "eval"
    BY <1>4, <1>7 DEF Start
  <2>2. CASE CreateDb
    <3>1. committed' = Null /\ target' = Null
      BY <2>2 DEF CreateDb, NewDb
    <3> QED BY <1>6, <3>1
  <2>3. CASE OpenDb
    <3>1. UNCHANGED <<pages, gens, snaps, committed>> /\ target' = Null /\ lineage' = KnownPages
      BY <1>7, <2>3 DEF OpenDb, Start
    <3>2. CASE committed # Null /\ Committed(gens[committed].gen)
      <4>1. Image = snaps[gens[committed].gen]
        BY <1>1, <2>1, <3>2 DEF Shows
      <4>2. lineage = DOMAIN snaps[gens[committed].gen]
        BY <4>1 DEF Image
      <4>3. lineage' = lineage
        BY <3>1, <3>2, <4>2 DEF KnownPages
      <4> QED BY <1>5, <2>1, <3>1, <4>3
    <3>3. CASE committed = Null \/ ~Committed(gens[committed].gen)
      BY <1>6, <3>1, <3>3 DEF Committed
    <3> QED BY <3>2, <3>3
  <2> QED BY <1>7, <2>2, <2>3 DEF Start, SnapInit
<1>8. CASE InitAlloc
  <2>1. ~userPtr /\ snaps' = snaps
    BY <1>8 DEF InitAlloc, Settled
  <2>2. target' = Null
    BY <1>8 DEF InitAlloc, Malloc, MallocFits, MallocGrows
  <2>3. committed' # Null => gens'[committed'].gen \in 0 .. MaxGen
    BY <1>0 DEF HeapInv, TypeOK, AllGens, Generation
  <2> QED BY <1>6, <2>1, <2>2, <2>3 DEF Settled, Committed
<1>9. CASE InitDone
  <2>1. pc = "init"
    BY <1>9 DEF InitDone
  <2> QED BY <1>4, <1>5, <1>9, <2>1 DEF InitDone, heapVars, fileVars, historyVars
<1>10. ~InitAborts /\ ~InitCommitCrashes /\ ~BeginCrashes /\ ~EvalAborts
  BY DEF InitAborts, InitCommitCrashes, BeginCrashes, EvalAborts, MallocAborts, NullDeref, NoAbort
<1>11. CASE InitCommit
  <2>1. Commit /\ Record(0, {}) /\ lineage' = lineage /\ pc = "commit-init"
    BY <1>11 DEF InitCommit
  <2>2. working \in Nodes /\ gens[working] # Null /\ target' = Null /\ committed' = working
    BY <1>0, <2>1 DEF Commit, HeapInv, TypeOK, AllGens
  <2>3. gens[working].gen = 0
    BY <2>1, <2>2, NullAssumption, SnapAssumption DEF AtHome, Fresh, Nodes
  <2>4. Shows'
    BY <1>0, <2>1, <2>3, CommitShows
  <2> QED BY <2>2, <2>4 DEF Headed
<1>12. CASE CheckoutQuery \/ Undo
  <2>1. pc \in {"ready", "undo"} /\ target = Null /\ gens[root] # Null
    <3>1. pc \in {"ready", "undo"} /\ target = Null
      BY <1>4, <1>12 DEF CheckoutQuery, Undo
    <3>2. committed # Null
      BY <1>12 DEF CheckoutQuery, Undo, BeginCheckout, CheckoutSame, CheckoutStart
    <3> QED BY <1>0, <3>1, <3>2 DEF HeapInv, TypeOK, AllGens
  <2>2. \E g, next : BeginCheckout(g, next) /\ next # "eval"
    BY <1>12 DEF CheckoutQuery, Undo
  <2> QED BY <1>0, <1>1, <2>1, <2>2, CheckoutHeaded
<1>13. CASE CheckoutMoves
  <2>1. CheckoutSwap /\ proc' = "up"
    BY <1>13 DEF CheckoutMoves, CheckoutFails, NoAbort, CheckoutSwap, MergeMaps
  <2>2. target' = target /\ target # Null /\ pc' = pc /\ UNCHANGED historyVars
    BY <1>13, <2>1 DEF CheckoutMoves, CheckoutSwap
  <2>3. gens'[target].gen = gens[target].gen
    BY <1>0, <2>2, IdsStep DEF SameIds, AllGens, HeapInv, TypeOK
  <2>4. pc = "moving" /\ OnChain(gens[target].gen)
    BY <1>1, <2>2 DEF Headed
  <2>5. OnChain(gens[target].gen)'
    BY <2>2, <2>3, <2>4 DEF OnChain, Committed, historyVars
  <2> QED BY <2>2, <2>4, <2>5 DEF Headed, Shows
<1>14. CASE CheckoutDone
  <2> DEFINE g == gens[target].gen
  <2>1. /\ target # Null /\ NextToMove = Null /\ committed' = target /\ target' = Null
        /\ UNCHANGED <<gens, pages, snaps>> /\ lineage' = DOMAIN snaps[g]
    BY <1>14 DEF CheckoutDone, CheckoutEnd
  <2>2. gens[target] # Null /\ gens[root] # Null /\ g \in 0 .. MaxGen
    <3>1. target \in Nodes /\ gens[target] # Null /\ gens[target] \in Generation /\ gens[root] # Null
      BY <1>0, <2>1 DEF HeapInv, TypeOK, AllGens
    <3> QED BY <3>1 DEF Generation
  <2>3. OnChain(g)
    BY <1>1, <2>1 DEF Headed
  <2>4. CASE ~Committed(g)
    BY <1>6, <2>1, <2>4 DEF Committed
  <2>5. CASE Committed(g)
    <3>1. \A r \in DOMAIN snaps[g] : Content(r) = snaps[g][r]
      BY <1>0, <2>1, <2>2, <2>3, <2>5, CheckoutShows
    <3>2. snaps[g] = [r \in DOMAIN snaps[g] |-> snaps[g][r]]
      BY <2>2, <2>5 DEF Images
    <3>3. Image' = [r \in DOMAIN snaps[g] |-> Content(r)]
      BY <2>1 DEF Image, Content
    <3>4. Image' = snaps[g]
      BY <3>1, <3>2, <3>3
    <3>5. snaps'[gens'[committed'].gen] = snaps[g]
      BY <2>1
    <3>6. Shows'
      BY <3>4, <3>5 DEF Shows
    <3> QED BY <2>1, <3>6 DEF Headed
  <2> QED BY <2>4, <2>5
<1>15. CASE Begin
  <2>1. pc # "eval" /\ target = Null /\ UNCHANGED <<pages, lineage, snaps, committed, target>>
    BY <1>15 DEF Begin, BeginMut, historyVars
  <2> QED BY <1>5, <2>1
<1>16. CASE EvalWrite \/ EvalAlloc
  <2>1. target' = Null /\ ops' = ops + 1
    BY <1>16 DEF EvalWrite, EvalAlloc, Write, PlainWrite, TrappedWrite, TrapFails, Malloc,
          MallocFits, MallocGrows
  <2>2. pc' = "eval"
    BY <1>16 DEF EvalWrite, EvalAlloc, Write, PlainWrite, TrappedWrite, TrapFails, MergeMaps,
          NoAbort, Settled
  <2>3. ops' # 0
    BY <2>1 DEF Isolated
  <2> QED BY <2>1, <2>2, <2>3 DEF Headed, Shows
<1>17. ASSUME NEW outcome, CommitQuery(outcome) PROVE Goal
  <2>1. Commit /\ lineage' = lineage /\ working # committed /\ target' = Null
    BY <1>1, <1>17 DEF CommitQuery, Running, Commit
  <2>2. \E from : Record(gens[working].gen, from)
    BY <1>17, <2>1 DEF CommitQuery
  <2>3. Shows'
    BY <1>0, <2>1, <2>2, CommitShows
  <2> QED BY <2>1, <2>3 DEF Headed
<1>18. CASE Leave \/ LeaveUncommitted \/ Kill \/ KillInBegin
  <2>1. target' = Null /\ UNCHANGED <<pages, lineage, snaps, committed>>
    BY <1>18 DEF Leave, LeaveUncommitted, Kill, KillInBegin, DriverGone, Exit, Gone, BeginDies,
          fileVars, historyVars
  <2>2. pc # "moving" /\ (pc = "eval" => ops = 0)
    <3>1. CASE Leave \/ KillInBegin \/ Kill
      BY <1>18, <3>1 DEF Leave, Kill, KillInBegin
    <3>2. CASE LeaveUncommitted
      <4>1. ~(ops > 0) /\ ops \in Nat /\ pc = "eval"
        BY <3>2 DEF LeaveUncommitted, Isolated
      <4> QED BY <4>1
    <3> QED BY <1>18, <3>1, <3>2
  <2> QED BY <1>4, <1>5, <2>1, <2>2
<1>19. CASE UNCHANGED vars
  <2>1. UNCHANGED <<gens, pages, lineage, snaps, ancestors, committed, target, pc, ops>>
    BY <1>19 DEF vars, heapVars, fileVars, historyVars
  <2>2. Image' = Image
    BY <2>1 DEF Image, Content
  <2>3. Shows'
    BY <1>1, <2>1, <2>2 DEF Shows, Committed
  <2>4. Headed'
    BY <1>1, <2>1 DEF Headed, OnChain, Committed
  <2> QED BY <2>3, <2>4
<1> QED BY <1>2, <1>3, <1>7, <1>8, <1>9, <1>10, <1>11, <1>12, <1>13, <1>14, <1>15, <1>16, <1>17,
           <1>18, <1>19 DEF EvalerNext

\* Isolation and rollback follow: as long as each version can be restored and no
\* assert fails, whenever no transaction is running the program sees what the
\* version that is checked out committed.
THEOREM LiveFromRestorable ==
    EvalerSpec /\ []RestorableVersions /\ []NoAbort => []LiveAgreesUnlessTainted
<1>1. EvalerInit => Isolated /\ Images
  BY DEF EvalerInit, Init, Isolated, Images, Running, Headed, Shows, Committed
<1>2. Ground /\ Ground' /\ Settled /\ NothingYet /\ AtHome /\ Images
         /\ RestorableVersions /\ NoAbort' /\ Isolated /\ [Next]_heapVars /\ [EvalerNext]_vars
         => Isolated'
  BY IsolatedStep
<1>3. Running /\ Shows => LiveAgrees
  BY DEF Running, Shows, LiveAgrees, Quiet
<1>4. Isolated => LiveAgreesUnlessTainted
  BY <1>3 DEF Isolated, LiveAgreesUnlessTainted
<1>5. EvalerSpec => [][Next]_heapVars
  BY EvalerUsesHeap, PTL DEF Spec
<1> QED BY <1>1, <1>2, <1>4, <1>5, ImagesStep, GroundHolds, SettledHolds, NothingYetHolds, AtHomeHolds, PTL DEF EvalerSpec

\* With -e, as long as nothing uncommitted is left behind, both rest on the commit
\* alone.
THEOREM OneQueryRestsOnCommits ==
    EvalerSpec /\ ~Server /\ [][~Halted]_vars /\ [][CommitsRestorable]_vars
        => [](RestorableVersions /\ LiveAgreesUnlessTainted)
<1> QED BY ProtectedForOneQuery, LostAtOnceOrNever, NoAbortForOneQuery, LiveFromRestorable, PTL
====
