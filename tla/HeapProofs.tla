----------------------------- MODULE HeapProofs -----------------------------
(***************************************************************************)
(* Proofs about the table of protections and the versioned heap, for every *)
(* size of the file, number of slots and number of generations.            *)
(*                                                                         *)
(* First ProtMap, whatever calls it: requests that are neither Lossy nor   *)
(* Emptying are granted, and no other ruins the table.  Then SnapHeap: the *)
(* heap keeps HeapInv, the order of its generations and the tree, whatever *)
(* program uses it.                                                        *)
(***************************************************************************)
EXTENDS SnapHeap, MCProtMap, SequenceTheorems, NaturalsInduction, WellFoundedInduction,
        FiniteSetTheorems, TLAPS

-----------------------------------------------------------------------------
(***************************************************************************)
(* merge_in_map                                                            *)
(*                                                                         *)
(* A merge is looked at in two halves.  The culling leaves a table that    *)
(* tiles the heap but is right only about the frames the request does not  *)
(* name (RightOutside).  Each case of the merge then puts one, two or      *)
(* three pieces in the place of others (Splice), which keeps the tiling if *)
(* the ends and the neighbours fit, and is right about every frame if the  *)
(* new pieces are.                                                         *)
(***************************************************************************)

LEMMA MaxOfOne == Max({1}) = 1
  BY DEF Max

\* A fold over one element applies the operator once.
LEMMA CoalesceOne == ASSUME NEW m PROVE Coalesce(<<m>>) = <<m>>
<1> DEFINE join(done, x) ==
             IF done # <<>> /\ Last(done).w = x.w /\ EndOf(Last(done)) = x.start
             THEN ReplaceAt(done, Len(done), [Last(done) EXCEPT !.len = @ + x.len])
             ELSE Append(done, x)
           body(h) == [s \in SUBSET DOMAIN <<m>> |->
                         IF s = {} THEN <<>>
                         ELSE LET x == Max(s) IN join(h[s \ {x}], <<m>>[x])]
           fold == CHOOSE h : h = body(h)
           one  == [s \in SUBSET {1} |-> IF s = {} THEN <<>> ELSE <<m>>]
<1>1. Coalesce(<<m>>) = fold[DOMAIN <<m>>]
  BY DEF Coalesce, FoldLeft, MapThenFoldSet
<1>2. DOMAIN <<m>> = {1} /\ <<m>>[1] = m
  OBVIOUS
<1>3. SUBSET {1} = {{}, {1}}
  OBVIOUS
<1>4. join(<<>>, m) = <<m>>
  OBVIOUS
<1> HIDE DEF join
<1>5. \A h : body(h)[{}] = <<>> /\ body(h)[{1}] = join(h[{}], m)
  BY <1>2, <1>3, MaxOfOne
<1>6. one = body(one)
  <2>1. DOMAIN one = DOMAIN body(one)
    BY <1>2
  <2>2. one[{}] = body(one)[{}] /\ one[{1}] = body(one)[{1}]
    BY <1>4, <1>5
  <2> QED BY <1>2, <1>3, <2>1, <2>2
<1> HIDE DEF body
<1>7. fold = body(fold)
  BY <1>6
<1> HIDE DEF fold
<1>8. fold[{1}] = <<m>>
  BY <1>4, <1>5, <1>7
<1> QED BY <1>1, <1>2, <1>8

LEMMA MergeOnlyOne == ASSUME NEW s, NEW m PROVE FoldLeft(MergeInMap, s, <<m>>) = MergeInMap(s, m)
<1> DEFINE body(h) == [d \in SUBSET DOMAIN <<m>> |->
                         IF d = {} THEN s
                         ELSE LET x == Max(d) IN MergeInMap(h[d \ {x}], <<m>>[x])]
           fold == CHOOSE h : h = body(h)
           one  == [d \in SUBSET {1} |-> IF d = {} THEN s ELSE MergeInMap(s, m)]
<1>1. FoldLeft(MergeInMap, s, <<m>>) = fold[DOMAIN <<m>>]
  BY DEF FoldLeft, MapThenFoldSet
<1>2. DOMAIN <<m>> = {1} /\ <<m>>[1] = m
  OBVIOUS
<1>3. SUBSET {1} = {{}, {1}}
  OBVIOUS
<1>4. \A h : body(h)[{}] = s /\ body(h)[{1}] = MergeInMap(h[{}], m)
  BY <1>2, <1>3, MaxOfOne
<1>5. one = body(one)
  <2>1. DOMAIN one = DOMAIN body(one)
    BY <1>2
  <2>2. one[{}] = body(one)[{}] /\ one[{1}] = body(one)[{1}]
    BY <1>4
  <2> QED BY <1>2, <1>3, <2>1, <2>2
<1> HIDE DEF body
<1>6. fold = body(fold)
  BY <1>5
<1> HIDE DEF fold
<1>7. fold[{1}] = MergeInMap(s, m)
  BY <1>4, <1>6
<1> QED BY <1>1, <1>2, <1>7

\* merge_in_table with one request is its check of the ends and merge_in_map.
LEMMA OneRequest ==
    ASSUME NEW s, NEW m
    PROVE  MergeInTable(s, <<m>>) =
             IF m.start >= s.table[1].start /\ EndOf(m) <= EndOf(Last(s.table))
             THEN MergeInMap(s, m) ELSE [s EXCEPT !.table = Aborted]
<1>1. <<m>> # <<>> /\ <<m>>[1] = m /\ Last(<<m>>) = m
  BY DEF Last
<1> QED BY <1>1, CoalesceOne, MergeOnlyOne DEF MergeInTable

-----------------------------------------------------------------------------
(***************************************************************************)
(* Tables that tile the heap.                                              *)
(***************************************************************************)

\* A struct map, wherever it lies.
Piece == [w : BOOLEAN, start : Nat, len : Nat]

\* Pieces that follow one another, none empty, no two neighbours alike.
Chain(t) == \A i \in 1 .. Len(t) :
                /\ t[i].len > 0
                /\ i > 1 => /\ t[i].start = EndOf(t[i - 1])
                            /\ t[i].w # t[i - 1].w

\* The table is a chain from the first frame of the heap to the last.
Tiles(t) == /\ t \in Seq(Piece) /\ Len(t) >= 1
            /\ Chain(t)
            /\ t[1].start = 0 /\ EndOf(t[Len(t)]) = NumFrames

In(f, m) == m.start <= f /\ f < EndOf(m)

\* The table is right about every frame that m does not name.
RightOutside(t, p, m) ==
    \A i \in 1 .. Len(t) : \A f \in Frames :
        In(f, t[i]) /\ ~In(f, m) => p[f] = t[i].w

Less == {ss \in Nat \X Nat : ss[1] < ss[2]}

LEMMA LessIsWellFounded == IsWellFoundedOn(Less, Nat)
  BY NatLessThanWellFounded DEF OpToRel, Less

\* The least of the naturals with a property.
LEMMA Least ==
    ASSUME NEW S \in SUBSET Nat, S # {}
    PROVE  \E n \in S : \A k \in S : n <= k
<1>1. PICK n \in S : \A k \in S : ~ (<<k, n>> \in Less)
  BY LessIsWellFounded, WFMin
<1>2. ASSUME NEW k \in S PROVE n <= k
  <2>1. k < n => <<k, n>> \in Less
    BY DEF Less
  <2> QED BY <1>1, <2>1
<1> QED BY <1>2

LEMMA PieceFacts ==
    ASSUME NEW t, t \in Seq(Piece), NEW i \in 1 .. Len(t)
    PROVE  /\ t[i] \in Piece
           /\ t[i].w \in BOOLEAN /\ t[i].start \in Nat /\ t[i].len \in Nat
           /\ EndOf(t[i]) \in Nat /\ EndOf(t[i]) = t[i].start + t[i].len
<1>1. t[i] \in Piece
  BY ElementOfSeq
<1> QED BY <1>1 DEF Piece, EndOf

\* Earlier pieces end before later ones start.
LEMMA PiecesInOrder ==
    ASSUME NEW t, t \in Seq(Piece), Chain(t),
           NEW i \in 1 .. Len(t), NEW j \in 1 .. Len(t), i < j
    PROVE  EndOf(t[i]) <= t[j].start
<1> DEFINE S == {k \in i + 1 .. Len(t) : ~(EndOf(t[i]) <= t[k].start)}
<1>1. SUFFICES ASSUME S # {} PROVE FALSE
  BY <1>1
<1>2. PICK k \in S : \A l \in S : k <= l
  <2> HIDE DEF S
  <2>1. S \in SUBSET Nat /\ S # {}
    BY <1>1 DEF S
  <2> QED BY <2>1, Least
<1>3. Len(t) \in Nat /\ k \in i + 1 .. Len(t) /\ k - 1 \in 1 .. Len(t) /\ k \in 1 .. Len(t)
  OBVIOUS
<1>4. /\ EndOf(t[i]) \in Nat
      /\ t[k - 1].start \in Nat /\ t[k - 1].len \in Nat
      /\ EndOf(t[k - 1]) = t[k - 1].start + t[k - 1].len
  BY <1>3, PieceFacts
<1>5. t[k].start = EndOf(t[k - 1]) /\ t[k - 1].len > 0
  BY <1>3 DEF Chain
<1>6. ~(EndOf(t[i]) <= t[k].start)
  OBVIOUS
<1> HIDE DEF S
<1>7. k # i + 1
  BY <1>4, <1>5, <1>6
<1>8. k - 1 \in i + 1 .. Len(t) /\ k - 1 \notin S
  BY <1>2, <1>3, <1>7
<1>9. EndOf(t[i]) <= t[k - 1].start
  BY <1>8 DEF S
<1> QED BY <1>4, <1>5, <1>6, <1>9

\* Every frame of the heap lies in a piece.
LEMMA Covered ==
    ASSUME NEW t, Tiles(t), NEW f \in Frames
    PROVE  \E i \in 1 .. Len(t) : In(f, t[i])
<1> DEFINE S == {k \in 1 .. Len(t) : f < EndOf(t[k])}
<1>1. t \in Seq(Piece) /\ Len(t) \in Nat /\ Len(t) >= 1 /\ Len(t) \in S
  BY NumFramesAssumption DEF Tiles, Frames
<1>2. PICK k \in S : \A l \in S : k <= l
  <2> HIDE DEF S
  <2>1. S \in SUBSET Nat /\ S # {}
    BY <1>1 DEF S
  <2> QED BY <2>1, Least
<1>3. t[k] \in Piece
  BY <1>1, ElementOfSeq
<1>4. CASE k = 1
  BY <1>2, <1>3, <1>4 DEF Tiles, In, Frames, Piece
<1>5. CASE k # 1
  <2>1. k - 1 \in 1 .. Len(t) /\ k - 1 \notin S
    BY <1>2, <1>5
  <2>2. t[k - 1] \in Piece
    BY <1>1, <2>1, ElementOfSeq
  <2>3. ~(f < EndOf(t[k - 1])) /\ t[k].start = EndOf(t[k - 1])
    BY <1>5, <2>1 DEF Tiles, Chain
  <2> QED BY <1>2, <1>3, <2>2, <2>3, NumFramesAssumption DEF In, Frames, Piece, EndOf
<1> QED BY <1>4, <1>5

LEMMA RequestFacts ==
    ASSUME NEW m \in Requests
    PROVE  /\ m.w \in BOOLEAN /\ m.start \in Nat /\ m.len \in Nat /\ EndOf(m) \in Nat
           /\ EndOf(m) = m.start + m.len /\ 2 <= m.start /\ m.start < EndOf(m)
           /\ EndOf(m) < NumFrames
           /\ m.start \in Frames /\ EndOf(m) - 1 \in Frames
           /\ m \in Piece
  BY NumFramesAssumption DEF Requests, MapEntry, Frames, EndOf, Piece

\* Two pieces of a table that hold the same frame are one.
LEMMA OnePieceEach ==
    ASSUME NEW t, Tiles(t), NEW i \in 1 .. Len(t), NEW j \in 1 .. Len(t),
           NEW f \in Nat, In(f, t[i]), In(f, t[j])
    PROVE  i = j
<1>1. t \in Seq(Piece) /\ Chain(t)
  BY DEF Tiles
<1>2. /\ t[i].start \in Nat /\ EndOf(t[i]) \in Nat
      /\ t[j].start \in Nat /\ EndOf(t[j]) \in Nat
  BY <1>1, PieceFacts
<1>3. i < j => EndOf(t[i]) <= t[j].start
  BY <1>1, PiecesInOrder
<1>4. j < i => EndOf(t[j]) <= t[i].start
  BY <1>1, PiecesInOrder
<1> QED BY <1>2, <1>3, <1>4 DEF In

\* The first entry hit holds the first frame of the request, the last one its last.
LEMMA Hits ==
    ASSUME NEW t, Tiles(t), NEW m \in Requests
    PROVE  /\ Overlaps(t, m) # {}
           /\ Min(Overlaps(t, m)) \in 1 .. Len(t)
           /\ Max(Overlaps(t, m)) \in Min(Overlaps(t, m)) .. Len(t)
           /\ In(m.start, t[Min(Overlaps(t, m))])
           /\ In(EndOf(m) - 1, t[Max(Overlaps(t, m))])
<1> DEFINE hits == Overlaps(t, m)
<1>1. t \in Seq(Piece) /\ Chain(t)
  BY DEF Tiles
<1>2. DOMAIN t = 1 .. Len(t) /\ Len(t) \in Nat
  BY <1>1
<1>3. PICK lo \in 1 .. Len(t) : In(m.start, t[lo])
  BY RequestFacts, Covered
<1>4. PICK hi \in 1 .. Len(t) : In(EndOf(m) - 1, t[hi])
  BY RequestFacts, Covered
<1>5. /\ t[lo].start \in Nat /\ EndOf(t[lo]) \in Nat
      /\ t[hi].start \in Nat /\ EndOf(t[hi]) \in Nat
  BY <1>1, PieceFacts
<1>6. lo \in hits /\ hi \in hits
  BY <1>2, <1>3, <1>4, <1>5, RequestFacts DEF Overlaps, In
<1>7. ASSUME NEW k \in hits PROVE lo <= k /\ k <= hi
  <2>1. k \in 1 .. Len(t) /\ m.start < EndOf(t[k]) /\ t[k].start < EndOf(m)
    BY <1>2 DEF Overlaps
  <2>2. t[k].start \in Nat /\ EndOf(t[k]) \in Nat
    BY <1>1, <2>1, PieceFacts
  <2>3. k < lo => EndOf(t[k]) <= t[lo].start
    BY <1>1, <2>1, PiecesInOrder
  <2>4. hi < k => EndOf(t[hi]) <= t[k].start
    BY <1>1, <2>1, PiecesInOrder
  <2>5. m.start \in Nat /\ EndOf(m) \in Nat
    BY RequestFacts
  <2>6. t[lo].start <= m.start /\ EndOf(m) - 1 < EndOf(t[hi])
    BY <1>3, <1>4 DEF In
  <2>7. ~(k < lo)
    BY <1>5, <2>1, <2>2, <2>3, <2>5, <2>6
  <2>8. ~(hi < k)
    BY <1>5, <2>1, <2>2, <2>4, <2>5, <2>6
  <2> QED BY <2>1, <2>7, <2>8
<1> HIDE DEF hits
<1>8. \A k \in hits : k \in Nat
  BY <1>2 DEF hits, Overlaps
<1>9. Min(hits) = lo
  <2>1. \A k \in hits : (\A l \in hits : k <= l) => k = lo
    BY <1>6, <1>7, <1>8
  <2> QED BY <1>6, <1>7, <2>1 DEF Min
<1>10. Max(hits) = hi
  <2>1. \A k \in hits : (\A l \in hits : k >= l) => k = hi
    BY <1>6, <1>7, <1>8
  <2>2. \A l \in hits : hi >= l
    BY <1>6, <1>7, <1>8
  <2> QED BY <1>6, <2>1, <2>2 DEF Max
<1>11. lo <= hi
  BY <1>6, <1>7
<1> QED BY <1>2, <1>3, <1>4, <1>6, <1>9, <1>10, <1>11 DEF hits

-----------------------------------------------------------------------------
(***************************************************************************)
(* Replacing some pieces of a table.                                       *)
(***************************************************************************)

\* d is t with s in the place of the pieces from i to j.
Spliced(d, t, i, j, s) ==
    /\ d \in Seq(Piece)
    /\ Len(d) = (i - 1) + Len(s) + (Len(t) - j)
    /\ \A k \in 1 .. i - 1 : d[k] = t[k]
    /\ \A k \in 1 .. Len(s) : d[i - 1 + k] = s[k]
    /\ \A k \in j + 1 .. Len(t) : d[i - 1 + Len(s) + (k - j)] = t[k]

LEMMA SpliceAt ==
    ASSUME NEW t \in Seq(Piece), NEW i \in 1 .. Len(t), NEW j \in i .. Len(t),
           NEW s \in Seq(Piece)
    PROVE  Spliced(Splice(t, i, j, s), t, i, j, s)
<1> DEFINE a == SubSeq(t, 1, i - 1)
           b == SubSeq(t, j + 1, Len(t))
<1>1. Len(t) \in Nat /\ Len(s) \in Nat /\ i \in Nat /\ j \in Nat
  OBVIOUS
<1>2. \A k \in 1 .. Len(t) : t[k] \in Piece
  BY ElementOfSeq
<1>3. /\ a \in Seq(Piece) /\ Len(a) = i - 1
      /\ \A k \in 1 .. i - 1 : a[k] = t[k]
  <2>1. \A k \in 1 .. i - 1 : t[k] \in Piece
    BY <1>1, <1>2
  <2>2. /\ a \in Seq(Piece)
        /\ Len(a) = IF 1 <= i - 1 THEN i - 1 - 1 + 1 ELSE 0
        /\ \A k \in 1 .. i - 1 - 1 + 1 : a[k] = t[1 + k - 1]
    BY <1>1, <2>1, SubSeqProperties
  <2> QED BY <1>1, <2>2
<1>4. /\ b \in Seq(Piece) /\ Len(b) = Len(t) - j
      /\ \A k \in 1 .. Len(t) - j : b[k] = t[j + k]
  <2>1. \A k \in j + 1 .. Len(t) : t[k] \in Piece
    BY <1>1, <1>2
  <2>2. /\ b \in Seq(Piece)
        /\ Len(b) = IF j + 1 <= Len(t) THEN Len(t) - (j + 1) + 1 ELSE 0
        /\ \A k \in 1 .. Len(t) - (j + 1) + 1 : b[k] = t[j + 1 + k - 1]
    BY <1>1, <2>1, SubSeqProperties
  <2>3. Len(b) = Len(t) - j
    BY <1>1, <2>2
  <2>4. ASSUME NEW k \in 1 .. Len(t) - j PROVE b[k] = t[j + k]
    <3>1. k \in 1 .. Len(t) - (j + 1) + 1 /\ j + 1 + k - 1 = j + k
      BY <1>1
    <3> QED BY <2>2, <3>1
  <2> QED BY <2>2, <2>3, <2>4
<1> HIDE DEF a, b
<1>5. /\ a \o s \in Seq(Piece) /\ Len(a \o s) = (i - 1) + Len(s)
      /\ \A k \in 1 .. (i - 1) + Len(s) :
            (a \o s)[k] = IF k <= i - 1 THEN a[k] ELSE s[k - (i - 1)]
  <2>1. /\ a \o s \in Seq(Piece) /\ Len(a \o s) = Len(a) + Len(s)
        /\ \A k \in 1 .. Len(a) + Len(s) :
              (a \o s)[k] = IF k <= Len(a) THEN a[k] ELSE s[k - Len(a)]
    BY <1>3, ConcatProperties
  <2> QED BY <1>3, <2>1
<1>6. /\ (a \o s) \o b \in Seq(Piece)
      /\ Len((a \o s) \o b) = (i - 1) + Len(s) + (Len(t) - j)
      /\ \A k \in 1 .. (i - 1) + Len(s) + (Len(t) - j) :
            ((a \o s) \o b)[k] = IF k <= (i - 1) + Len(s) THEN (a \o s)[k]
                                 ELSE b[k - ((i - 1) + Len(s))]
  <2>1. a \o s \in Seq(Piece) /\ b \in Seq(Piece)
    BY <1>4, <1>5
  <2> DEFINE e == a \o s
  <2> HIDE DEF e
  <2>2. /\ e \o b \in Seq(Piece) /\ Len(e \o b) = Len(e) + Len(b)
        /\ \A k \in 1 .. Len(e) + Len(b) :
              (e \o b)[k] = IF k <= Len(e) THEN e[k] ELSE b[k - Len(e)]
    BY <2>1, ConcatProperties DEF e
  <2>3. Len(e) = (i - 1) + Len(s) /\ Len(b) = Len(t) - j
    BY <1>4, <1>5 DEF e
  <2>4. /\ e \o b \in Seq(Piece)
        /\ Len(e \o b) = (i - 1) + Len(s) + (Len(t) - j)
        /\ \A k \in 1 .. (i - 1) + Len(s) + (Len(t) - j) :
              (e \o b)[k] = IF k <= (i - 1) + Len(s) THEN e[k]
                            ELSE b[k - ((i - 1) + Len(s))]
    BY <2>2, <2>3
  <2> QED BY <2>4 DEF e
<1>7. Splice(t, i, j, s) = (a \o s) \o b
  BY DEF Splice, a, b
<1> DEFINE d == (a \o s) \o b
<1>8. ASSUME NEW k \in 1 .. i - 1 PROVE d[k] = t[k]
  <2>1. /\ k \in 1 .. (i - 1) + Len(s) + (Len(t) - j) /\ k <= (i - 1) + Len(s)
        /\ k \in 1 .. (i - 1) + Len(s) /\ k <= i - 1
    BY <1>1
  <2> QED BY <1>3, <1>5, <1>6, <2>1
<1>9. ASSUME NEW k \in 1 .. Len(s) PROVE d[i - 1 + k] = s[k]
  <2>1. /\ i - 1 + k \in 1 .. (i - 1) + Len(s) + (Len(t) - j) /\ i - 1 + k <= (i - 1) + Len(s)
        /\ i - 1 + k \in 1 .. (i - 1) + Len(s) /\ ~(i - 1 + k <= i - 1)
        /\ i - 1 + k - (i - 1) = k
    BY <1>1
  <2>2. (a \o s)[i - 1 + k] = s[k]
    <3> DEFINE x == i - 1 + k
    <3>1. x \in 1 .. (i - 1) + Len(s) /\ ~(x <= i - 1) /\ x - (i - 1) = k
      BY <2>1
    <3> HIDE DEF x
    <3>2. (a \o s)[x] = s[k]
      BY <1>5, <3>1
    <3> QED BY <3>2 DEF x
  <2> QED BY <1>6, <2>1, <2>2
<1>10. ASSUME NEW k \in j + 1 .. Len(t) PROVE d[i - 1 + Len(s) + (k - j)] = t[k]
  <2> DEFINE l == i - 1 + Len(s) + (k - j)
  <2>1. /\ l \in 1 .. (i - 1) + Len(s) + (Len(t) - j) /\ ~(l <= (i - 1) + Len(s))
        /\ l - ((i - 1) + Len(s)) = k - j /\ k - j \in 1 .. Len(t) - j /\ j + (k - j) = k
    BY <1>1
  <2>2. d[l] = b[k - j]
    BY <1>6, <2>1
  <2> QED BY <1>4, <2>1, <2>2
<1> HIDE DEF d
<1>11. Spliced(d, t, i, j, s)
  BY <1>6, <1>8, <1>9, <1>10 DEF Spliced, d
<1> QED BY <1>7, <1>11 DEF d

\* A chain put in the place of the pieces from i to j leaves a tiling, if it
\* starts and ends where they do and differs from what is on either side.
LEMMA SpliceTiles ==
    ASSUME NEW t, Tiles(t), NEW i \in 1 .. Len(t), NEW j \in i .. Len(t),
           NEW s \in Seq(Piece), Len(s) >= 1, Chain(s),
           s[1].start = t[i].start, EndOf(s[Len(s)]) = EndOf(t[j]),
           i > 1 => s[1].w # t[i - 1].w,
           j < Len(t) => s[Len(s)].w # t[j + 1].w
    PROVE  Tiles(Splice(t, i, j, s))
<1> DEFINE d == Splice(t, i, j, s)
           n == Len(s)
           l == Len(t)
<1>1. t \in Seq(Piece) /\ Chain(t) /\ t[1].start = 0 /\ EndOf(t[l]) = NumFrames
  BY DEF Tiles
<1>2. n \in Nat /\ l \in Nat /\ i \in Nat /\ j \in Nat /\ 1 <= i /\ i <= j /\ j <= l /\ 1 <= n
  BY <1>1
<1>3. /\ d \in Seq(Piece) /\ Len(d) = (i - 1) + n + (l - j)
      /\ \A k \in 1 .. i - 1 : d[k] = t[k]
      /\ \A k \in 1 .. n : d[i - 1 + k] = s[k]
      /\ \A k \in j + 1 .. l : d[i - 1 + n + (k - j)] = t[k]
  <2>1. Spliced(Splice(t, i, j, s), t, i, j, s)
    BY <1>1, SpliceAt
  <2> QED BY <2>1 DEF Spliced
<1> DEFINE Link(k) == /\ d[k].len > 0
                      /\ k > 1 => d[k].start = EndOf(d[k - 1]) /\ d[k].w # d[k - 1].w
<1>a. /\ \A k \in 1 .. l : /\ t[k].len > 0
                           /\ k > 1 => t[k].start = EndOf(t[k - 1]) /\ t[k].w # t[k - 1].w
      /\ \A k \in 1 .. n : /\ s[k].len > 0
                           /\ k > 1 => s[k].start = EndOf(s[k - 1]) /\ s[k].w # s[k - 1].w
  BY <1>1 DEF Chain
<1> HIDE DEF d, n, l
<1>4. ASSUME NEW k \in 1 .. i - 1 PROVE Link(k)
  <2>1. k \in 1 .. l /\ (k > 1 => k - 1 \in 1 .. i - 1)
    BY <1>2
  <2>2. d[k] = t[k] /\ (k > 1 => d[k - 1] = t[k - 1])
    BY <1>3, <2>1
  <2> QED BY <1>a, <2>1, <2>2
<1>5. Link(i)
  <2>1. 1 \in 1 .. n /\ i - 1 + 1 = i /\ i \in 1 .. l
    BY <1>2
  <2>2. d[i] = s[1]
    BY <1>3, <2>1
  <2>3. CASE i > 1
    <3>1. i - 1 \in 1 .. i - 1
      BY <1>2, <2>3
    <3>2. d[i - 1] = t[i - 1]
      BY <1>3, <3>1
    <3>3. t[i].start = EndOf(t[i - 1])
      BY <1>a, <2>1, <2>3
    <3>4. s[1].len > 0
      BY <1>a, <2>1
    <3>5. d[i].start = EndOf(d[i - 1]) /\ d[i].w # d[i - 1].w
      BY <2>2, <2>3, <3>2, <3>3
    <3> QED BY <2>2, <3>4, <3>5
  <2>4. CASE ~(i > 1)
    BY <1>a, <2>1, <2>2, <2>4
  <2> QED BY <2>3, <2>4
<1>6. ASSUME NEW k \in 2 .. n PROVE Link(i - 1 + k)
  <2>1. /\ k \in 1 .. n /\ k - 1 \in 1 .. n /\ k > 1 /\ i - 1 + k > 1
        /\ i - 1 + (k - 1) = i - 1 + k - 1
    BY <1>2
  <2>2. d[i - 1 + k] = s[k] /\ d[i - 1 + k - 1] = s[k - 1]
    BY <1>3, <2>1
  <2>3. s[k].len > 0 /\ s[k].start = EndOf(s[k - 1]) /\ s[k].w # s[k - 1].w
    BY <1>a, <2>1
  <2> QED BY <2>2, <2>3
<1>7. ASSUME j < l PROVE Link(i - 1 + n + 1)
  <2>1. /\ n \in 1 .. n /\ j + 1 \in j + 1 .. l /\ j + 1 \in 1 .. l /\ j + 1 > 1
        /\ i - 1 + n + 1 = i - 1 + n + (j + 1 - j) /\ i - 1 + n + 1 - 1 = i - 1 + n
        /\ j + 1 - 1 = j
    BY <1>2, <1>7
  <2>2. d[i - 1 + n + 1] = t[j + 1] /\ d[i - 1 + n + 1 - 1] = s[n]
    <3>1. d[i - 1 + n + (j + 1 - j)] = t[j + 1]
      BY <1>3, <2>1
    <3>2. d[i - 1 + n] = s[n]
      BY <1>3, <2>1
    <3> QED BY <2>1, <3>1, <3>2
  <2>3. t[j + 1].len > 0 /\ t[j + 1].start = EndOf(t[j])
    <3> DEFINE q == j + 1
    <3>1. q \in 1 .. l /\ q > 1 /\ q - 1 = j
      BY <2>1
    <3> HIDE DEF q
    <3>2. t[q].len > 0 /\ t[q].start = EndOf(t[q - 1])
      BY <1>a, <3>1
    <3> QED BY <3>1, <3>2 DEF q
  <2> QED BY <1>7, <2>2, <2>3 DEF n, l
<1>8. ASSUME NEW k \in j + 2 .. l PROVE Link(i - 1 + n + (k - j))
  <2>1. /\ k \in j + 1 .. l /\ k - 1 \in j + 1 .. l /\ k \in 1 .. l /\ k > 1
        /\ i - 1 + n + (k - j) - 1 = i - 1 + n + (k - 1 - j)
    BY <1>2
  <2>2. d[i - 1 + n + (k - j)] = t[k] /\ d[i - 1 + n + (k - j) - 1] = t[k - 1]
    BY <1>3, <2>1
  <2>3. t[k].len > 0 /\ t[k].start = EndOf(t[k - 1]) /\ t[k].w # t[k - 1].w
    BY <1>a, <2>1
  <2> DEFINE q == i - 1 + n + (k - j)
  <2>a. q - 1 = i - 1 + n + (k - j) - 1
    BY <1>2
  <2>4. d[q] = t[k] /\ d[q - 1] = t[k - 1]
    BY <2>2, <2>a
  <2> HIDE DEF q
  <2>5. Link(q)
    BY <2>3, <2>4
  <2> QED BY <2>5 DEF q
<1> HIDE DEF Link
<1>9. \A k \in 1 .. Len(d) : Link(k)
  <2> SUFFICES ASSUME NEW k \in 1 .. Len(d) PROVE Link(k)
    OBVIOUS
  <2>1. k \in 1 .. (i - 1) + n + (l - j)
    BY <1>3
  <2>2. CASE k < i
    BY <1>2, <1>4, <2>1, <2>2
  <2>3. CASE k = i
    BY <1>5, <2>3
  <2>4. CASE i < k /\ k <= i - 1 + n
    <3>1. k - (i - 1) \in 2 .. n /\ i - 1 + (k - (i - 1)) = k
      BY <1>2, <2>1, <2>4
    <3> QED BY <1>6, <3>1
  <2>5. CASE k = i - 1 + n + 1
    BY <1>2, <1>7, <2>1, <2>5
  <2>6. CASE k > i - 1 + n + 1
    <3> DEFINE m == k - (i - 1) - n + j
    <3>1. m \in j + 2 .. l /\ i - 1 + n + (m - j) = k
      BY <1>2, <2>1, <2>6
    <3> QED BY <1>8, <3>1
  <2> QED BY <1>2, <2>1, <2>2, <2>3, <2>4, <2>5, <2>6
<1>10. Chain(d)
  BY <1>9 DEF Chain, Link
<1>11. d[1].start = 0
  <2>1. CASE i = 1
    <3>1. 1 \in 1 .. n /\ i - 1 + 1 = 1
      BY <1>2, <2>1
    <3>2. d[1] = s[1]
      BY <1>3, <3>1
    <3> QED BY <1>1, <2>1, <3>2
  <2>2. CASE i # 1
    <3>1. 1 \in 1 .. i - 1
      BY <1>2, <2>2
    <3> QED BY <1>1, <1>3, <3>1
  <2> QED BY <2>1, <2>2
<1>12. EndOf(d[Len(d)]) = NumFrames
  <2>1. CASE j = l
    <3>1. n \in 1 .. n /\ Len(d) = i - 1 + n
      BY <1>2, <1>3, <2>1
    <3>2. d[Len(d)] = s[n]
      BY <1>3, <3>1
    <3> QED BY <1>1, <2>1, <3>2 DEF n
  <2>2. CASE j # l
    <3>1. l \in j + 1 .. l /\ Len(d) = i - 1 + n + (l - j)
      BY <1>2, <1>3, <2>2
    <3> QED BY <1>1, <1>3, <3>1
  <2> QED BY <2>1, <2>2
<1>13. Len(d) >= 1
  BY <1>2, <1>3
<1> QED BY <1>3, <1>10, <1>11, <1>12, <1>13 DEF Tiles, d

\* The table is right about every frame.
Agrees(t, p) == \A i \in 1 .. Len(t) : \A f \in Frames : In(f, t[i]) => p[f] = t[i].w

\* A splice over all of a request, right about the frames it covers once the
\* request is granted, leaves a table that is right about every frame.
LEMMA SpliceAgrees ==
    ASSUME NEW t, Tiles(t), NEW p, NEW m \in Requests, RightOutside(t, p, m),
           NEW i \in 1 .. Len(t), NEW j \in i .. Len(t), NEW s \in Seq(Piece),
           t[i].start <= m.start, EndOf(m) <= EndOf(t[j]),
           \A k \in 1 .. Len(s) : \A f \in Frames :
               In(f, s[k]) => s[k].w = IF In(f, m) THEN m.w ELSE p[f]
    PROVE  Agrees(Splice(t, i, j, s), Mprotect(p, m))
<1> DEFINE d == Splice(t, i, j, s)
           n == Len(s)
           l == Len(t)
           Right(x) == \A f \in Frames : In(f, x) => Mprotect(p, m)[f] = x.w
<1>1. t \in Seq(Piece) /\ Chain(t)
  BY DEF Tiles
<1>2. n \in Nat /\ l \in Nat /\ i \in Nat /\ j \in Nat /\ 1 <= i /\ i <= j /\ j <= l
  BY <1>1
<1>3. /\ Len(Splice(t, i, j, s)) = (i - 1) + Len(s) + (Len(t) - j)
      /\ \A k \in 1 .. i - 1 : Splice(t, i, j, s)[k] = t[k]
      /\ \A k \in 1 .. Len(s) : Splice(t, i, j, s)[i - 1 + k] = s[k]
      /\ \A k \in j + 1 .. Len(t) : Splice(t, i, j, s)[i - 1 + Len(s) + (k - j)] = t[k]
  <2>1. Spliced(Splice(t, i, j, s), t, i, j, s)
    BY <1>1, SpliceAt
  <2> QED BY <2>1 DEF Spliced
<1>4. \A f \in Frames : Mprotect(p, m)[f] = IF In(f, m) THEN m.w ELSE p[f]
  BY DEF Mprotect, In
<1>5. ASSUME NEW k \in 1 .. l, k < i \/ k > j PROVE Right(t[k])
  <2> SUFFICES ASSUME NEW f \in Frames, In(f, t[k]) PROVE Mprotect(p, m)[f] = t[k].w
    OBVIOUS
  <2>1. k < i => EndOf(t[k]) <= t[i].start
    BY <1>1, PiecesInOrder
  <2>2. k > j => EndOf(t[j]) <= t[k].start
    BY <1>1, <1>2, PiecesInOrder
  <2>3. /\ m.start \in Nat /\ EndOf(m) \in Nat
        /\ t[i].start \in Nat /\ EndOf(t[j]) \in Nat
        /\ t[k].start \in Nat /\ EndOf(t[k]) \in Nat
    BY <1>1, <1>2, PieceFacts, RequestFacts
  <2>4. f \in Nat
    BY NumFramesAssumption DEF Frames
  <2>5. ~In(f, m)
    <3>1. t[k].start <= f /\ f < EndOf(t[k])
      BY DEF In
    <3>2. CASE k < i
      <4>0. EndOf(t[k]) <= m.start
        BY <2>1, <2>3, <3>2
      <4>1. f < m.start
        BY <2>3, <2>4, <3>1, <4>0
      <4> QED BY <2>3, <2>4, <4>1 DEF In
    <3>3. CASE k > j
      <4>1. EndOf(m) <= f
        BY <2>2, <2>3, <2>4, <3>1, <3>3
      <4> QED BY <2>3, <2>4, <4>1 DEF In
    <3> QED BY <1>5, <3>2, <3>3
  <2> QED BY <1>4, <2>5 DEF RightOutside
<1>6. ASSUME NEW k \in 1 .. n PROVE Right(s[k])
  BY <1>4
<1> HIDE DEF Right, d, n, l
<1>7. ASSUME NEW k \in 1 .. Len(d) PROVE Right(d[k])
  <2>1. k \in 1 .. (i - 1) + n + (l - j)
    BY <1>3 DEF d, n, l
  <2>2. CASE k < i
    <3>1. k \in 1 .. i - 1 /\ k \in 1 .. l
      BY <1>2, <2>1, <2>2
    <3> QED BY <1>3, <1>5, <2>2, <3>1 DEF d
  <2>3. CASE i <= k /\ k <= i - 1 + n
    <3>1. k - (i - 1) \in 1 .. n /\ i - 1 + (k - (i - 1)) = k
      BY <1>2, <2>1, <2>3
    <3>2. d[k] = s[k - (i - 1)]
      BY <1>3, <3>1 DEF d, n
    <3> QED BY <1>6, <3>1, <3>2
  <2>4. CASE k > i - 1 + n
    <3> DEFINE q == k - (i - 1) - n + j
    <3>1. q \in j + 1 .. l /\ q \in 1 .. l /\ q > j /\ i - 1 + n + (q - j) = k
      BY <1>2, <2>1, <2>4
    <3> HIDE DEF q
    <3>2. d[k] = t[q]
      BY <1>3, <3>1 DEF d, n, l
    <3> QED BY <1>5, <3>1, <3>2
  <2> QED BY <1>2, <2>1, <2>2, <2>3, <2>4
<1> QED BY <1>7 DEF Agrees, Right, d

LEMMA PieceExcept ==
    ASSUME NEW x \in Piece, NEW n \in Nat
    PROVE  /\ [x EXCEPT !.len = n] \in Piece
           /\ [x EXCEPT !.len = n].w = x.w /\ [x EXCEPT !.len = n].start = x.start
           /\ [x EXCEPT !.len = n].len = n
           /\ EndOf([x EXCEPT !.len = n]) = x.start + n
           /\ n = x.len => [x EXCEPT !.len = n] = x
  BY DEF Piece, EndOf

LEMMA OneLong == ASSUME NEW x \in Piece
                 PROVE  <<x>> \in Seq(Piece) /\ Len(<<x>>) = 1 /\ <<x>>[1] = x
  OBVIOUS

\* The culling leaves a tiling that is right about every frame the request does
\* not name, where the request starts in the entry `at` and ends in it, or in
\* the next one if there are two, of different protections.
LEMMA CullKeeps ==
    ASSUME NEW t, Tiles(t), NEW p, Agrees(t, p), NEW m \in Requests
    PROVE  LET lo == Min(Overlaps(t, m))
               hi == Max(Overlaps(t, m))
               c  == Cull(t, Overlaps(t, m))
           IN  /\ Tiles(c.table) /\ RightOutside(c.table, p, m)
               /\ c.at \in 1 .. Len(c.table)
               /\ c.table[c.at].w = t[lo].w /\ c.table[c.at].start = t[lo].start
               /\ In(m.start, c.table[c.at])
               /\ ~c.two => /\ EndOf(m) <= EndOf(c.table[c.at])
                            /\ t[lo].w = t[hi].w
                            /\ lo = hi => c.table = t
               /\ c.two => /\ c.at + 1 \in 1 .. Len(c.table)
                           /\ c.table[c.at + 1].w = t[hi].w
                           /\ c.table[c.at + 1].w # c.table[c.at].w
                           /\ c.table[c.at + 1].start = EndOf(c.table[c.at])
                           /\ c.table[c.at + 1].start < EndOf(m)
                           /\ EndOf(m) <= EndOf(c.table[c.at + 1])
<1> DEFINE lo   == Min(Overlaps(t, m))
           hi   == Max(Overlaps(t, m))
           two  == t[lo].w # t[hi].w
           upto == IF two THEN hi - 1 ELSE hi
           x    == [t[lo] EXCEPT !.len = EndOf(t[upto]) - t[lo].start]
           d    == Splice(t, lo, upto, <<x>>)
<1>1. Cull(t, Overlaps(t, m)) = [at |-> lo, two |-> two, table |-> d]
  BY DEF Cull
<1>2. t \in Seq(Piece) /\ Chain(t)
  BY DEF Tiles
<1>3. lo \in 1 .. Len(t) /\ hi \in lo .. Len(t) /\ In(m.start, t[lo]) /\ In(EndOf(m) - 1, t[hi])
  BY Hits
<1> HIDE DEF lo, hi, x, d
<1>4. upto \in lo .. Len(t) /\ (two => upto = hi - 1) /\ (~two => upto = hi)
  <2>1. lo # hi \/ ~two
    OBVIOUS
  <2> QED BY <1>2, <1>3, <2>1
<1>5. t[upto].w = t[lo].w
  <2>1. CASE two
    <3>1. hi \in 1 .. Len(t) /\ hi > 1 /\ hi - 1 \in 1 .. Len(t)
      BY <1>2, <1>3, <1>4, <2>1
    <3>2. t[hi].w # t[hi - 1].w
      BY <1>2, <3>1 DEF Chain
    <3>3. t[hi].w \in BOOLEAN /\ t[hi - 1].w \in BOOLEAN /\ t[lo].w \in BOOLEAN
      BY <1>2, <1>3, <3>1, PieceFacts
    <3> QED BY <1>4, <2>1, <3>2, <3>3
  <2> QED BY <1>4, <2>1
<1>6. two => EndOf(t[upto]) = t[hi].start /\ hi = upto + 1 /\ lo < hi
  <2> HAVE two
  <2>1. hi \in 1 .. Len(t) /\ hi > 1 /\ upto = hi - 1 /\ lo < hi
    BY <1>2, <1>3, <1>4
  <2> QED BY <1>2, <2>1 DEF Chain
<1> HIDE DEF upto, two
<1>7. /\ t[lo].start \in Nat /\ t[lo].len \in Nat /\ t[lo].len > 0
      /\ EndOf(t[lo]) = t[lo].start + t[lo].len /\ t[lo] \in Piece
      /\ t[upto].start \in Nat /\ t[upto].len \in Nat /\ t[upto].len > 0
      /\ EndOf(t[upto]) = t[upto].start + t[upto].len
      /\ EndOf(t[lo]) \in Nat /\ EndOf(t[upto]) \in Nat
      /\ t[hi].start \in Nat /\ EndOf(t[hi]) \in Nat
      /\ upto \in 1 .. Len(t) /\ hi \in 1 .. Len(t)
  <2>1. upto \in 1 .. Len(t) /\ hi \in 1 .. Len(t)
    BY <1>2, <1>3, <1>4
  <2>2. t[lo].len > 0 /\ t[upto].len > 0
    BY <1>2, <1>3, <2>1 DEF Chain
  <2> QED BY <1>2, <1>3, <2>1, <2>2, PieceFacts
<1>8. lo # upto => EndOf(t[lo]) <= t[upto].start
  <2>1. lo # upto => lo < upto
    BY <1>3, <1>4
  <2> QED BY <1>2, <1>3, <1>7, <2>1, PiecesInOrder
<1>9. EndOf(t[upto]) - t[lo].start \in Nat /\ EndOf(t[upto]) - t[lo].start > 0
  <2>1. CASE lo = upto
    <3>1. EndOf(t[upto]) - t[lo].start = t[lo].len
      BY <1>7, <2>1
    <3> QED BY <1>7, <3>1
  <2>2. CASE lo # upto
    <3>1. EndOf(t[lo]) \in Nat /\ EndOf(t[upto]) \in Nat /\ t[lo].start < EndOf(t[lo])
      <4>1. \A a, b \in Nat : b > 0 => a < a + b
        OBVIOUS
      <4> QED BY <1>7, <4>1
    <3>2. EndOf(t[lo]) < EndOf(t[upto])
      BY <1>7, <1>8, <2>2, <3>1
    <3> DEFINE a == EndOf(t[upto])
               b == t[lo].start
    <3>3. a \in Nat /\ b \in Nat /\ b < a
      BY <1>7, <3>1, <3>2
    <3> HIDE DEF a, b
    <3>4. a - b \in Nat /\ a - b > 0
      BY <3>3
    <3> QED BY <3>4 DEF a, b
  <2> QED BY <2>1, <2>2
<1>b. EndOf(t[upto]) \in Nat /\ EndOf(t[lo]) \in Nat
  BY <1>7
<1>c. EndOf(t[lo]) <= EndOf(t[upto])
  <2>1. CASE lo = upto
    BY <1>b, <2>1
  <2>2. CASE lo # upto
    <3>1. EndOf(t[lo]) <= t[upto].start /\ t[upto].start <= EndOf(t[upto])
      BY <1>7, <1>8, <2>2
    <3> QED BY <1>7, <1>b, <3>1
  <2> QED BY <2>1, <2>2
<1>10. /\ x \in Piece /\ x.w = t[lo].w /\ x.start = t[lo].start /\ EndOf(x) = EndOf(t[upto])
       /\ x.len > 0 /\ (upto = lo => x = t[lo])
  <2>1. /\ x \in Piece /\ x.w = t[lo].w /\ x.start = t[lo].start
        /\ x.len = EndOf(t[upto]) - t[lo].start
        /\ EndOf(x) = t[lo].start + (EndOf(t[upto]) - t[lo].start)
        /\ EndOf(t[upto]) - t[lo].start = t[lo].len => x = t[lo]
    BY <1>7, <1>9, PieceExcept DEF x
  <2>2. EndOf(x) = EndOf(t[upto]) /\ x.len > 0
    <3> DEFINE a == t[lo].start
               b == EndOf(t[upto])
    <3>1. a \in Nat /\ b \in Nat
      BY <1>7
    <3>2. x.len = b - a /\ EndOf(x) = a + (b - a) /\ b - a > 0
      BY <1>9, <2>1
    <3> HIDE DEF a, b
    <3>3. EndOf(x) = b /\ x.len > 0
      BY <3>1, <3>2
    <3> QED BY <3>3 DEF b
  <2>3. upto = lo => x = t[lo]
    BY <1>7, <1>b, <2>1
  <2> QED BY <2>1, <2>2, <2>3
<1>11. /\ d \in Seq(Piece) /\ Len(d) = (lo - 1) + 1 + (Len(t) - upto)
       /\ \A k \in 1 .. lo - 1 : d[k] = t[k]
       /\ d[lo] = x
       /\ \A k \in upto + 1 .. Len(t) : d[lo - 1 + 1 + (k - upto)] = t[k]
  <2>1. <<x>> \in Seq(Piece) /\ Len(<<x>>) = 1 /\ <<x>>[1] = x
    BY <1>10, OneLong
  <2> DEFINE one == <<x>>
  <2> HIDE DEF one
  <2>a. one \in Seq(Piece) /\ Len(one) = 1 /\ one[1] = x
    BY <2>1 DEF one
  <2>2. Spliced(Splice(t, lo, upto, one), t, lo, upto, one)
    BY <1>2, <1>3, <1>4, <2>a, SpliceAt
  <2>b. d = Splice(t, lo, upto, one)
    BY DEF one, d
  <2>3. 1 \in 1 .. Len(one) /\ lo - 1 + 1 = lo
    BY <1>3, <2>a
  <2>4. Spliced(d, t, lo, upto, one)
    BY <2>2, <2>b
  <2>5. d[lo] = x
    BY <2>3, <2>4, <2>a DEF Spliced
  <2> QED BY <2>4, <2>5, <2>a DEF Spliced
<1>12. Tiles(d)
  <2>1. <<x>> \in Seq(Piece) /\ Len(<<x>>) = 1 /\ <<x>>[1] = x
    BY <1>10, OneLong
  <2>2. Chain(<<x>>)
    BY <1>10, <2>1 DEF Chain
  <2>3. lo > 1 => x.w # t[lo - 1].w
    BY <1>2, <1>3, <1>10 DEF Chain
  <2>4. upto < Len(t) => x.w # t[upto + 1].w
    <3> HAVE upto < Len(t)
    <3>1. upto + 1 \in 1 .. Len(t) /\ upto + 1 > 1 /\ upto + 1 - 1 = upto
      BY <1>2, <1>7
    <3>2. t[upto + 1].w # t[upto].w
      <4> DEFINE q == upto + 1
      <4>1. q \in 1 .. Len(t) /\ q > 1
        BY <3>1
      <4> HIDE DEF q
      <4>2. t[q].w # t[q - 1].w
        BY <1>2, <4>1 DEF Chain
      <4>3. q - 1 = upto
        BY <1>7 DEF q
      <4>4. t[q].w # t[upto].w
        BY <4>2, <4>3
      <4> QED BY <4>4 DEF q
    <3> QED BY <1>5, <1>10, <3>1, <3>2
  <2>5. <<x>>[1].start = t[lo].start /\ EndOf(<<x>>[Len(<<x>>)]) = EndOf(t[upto])
    BY <1>10, <2>1
  <2> DEFINE one == <<x>>
  <2>6. /\ one \in Seq(Piece) /\ Len(one) >= 1 /\ Chain(one)
        /\ one[1].start = t[lo].start /\ EndOf(one[Len(one)]) = EndOf(t[upto])
        /\ lo > 1 => one[1].w # t[lo - 1].w
        /\ upto < Len(t) => one[Len(one)].w # t[upto + 1].w
    BY <2>1, <2>2, <2>3, <2>4, <2>5
  <2> HIDE DEF one
  <2>7. Tiles(Splice(t, lo, upto, one))
    BY <1>3, <1>4, <2>6, SpliceTiles
  <2> QED BY <2>7 DEF one, d
<1>13. lo \in 1 .. Len(d)
  BY <1>2, <1>3, <1>4, <1>11
<1>14. two => lo + 1 \in 1 .. Len(d) /\ d[lo + 1] = t[hi]
  <2> HAVE two
  <2>1. /\ hi \in upto + 1 .. Len(t) /\ lo - 1 + 1 + (hi - upto) = lo + 1
        /\ lo + 1 \in 1 .. Len(d)
    BY <1>2, <1>3, <1>4, <1>6, <1>7, <1>11
  <2> QED BY <1>11, <2>1
<1>16. /\ m.start \in Nat /\ EndOf(m) \in Nat /\ m.start < EndOf(m)
       /\ t[lo].start <= m.start /\ m.start < EndOf(t[lo])
       /\ t[hi].start < EndOf(m) /\ EndOf(m) <= EndOf(t[hi])
  <2>1. m.start \in Nat /\ EndOf(m) \in Nat /\ m.start < EndOf(m)
    BY RequestFacts
  <2>2. t[hi].start <= EndOf(m) - 1 /\ EndOf(m) - 1 < EndOf(t[hi])
    BY <1>3 DEF In
  <2>3. t[hi].start < EndOf(m) /\ EndOf(m) <= EndOf(t[hi])
    <3>1. \A a, b, c \in Nat : a <= b - 1 /\ b - 1 < c => a < b /\ b <= c
      OBVIOUS
    <3> QED BY <1>7, <2>1, <2>2, <3>1
  <2> QED BY <1>3, <2>1, <2>3 DEF In
<1>15. RightOutside(d, p, m)
  <2> SUFFICES ASSUME NEW k \in 1 .. Len(d), NEW f \in Frames, In(f, d[k]), ~In(f, m)
               PROVE  p[f] = d[k].w
    BY DEF RightOutside
  <2>0. k \in 1 .. lo + (Len(t) - upto)
    BY <1>3, <1>11
  <2>1. CASE k < lo
    <3>1. k \in 1 .. lo - 1 /\ k \in 1 .. Len(t)
      BY <1>2, <1>3, <2>0, <2>1
    <3> QED BY <1>11, <3>1 DEF Agrees
  <2>2. CASE k > lo
    <3> DEFINE q == k - lo + upto
    <3>1. q \in upto + 1 .. Len(t) /\ q \in 1 .. Len(t) /\ lo - 1 + 1 + (q - upto) = k
      <4>1. Len(t) \in Nat /\ lo \in Nat /\ upto \in Nat /\ upto <= Len(t) /\ 1 <= upto
        <5>1. Len(t) \in Nat /\ lo \in Nat
          BY <1>2, <1>3
        <5> QED BY <1>2, <1>3, <1>7, <5>1
      <4> QED BY <2>0, <2>2, <4>1
    <3> HIDE DEF q
    <3>2. d[k] = t[q]
      BY <1>11, <3>1
    <3> QED BY <3>1, <3>2 DEF Agrees
  <2>3. CASE k = lo
    <3>1. f \in Nat /\ m.start \in Nat /\ EndOf(m) \in Nat
      BY RequestFacts, NumFramesAssumption DEF Frames
    <3>2. In(f, x)
      BY <1>11, <2>3
    <3>3. t[lo].start <= f /\ f < EndOf(t[upto])
      BY <1>10, <3>2 DEF In
    <3>4. CASE f < m.start
      <4>1. In(f, t[lo])
        <5>1. m.start < EndOf(t[lo])
          BY <1>3 DEF In
        <5>2. f < EndOf(t[lo])
          BY <1>b, <3>1, <3>4, <5>1
        <5> QED BY <3>3, <5>2 DEF In
      <4> QED BY <1>3, <1>10, <1>11, <2>3, <4>1 DEF Agrees
    <3>5. CASE ~(f < m.start)
      <4>1. EndOf(m) <= f
        BY <3>1, <3>5 DEF In
      <4>2. ~two
        BY <1>3, <1>6, <1>7, <3>1, <3>3, <4>1 DEF In
      <4>3. upto = hi
        BY <1>4, <4>2 DEF two
      <4>4. In(f, t[hi])
        <5>1. t[hi].start < EndOf(m)
          BY <1>16
        <5>2. t[hi].start <= f /\ f < EndOf(t[hi])
          BY <1>7, <3>1, <3>3, <4>1, <4>3, <5>1
        <5> QED BY <5>2 DEF In
      <4> QED BY <1>5, <1>7, <1>10, <1>11, <2>3, <4>3, <4>4 DEF Agrees
    <3> QED BY <3>4, <3>5
  <2> QED BY <1>3, <2>0, <2>1, <2>2, <2>3
<1>17. In(m.start, d[lo])
  <2>1. m.start < EndOf(t[upto])
    BY <1>16, <1>b, <1>c
  <2> QED BY <1>10, <1>11, <1>16, <2>1 DEF In
<1>18. d[lo].w = t[lo].w /\ d[lo].start = t[lo].start /\ EndOf(d[lo]) = EndOf(t[upto])
  BY <1>10, <1>11
<1>19. ASSUME ~two PROVE /\ EndOf(m) <= EndOf(d[lo]) /\ t[lo].w = t[hi].w
                         /\ lo = hi => d = t
  <2>1. upto = hi /\ t[lo].w = t[hi].w
    BY <1>4, <1>19 DEF two
  <2>2. ASSUME lo = hi PROVE d = t
    <3>1. upto = lo /\ Len(d) = Len(t)
      BY <1>2, <1>3, <1>11, <2>1, <2>2
    <3>2. ASSUME NEW k \in 1 .. Len(d) PROVE d[k] = t[k]
      <4>1. CASE k < lo
        BY <1>3, <1>11, <4>1
      <4>2. CASE k = lo
        BY <1>10, <1>11, <3>1, <4>2
      <4>3. CASE k > lo
        <5>1. k \in upto + 1 .. Len(t) /\ lo - 1 + 1 + (k - upto) = k
          BY <1>2, <1>3, <3>1, <4>3
        <5> QED BY <1>11, <5>1
      <4> QED BY <1>3, <4>1, <4>2, <4>3
    <3> QED BY <1>2, <1>11, <3>1, <3>2, SeqEqual
  <2> QED BY <1>16, <1>18, <2>1, <2>2
<1>20. ASSUME two PROVE /\ lo + 1 \in 1 .. Len(d) /\ d[lo + 1].w = t[hi].w
                        /\ d[lo + 1].w # d[lo].w /\ d[lo + 1].start = EndOf(d[lo])
                        /\ d[lo + 1].start < EndOf(m) /\ EndOf(m) <= EndOf(d[lo + 1])
  <2>1. t[lo].w # t[hi].w
    BY <1>20 DEF two
  <2> QED BY <1>6, <1>14, <1>16, <1>18, <1>20, <2>1
<1>21. RightOutside(d, p, m) /\ Tiles(d) /\ lo \in 1 .. Len(d)
  BY <1>12, <1>13, <1>15
<1> QED BY <1>1, <1>17, <1>18, <1>19, <1>20, <1>21 DEF lo, hi

-----------------------------------------------------------------------------
(***************************************************************************)
(* merge_in_map.                                                           *)
(***************************************************************************)

\* x is the piece of protection w from frame a up to b.
Is(x, w, a, b) == /\ x \in Piece /\ x.w = w /\ x.start = a /\ EndOf(x) = b
                  /\ x.len > 0 /\ a \in Nat /\ b \in Nat /\ a < b

LEMMA IsExcept ==
    ASSUME NEW x \in Piece, NEW a \in Nat, NEW n \in Nat, n > 0
    PROVE  /\ Is([x EXCEPT !.len = n], x.w, x.start, x.start + n)
           /\ Is([x EXCEPT !.start = a, !.len = n], x.w, a, a + n)
<1>1. x.w \in BOOLEAN /\ x.start \in Nat
  BY DEF Piece
<1>2. \A y \in Piece, c \in Nat :
          y.w = x.w /\ y.start = c /\ y.len = n => Is(y, x.w, c, c + n)
  BY DEF Is, EndOf
<1>3. LET y == [x EXCEPT !.len = n]
      IN  y \in Piece /\ y.w = x.w /\ y.start = x.start /\ y.len = n
  BY DEF Piece
<1>4. LET y == [x EXCEPT !.start = a, !.len = n]
      IN  y \in Piece /\ y.w = x.w /\ y.start = a /\ y.len = n
  BY DEF Piece
<1> QED BY <1>1, <1>2, <1>3, <1>4

LEMMA IsPiece ==
    ASSUME NEW t, Tiles(t), NEW i \in 1 .. Len(t)
    PROVE  Is(t[i], t[i].w, t[i].start, EndOf(t[i]))
<1>1. t[i].len > 0
  BY DEF Tiles, Chain
<1>2. t[i] \in Piece
  BY ElementOfSeq DEF Tiles
<1> QED BY <1>1, <1>2 DEF Is, Piece, EndOf

\* What x says of its frames is right once m is granted.
Fits(x, p, m) == \A f \in Frames : In(f, x) => x.w = IF In(f, m) THEN m.w ELSE p[f]

Grants(d, p, m) == Tiles(d) /\ Agrees(d, Mprotect(p, m))

\* The pieces around t[i] .. t[j] differ from t[i] and t[j].
LEMMA Around ==
    ASSUME NEW t, Tiles(t), NEW i \in 1 .. Len(t)
    PROVE  /\ i > 1 => t[i].w # t[i - 1].w /\ t[i].start = EndOf(t[i - 1])
           /\ i < Len(t) => t[i].w # t[i + 1].w /\ t[i + 1].start = EndOf(t[i])
<1>1. i > 1 => t[i].w # t[i - 1].w /\ t[i].start = EndOf(t[i - 1])
  BY DEF Tiles, Chain
<1>2. ASSUME i < Len(t) PROVE t[i].w # t[i + 1].w /\ t[i + 1].start = EndOf(t[i])
  <2> DEFINE k == i + 1
  <2>1. Len(t) \in Nat
    BY DEF Tiles
  <2>2. k \in 1 .. Len(t) /\ k > 1 /\ k - 1 = i
    BY <1>2, <2>1
  <2> HIDE DEF k
  <2>3. t[k].start = EndOf(t[k - 1]) /\ t[k].w # t[k - 1].w
    BY <2>2 DEF Tiles, Chain
  <2>4. t[k].start = EndOf(t[i]) /\ t[k].w # t[i].w
    BY <2>2, <2>3
  <2> QED BY <2>4 DEF k
<1> QED BY <1>1, <1>2

\* Replacing t[i] .. t[j] by one, two or three pieces.
LEMMA SpliceOne ==
    ASSUME NEW t, Tiles(t), NEW p, NEW m \in Requests, RightOutside(t, p, m),
           NEW i \in 1 .. Len(t), NEW j \in i .. Len(t),
           t[i].start <= m.start, EndOf(m) <= EndOf(t[j]), t[i].w = t[j].w,
           NEW x, Is(x, t[i].w, t[i].start, EndOf(t[j])), Fits(x, p, m)
    PROVE  Grants(Splice(t, i, j, <<x>>), p, m)
<1> DEFINE s == <<x>>
<1>1. /\ s \in Seq(Piece) /\ Len(s) = 1 /\ s[1] = x
      /\ x.len > 0 /\ x.w = t[i].w /\ x.start = t[i].start /\ EndOf(x) = EndOf(t[j])
  BY DEF Is
<1> HIDE DEF s
<1>2. Chain(s)
  BY <1>1 DEF Chain
<1>3. j \in 1 .. Len(t)
  BY DEF Tiles
<1>4. i > 1 => s[1].w # t[i - 1].w
  BY <1>1, Around
<1>5. j < Len(t) => s[Len(s)].w # t[j + 1].w
  BY <1>1, <1>3, Around
<1>6. Tiles(Splice(t, i, j, s))
  <2>1. Len(s) >= 1 /\ s[1].start = t[i].start /\ EndOf(s[Len(s)]) = EndOf(t[j])
    BY <1>1
  <2> QED BY <1>1, <1>2, <1>4, <1>5, <2>1, SpliceTiles
<1>7. \A k \in 1 .. Len(s) : \A f \in Frames :
          In(f, s[k]) => s[k].w = IF In(f, m) THEN m.w ELSE p[f]
  BY <1>1 DEF Fits
<1>8. Agrees(Splice(t, i, j, s), Mprotect(p, m))
  BY <1>1, <1>7, SpliceAgrees
<1> QED BY <1>6, <1>8 DEF Grants, s

LEMMA SpliceTwo ==
    ASSUME NEW t, Tiles(t), NEW p, NEW m \in Requests, RightOutside(t, p, m),
           NEW i \in 1 .. Len(t), NEW j \in i .. Len(t),
           t[i].start <= m.start, EndOf(m) <= EndOf(t[j]), t[i].w # t[j].w,
           NEW b, NEW x, Is(x, t[i].w, t[i].start, b), Fits(x, p, m),
                  NEW y, Is(y, t[j].w, b, EndOf(t[j])), Fits(y, p, m)
    PROVE  Grants(Splice(t, i, j, <<x, y>>), p, m)
<1> DEFINE s == <<x, y>>
<1>1. /\ s \in Seq(Piece) /\ Len(s) = 2 /\ s[1] = x /\ s[2] = y
      /\ x.len > 0 /\ x.w = t[i].w /\ x.start = t[i].start /\ EndOf(x) = b
      /\ y.len > 0 /\ y.w = t[j].w /\ y.start = b /\ EndOf(y) = EndOf(t[j])
  BY DEF Is
<1> HIDE DEF s
<1>2. Chain(s)
  <2> SUFFICES ASSUME NEW k \in 1 .. Len(s)
               PROVE  /\ s[k].len > 0
                      /\ k > 1 => s[k].start = EndOf(s[k - 1]) /\ s[k].w # s[k - 1].w
    BY DEF Chain
  <2>1. k = 1 \/ k = 2
    BY <1>1
  <2> QED BY <1>1, <2>1
<1>3. j \in 1 .. Len(t)
  BY DEF Tiles
<1>4. i > 1 => s[1].w # t[i - 1].w
  BY <1>1, Around
<1>5. j < Len(t) => s[Len(s)].w # t[j + 1].w
  BY <1>1, <1>3, Around
<1>6. Tiles(Splice(t, i, j, s))
  <2>1. Len(s) >= 1 /\ s[1].start = t[i].start /\ EndOf(s[Len(s)]) = EndOf(t[j])
    BY <1>1
  <2> QED BY <1>1, <1>2, <1>4, <1>5, <2>1, SpliceTiles
<1>7. \A k \in 1 .. Len(s) : \A f \in Frames :
          In(f, s[k]) => s[k].w = IF In(f, m) THEN m.w ELSE p[f]
  BY <1>1 DEF Fits
<1>8. Agrees(Splice(t, i, j, s), Mprotect(p, m))
  BY <1>1, <1>7, SpliceAgrees
<1> QED BY <1>6, <1>8 DEF Grants, s

LEMMA SpliceThree ==
    ASSUME NEW t, Tiles(t), NEW p, NEW m \in Requests, RightOutside(t, p, m),
           NEW i \in 1 .. Len(t), m.w # t[i].w,
           NEW x, Is(x, t[i].w, t[i].start, m.start), Fits(x, p, m),
           NEW z, Is(z, t[i].w, EndOf(m), EndOf(t[i])), Fits(z, p, m)
    PROVE  Grants(Splice(t, i, i, <<x, m, z>>), p, m)
<1> DEFINE s == <<x, m, z>>
<1>0. /\ m \in Piece /\ m.len > 0 /\ m.len \in Nat
      /\ m.start \in Nat /\ EndOf(m) \in Nat
  BY RequestFacts DEF Requests
<1>1. /\ s \in Seq(Piece) /\ Len(s) = 3 /\ s[1] = x /\ s[2] = m /\ s[3] = z
      /\ x.len > 0 /\ x.w = t[i].w /\ x.start = t[i].start /\ EndOf(x) = m.start
      /\ z.len > 0 /\ z.w = t[i].w /\ z.start = EndOf(m) /\ EndOf(z) = EndOf(t[i])
  BY <1>0 DEF Is
<1> HIDE DEF s
<1>2. Chain(s)
  <2> SUFFICES ASSUME NEW k \in 1 .. Len(s)
               PROVE  /\ s[k].len > 0
                      /\ k > 1 => s[k].start = EndOf(s[k - 1]) /\ s[k].w # s[k - 1].w
    BY DEF Chain
  <2>1. k = 1 \/ k = 2 \/ k = 3
    BY <1>1
  <2> QED BY <1>0, <1>1, <2>1
<1>3. i \in i .. Len(t)
  BY DEF Tiles
<1>4. i > 1 => s[1].w # t[i - 1].w
  BY <1>1, Around
<1>5. i < Len(t) => s[Len(s)].w # t[i + 1].w
  BY <1>1, <1>3, Around
<1>6. Tiles(Splice(t, i, i, s))
  <2>1. Len(s) >= 1 /\ s[1].start = t[i].start /\ EndOf(s[Len(s)]) = EndOf(t[i])
    BY <1>1
  <2> QED BY <1>1, <1>2, <1>3, <1>4, <1>5, <2>1, SpliceTiles
<1>7. \A k \in 1 .. Len(s) : \A f \in Frames :
          In(f, s[k]) => s[k].w = IF In(f, m) THEN m.w ELSE p[f]
  BY <1>1 DEF Fits
<1>8. t[i].start <= m.start /\ EndOf(m) <= EndOf(t[i])
  BY DEF Is
<1>9. Agrees(Splice(t, i, i, s), Mprotect(p, m))
  BY <1>1, <1>3, <1>7, <1>8, SpliceAgrees
<1> QED BY <1>6, <1>9 DEF Grants, s

\* One hit, of the other protection: none of the asserts fails, and the table
\* is right about every frame once the request is granted.
LEMMA MergeOneGrants ==
    ASSUME NEW t, Tiles(t), NEW p, NEW m \in Requests, RightOutside(t, p, m),
           NEW i \in 1 .. Len(t), t[i].w # m.w, In(m.start, t[i]), EndOf(m) <= EndOf(t[i])
    PROVE  Grants(MergeOne(t, i, m), p, m)
<1> DEFINE hit    == t[i]
           before == t[i - 1]
           after  == t[i + 1]
<1>1. t \in Seq(Piece) /\ Len(t) \in Nat /\ t[1].start = 0 /\ EndOf(t[Len(t)]) = NumFrames
  BY DEF Tiles
<1>2. /\ m.w \in BOOLEAN /\ m.start \in Nat /\ m.len \in Nat /\ EndOf(m) \in Nat
      /\ EndOf(m) = m.start + m.len /\ 2 <= m.start /\ EndOf(m) < NumFrames
      /\ m.len > 0 /\ m.start < EndOf(m)
  BY RequestFacts
<1>3. /\ hit \in Piece /\ hit.w \in BOOLEAN /\ hit.start \in Nat /\ hit.len \in Nat
      /\ EndOf(hit) \in Nat /\ EndOf(hit) = hit.start + hit.len /\ hit.start < EndOf(hit)
  BY <1>1, PieceFacts, IsPiece DEF Is
<1>4. hit.start <= m.start /\ m.start < EndOf(hit) /\ EndOf(m) <= EndOf(hit) /\ hit.w # m.w
  BY DEF In
<1>5. \A k \in 1 .. Len(t) : \A f \in Frames : In(f, t[k]) /\ ~In(f, m) => p[f] = t[k].w
  BY DEF RightOutside
<1>6. \A f \in Frames : f \in Nat
  BY NumFramesAssumption DEF Frames
<1>7. hit.start = m.start => i > 1
  BY <1>1, <1>2
<1>a. i \in i .. Len(t)
  BY <1>1
<1>8. ASSUME i > 1
      PROVE  /\ i - 1 \in 1 .. Len(t) /\ i \in (i - 1) .. Len(t)
             /\ before \in Piece /\ before.w \in BOOLEAN
             /\ before.start \in Nat /\ before.len \in Nat
             /\ EndOf(before) \in Nat /\ EndOf(before) = before.start + before.len
             /\ before.start < EndOf(before) /\ before.len > 0
             /\ hit.start = EndOf(before) /\ before.w = m.w
  <2>1. hit.w # before.w /\ hit.start = EndOf(before)
    BY <1>8, Around
  <2>2. i - 1 \in 1 .. Len(t) /\ i \in (i - 1) .. Len(t)
    BY <1>1, <1>8
  <2>3. before.w \in BOOLEAN
    BY <1>1, <2>2, PieceFacts
  <2>4. before.w = m.w
    BY <1>2, <1>3, <1>4, <2>1, <2>3
  <2> QED BY <1>1, <2>1, <2>2, <2>4, PieceFacts, IsPiece DEF Is
<1>9. ASSUME i < Len(t)
      PROVE  /\ i + 1 \in 1 .. Len(t)
             /\ after \in Piece /\ after.w \in BOOLEAN /\ after.start \in Nat /\ after.len \in Nat
             /\ EndOf(after) \in Nat /\ EndOf(after) = after.start + after.len
             /\ after.start < EndOf(after) /\ after.len > 0
             /\ after.start = EndOf(hit) /\ after.w = m.w
  <2>1. hit.w # after.w /\ after.start = EndOf(hit)
    BY <1>9, Around
  <2>2. i + 1 \in 1 .. Len(t)
    BY <1>1, <1>9
  <2>3. after.w \in BOOLEAN
    BY <1>1, <2>2, PieceFacts
  <2>4. after.w = m.w
    BY <1>2, <1>3, <1>4, <2>1, <2>3
  <2> QED BY <1>1, <2>1, <2>2, <2>4, PieceFacts, IsPiece DEF Is
<1>10. EndOf(hit) = EndOf(m) => i < Len(t)
  BY <1>1, <1>2
<1> HIDE DEF hit, before, after
<1>11. /\ before = t[i - 1] /\ hit = t[i] /\ after = t[i + 1]
  BY DEF hit, before, after
<1>12. CASE hit.start = m.start /\ hit.len = m.len
  <2>0. i > 1
    BY <1>7, <1>12
  <2>1. EndOf(hit) = EndOf(m)
    BY <1>2, <1>3, <1>12
  <2>2. i < Len(t)
    BY <1>10, <2>1
  <2> DEFINE n == before.len + after.len + hit.len
             x == [before EXCEPT !.len = n]
  <2>3. n \in Nat /\ n > 0 /\ before.start + n = EndOf(after)
    <3>2. EndOf(after) = before.start + before.len + hit.len + after.len
      BY <1>3, <1>8, <2>0, <1>9, <2>2
    <3>3. /\ n \in Nat /\ n > 0
          /\ before.start + n = before.start + before.len + hit.len + after.len
      <4> HIDE DEF x
      <4>1. /\ before.start \in Nat /\ before.len \in Nat /\ after.len \in Nat
            /\ hit.len \in Nat /\ before.len > 0
        BY <1>3, <1>8, <2>0, <1>9, <2>2
      <4> DEFINE a == before.start
                 b == before.len
                 c == after.len
                 d == hit.len
      <4> HIDE DEF a, b, c, d
      <4>2. a \in Nat /\ b \in Nat /\ c \in Nat /\ d \in Nat /\ b > 0
        BY <4>1 DEF a, b, c, d
      <4>3. b + c + d \in Nat /\ b + c + d > 0 /\ a + (b + c + d) = a + b + d + c
        BY <4>2
      <4> QED BY <4>3 DEF a, b, c, d, n
    <3> QED BY <3>2, <3>3
  <2> HIDE DEF n
  <2>4. Is(x, before.w, before.start, EndOf(after))
    BY <1>8, <2>0, <2>3, IsExcept
  <2>5. MergeOne(t, i, m) = Splice(t, i - 1, i + 1, <<x>>)
    BY <1>8, <2>0, <1>9, <1>11, <1>12, <2>2 DEF MergeOne, n
  <2> HIDE DEF x
  <2>6. Fits(x, p, m)
    <3> SUFFICES ASSUME NEW f \in Frames, In(f, x), ~In(f, m) PROVE p[f] = x.w
      BY <1>8, <2>0, <2>4 DEF Fits, Is
    <3>1. before.start <= f /\ f < EndOf(after) /\ (f < m.start \/ EndOf(m) <= f)
      BY <1>2, <1>6, <2>4 DEF In, Is
    <3>2. CASE f < m.start
      BY <1>5, <1>8, <2>0, <1>11, <1>12, <2>4, <3>1, <3>2 DEF In, Is
    <3>3. CASE EndOf(m) <= f
      BY <1>5, <1>8, <2>0, <1>9, <1>11, <2>1, <2>2, <2>4, <3>1, <3>3 DEF In, Is
    <3> QED BY <3>1, <3>2, <3>3
  <2>7. i + 1 \in (i - 1) .. Len(t)
    BY <1>1, <2>2
  <2>8. before.start <= m.start /\ EndOf(m) <= EndOf(after) /\ before.w = after.w
    <3>1. before.start < m.start
      BY <1>8, <1>12, <2>0
    <3>2. EndOf(m) < EndOf(after)
      BY <1>9, <2>1, <2>2
    <3>3. before.w = after.w
      BY <1>8, <1>9, <2>0, <2>2
    <3>4. before.start \in Nat /\ EndOf(after) \in Nat
      BY <1>8, <1>9, <2>0, <2>2
    <3> QED BY <1>2, <3>1, <3>2, <3>3, <3>4
  <2> QED BY <1>8, <2>0, <1>11, <2>4, <2>5, <2>6, <2>7, <2>8, SpliceOne
<1>13. CASE hit.start = m.start /\ hit.len # m.len
  <2>0. i > 1
    BY <1>7, <1>13
  <2> DEFINE x == [before EXCEPT !.len = before.len + m.len]
             n == hit.len - m.len
             y == [hit EXCEPT !.start = EndOf(m), !.len = n]
  <2> HIDE DEF x, y
  <2>1. n \in Nat /\ n > 0 /\ EndOf(m) + n = EndOf(hit)
    <3> DEFINE a == hit.start
               b == hit.len
               c == m.len
    <3> HIDE DEF a, b, c
    <3>1. /\ a \in Nat /\ b \in Nat /\ c \in Nat /\ a + c <= a + b /\ b # c
          /\ EndOf(m) = a + c /\ EndOf(hit) = a + b
      BY <1>2, <1>3, <1>4, <1>13 DEF a, b, c
    <3>2. b - c \in Nat /\ b - c > 0 /\ (a + c) + (b - c) = a + b
      BY <3>1
    <3> QED BY <3>1, <3>2 DEF b, c
  <2> HIDE DEF n
  <2>2. Is(y, hit.w, EndOf(m), EndOf(hit))
    BY <1>2, <1>3, <2>1, IsExcept DEF y
  <2>3. /\ before.len + m.len \in Nat /\ before.len + m.len > 0
        /\ before.start + (before.len + m.len) = EndOf(m)
    <3> DEFINE a == before.start
               b == before.len
               c == m.len
    <3> HIDE DEF a, b, c
    <3>1. a \in Nat /\ b \in Nat /\ c \in Nat /\ b > 0 /\ EndOf(m) = a + b + c
      BY <1>2, <1>8, <2>0, <1>13 DEF a, b, c
    <3>2. b + c \in Nat /\ b + c > 0 /\ a + (b + c) = a + b + c
      BY <3>1
    <3> QED BY <3>1, <3>2 DEF a, b, c
  <2>4. Is(x, before.w, before.start, EndOf(m))
    <3> DEFINE l == before.len + m.len
    <3>1. l \in Nat /\ l > 0 /\ before.start + l = EndOf(m)
      BY <2>3
    <3> HIDE DEF l
    <3>2. Is([before EXCEPT !.len = l], before.w, before.start, EndOf(m))
      BY <1>8, <2>0, <3>1, IsExcept
    <3> QED BY <3>2 DEF l, x
  <2>5. MergeOne(t, i, m) = Splice(t, i - 1, i, <<x, y>>)
    BY <2>0, <1>11, <1>13 DEF MergeOne, n, x, y
  <2>6. Fits(x, p, m)
    <3> SUFFICES ASSUME NEW f \in Frames, In(f, x), ~In(f, m) PROVE p[f] = x.w
      BY <1>8, <2>0, <2>4 DEF Fits, Is
    <3>1. In(f, before)
      BY <1>2, <1>6, <1>8, <2>0, <1>13, <2>4 DEF In, Is
    <3> QED BY <1>5, <1>8, <1>11, <2>0, <2>4, <3>1 DEF Is
  <2>7. Fits(y, p, m)
    <3> SUFFICES ASSUME NEW f \in Frames, In(f, y) PROVE ~In(f, m) /\ p[f] = y.w
      BY DEF Fits
    <3>1. EndOf(m) <= f /\ f < EndOf(hit)
      BY <2>2 DEF In, Is
    <3>2. ~In(f, m)
      BY <1>2, <1>6, <3>1 DEF In
    <3>3. In(f, hit)
      BY <1>2, <1>3, <1>4, <1>6, <3>1 DEF In
    <3> QED BY <1>5, <1>11, <2>2, <3>2, <3>3 DEF Is
  <2>8. before.start <= m.start /\ before.w # hit.w
    BY <1>2, <1>3, <1>4, <1>8, <2>0, <1>13
  <2> QED BY <1>4, <1>8, <1>11, <2>0, <2>2, <2>4, <2>5, <2>6, <2>7, <2>8, SpliceTwo
<1>14. CASE hit.start # m.start /\ EndOf(hit) = EndOf(m)
  <2>1. i < Len(t)
    BY <1>10, <1>14
  <2> DEFINE k == hit.len - m.len
             x == [hit EXCEPT !.len = k]
             a == after.start - m.len
             n == after.len + m.len
             y == [after EXCEPT !.start = a, !.len = n]
  <2>2. k \in Nat /\ k > 0 /\ hit.start + k = m.start
    <3>2. hit.start < m.start /\ hit.start + hit.len = m.start + m.len
      BY <1>2, <1>3, <1>4, <1>14
    <3>3. /\ hit.start \in Nat /\ hit.len \in Nat /\ m.start \in Nat /\ m.len \in Nat
      BY <1>2, <1>3
    <3> DEFINE e == hit.start
               f == hit.len
               g == m.start
               h == m.len
    <3> HIDE DEF e, f, g, h
    <3>4. e \in Nat /\ f \in Nat /\ g \in Nat /\ h \in Nat /\ e < g /\ e + f = g + h
      BY <3>2, <3>3 DEF e, f, g, h
    <3>5. f - h \in Nat /\ f - h > 0 /\ e + (f - h) = g
      BY <3>4
    <3> QED BY <3>5 DEF e, f, g, h, k
  <2>3. a \in Nat /\ n \in Nat /\ n > 0 /\ a = m.start /\ a + n = EndOf(after)
    <3>2. after.start = m.start + m.len
      BY <1>2, <1>9, <1>14, <2>1
    <3>3. /\ after.start \in Nat /\ after.len \in Nat /\ m.start \in Nat /\ m.len \in Nat
          /\ m.len > 0 /\ EndOf(after) = after.start + after.len
      BY <1>2, <1>9, <2>1
    <3> DEFINE s == after.start
               l == after.len
               b == m.start
               c == m.len
    <3> HIDE DEF s, l, b, c, x, y
    <3>4. s \in Nat /\ l \in Nat /\ b \in Nat /\ c \in Nat /\ c > 0 /\ s = b + c
      BY <3>2, <3>3 DEF s, l, b, c
    <3>5. /\ s - c \in Nat /\ l + c \in Nat /\ l + c > 0 /\ s - c = b
          /\ (s - c) + (l + c) = s + l
      BY <3>4
    <3> QED BY <3>3, <3>5 DEF s, l, b, c
  <2>4. MergeOne(t, i, m) = Splice(t, i, i + 1, <<x, y>>)
    BY <1>11, <1>14, <2>1 DEF MergeOne
  <2> HIDE DEF k, a, n
  <2>5. Is(x, hit.w, hit.start, m.start)
    BY <1>3, <2>2, IsExcept
  <2>6. Is(y, after.w, m.start, EndOf(after))
    BY <1>9, <2>1, <2>3, IsExcept
  <2> HIDE DEF x, y
  <2>7. Fits(x, p, m)
    <3> SUFFICES ASSUME NEW f \in Frames, In(f, x) PROVE ~In(f, m) /\ p[f] = x.w
      BY DEF Fits
    <3>1. hit.start <= f /\ f < m.start
      BY <2>5 DEF In, Is
    <3>2. ~In(f, m)
      BY <1>2, <1>6, <3>1 DEF In
    <3>3. In(f, hit)
      BY <1>2, <1>3, <1>4, <1>6, <3>1 DEF In
    <3> QED BY <1>5, <1>11, <2>5, <3>2, <3>3 DEF Is
  <2>8. Fits(y, p, m)
    <3> SUFFICES ASSUME NEW f \in Frames, In(f, y), ~In(f, m) PROVE p[f] = y.w
      BY <1>9, <2>1, <2>6 DEF Fits, Is
    <3>1. In(f, after)
      BY <1>2, <1>3, <1>6, <1>9, <1>14, <2>1, <2>6 DEF In, Is
    <3> QED BY <1>5, <1>9, <1>11, <2>1, <2>6, <3>1 DEF Is
  <2>9. i + 1 \in i .. Len(t)
    BY <1>1, <2>1
  <2>10. EndOf(m) <= EndOf(after) /\ hit.w # after.w
    BY <1>2, <1>3, <1>4, <1>9, <1>14, <2>1
  <2> QED BY <1>4, <1>11, <2>4, <2>5, <2>6, <2>7, <2>8, <2>9, <2>10, SpliceTwo
<1>15. CASE hit.start # m.start /\ EndOf(hit) # EndOf(m)
  <2> DEFINE k == m.start - hit.start
             x == [hit EXCEPT !.len = k]
             n == EndOf(hit) - EndOf(m)
             z == [hit EXCEPT !.start = EndOf(m), !.len = n]
  <2>1. k \in Nat /\ k > 0 /\ hit.start + k = m.start
    BY <1>2, <1>3, <1>4, <1>15
  <2>2. n \in Nat /\ n > 0 /\ EndOf(m) + n = EndOf(hit)
    <3>1. \A a, b \in Nat : a <= b /\ a # b => b - a \in Nat /\ b - a > 0 /\ a + (b - a) = b
      OBVIOUS
    <3> QED BY <1>2, <1>3, <1>4, <1>15, <3>1
  <2>3. MergeOne(t, i, m) = Splice(t, i, i, <<x, m, z>>)
    BY <1>11, <1>15 DEF MergeOne
  <2> HIDE DEF k, n
  <2>4. Is(x, hit.w, hit.start, m.start)
    BY <1>3, <2>1, IsExcept
  <2>5. Is(z, hit.w, EndOf(m), EndOf(hit))
    BY <1>2, <1>3, <2>2, IsExcept
  <2> HIDE DEF x, z
  <2>6. Fits(x, p, m)
    <3> SUFFICES ASSUME NEW f \in Frames, In(f, x) PROVE ~In(f, m) /\ p[f] = x.w
      BY DEF Fits
    <3>1. hit.start <= f /\ f < m.start
      BY <2>4 DEF In, Is
    <3>2. ~In(f, m)
      BY <1>2, <1>6, <3>1 DEF In
    <3>3. In(f, hit)
      BY <1>2, <1>3, <1>4, <1>6, <3>1 DEF In
    <3> QED BY <1>5, <1>11, <2>4, <3>2, <3>3 DEF Is
  <2>7. Fits(z, p, m)
    <3> SUFFICES ASSUME NEW f \in Frames, In(f, z) PROVE ~In(f, m) /\ p[f] = z.w
      BY DEF Fits
    <3>1. EndOf(m) <= f /\ f < EndOf(hit)
      BY <2>5 DEF In, Is
    <3>2. ~In(f, m)
      BY <1>2, <1>6, <3>1 DEF In
    <3>3. In(f, hit)
      BY <1>2, <1>3, <1>4, <1>6, <3>1 DEF In
    <3> QED BY <1>5, <1>11, <2>5, <3>2, <3>3 DEF Is
  <2> QED BY <1>4, <1>11, <2>3, <2>4, <2>5, <2>6, <2>7, SpliceThree
<1> QED BY <1>12, <1>13, <1>14, <1>15

\* Two hits, of different protections: the one with the request's protection
\* takes over what the request names of the other.
LEMMA MergeTwoGrants ==
    ASSUME NEW t, Tiles(t), NEW p, NEW m \in Requests, RightOutside(t, p, m),
           NEW i \in 1 .. Len(t), i + 1 \in 1 .. Len(t),
           In(m.start, t[i]), t[i + 1].start < EndOf(m), EndOf(m) <= EndOf(t[i + 1]),
           m.w # t[i].w => m.start # t[i].start
    PROVE  Grants(MergeTwo(t, i, m), p, m)
<1> DEFINE l    == t[i]
           r    == t[i + 1]
           next == t[i + 2]
<1>1. t \in Seq(Piece) /\ Len(t) \in Nat /\ EndOf(t[Len(t)]) = NumFrames
  BY DEF Tiles
<1>2. /\ m.w \in BOOLEAN /\ m.start \in Nat /\ m.len \in Nat /\ EndOf(m) \in Nat
      /\ EndOf(m) < NumFrames /\ m.start < EndOf(m)
  BY RequestFacts
<1>3. /\ l \in Piece /\ l.w \in BOOLEAN /\ l.start \in Nat /\ l.len \in Nat
      /\ EndOf(l) \in Nat
      /\ r \in Piece /\ r.w \in BOOLEAN /\ r.start \in Nat /\ r.len \in Nat
      /\ EndOf(r) \in Nat
  BY <1>1, PieceFacts
<1>4. i < Len(t) /\ i + 1 \in i .. Len(t)
  BY <1>1
<1>5. l.w # r.w /\ r.start = EndOf(l)
  BY <1>4, Around
<1>6. l.start <= m.start /\ m.start < r.start /\ r.start < EndOf(m) /\ EndOf(m) <= EndOf(r)
  BY <1>5 DEF In
<1>7. \A k \in 1 .. Len(t) : \A f \in Frames : In(f, t[k]) /\ ~In(f, m) => p[f] = t[k].w
  BY DEF RightOutside
<1>8. \A f \in Frames : f \in Nat
  BY NumFramesAssumption DEF Frames
<1>9. ASSUME EndOf(m) = EndOf(r)
      PROVE  /\ i + 2 \in 1 .. Len(t) /\ i + 2 \in i .. Len(t)
             /\ next \in Piece /\ next.start \in Nat /\ next.len \in Nat /\ next.len > 0
             /\ EndOf(next) \in Nat /\ EndOf(next) = next.start + next.len
             /\ next.start = EndOf(r) /\ next.w = l.w
  <2>1. i + 1 # Len(t)
    BY <1>1, <1>2, <1>9
  <2>2. i + 1 < Len(t)
    BY <1>1, <1>4, <2>1
  <2> DEFINE k == i + 1
  <2>3. k \in 1 .. Len(t) /\ k < Len(t) /\ r = t[k]
    BY <2>2
  <2> HIDE DEF k
  <2>4. t[k].w # t[k + 1].w /\ t[k + 1].start = EndOf(t[k])
    BY <2>3, Around
  <2>5. k + 1 = i + 2 /\ i + 2 \in 1 .. Len(t) /\ i + 2 \in i .. Len(t)
    BY <1>1, <2>2 DEF k
  <2>6. r.w # next.w /\ next.start = EndOf(r)
    BY <2>3, <2>4, <2>5
  <2>7. next.w \in BOOLEAN
    BY <1>1, <2>5, PieceFacts
  <2>8. next.w = l.w
    BY <1>3, <1>5, <2>6, <2>7
  <2> QED BY <1>1, <2>5, <2>6, <2>8, PieceFacts, IsPiece DEF Is
<1>10. m.w = l.w \/ m.w = r.w
  BY <1>2, <1>3, <1>5
<1>11. m.w # l.w => m.start # l.start
  OBVIOUS
<1> HIDE DEF l, r, next
<1>12. l = t[i] /\ r = t[i + 1] /\ next = t[i + 2]
  BY DEF l, r, next
<1>13. ASSUME NEW f \in Frames, In(f, l), ~In(f, m) PROVE p[f] = l.w
  BY <1>7, <1>12, <1>13
<1>14. ASSUME NEW f \in Frames, In(f, r), ~In(f, m) PROVE p[f] = r.w
  BY <1>7, <1>12, <1>14
<1>15. CASE m.w = l.w /\ EndOf(m) = EndOf(r)
  <2> DEFINE n == EndOf(m) - l.start + next.len
             x == [l EXCEPT !.len = n]
  <2>1. n \in Nat /\ n > 0 /\ l.start + n = EndOf(next)
    <3> DEFINE a == l.start
               b == EndOf(m)
               c == next.len
    <3> HIDE DEF a, b, c
    <3>1. a \in Nat /\ b \in Nat /\ c \in Nat /\ c > 0 /\ a <= b /\ EndOf(next) = b + c
      <4>1. l.start \in Nat /\ EndOf(m) \in Nat /\ l.start <= EndOf(m)
        BY <1>2, <1>3, <1>6
      <4>2. next.len \in Nat /\ next.len > 0 /\ EndOf(next) = EndOf(m) + next.len
        BY <1>9, <1>15
      <4> QED BY <4>1, <4>2 DEF a, b, c
    <3>2. b - a + c \in Nat /\ b - a + c > 0 /\ a + (b - a + c) = b + c
      BY <3>1
    <3> QED BY <3>1, <3>2 DEF a, b, c, n
  <2>2. i + 2 <= Len(t)
    BY <1>1, <1>9, <1>15
  <2>3. MergeTwo(t, i, m) = Splice(t, i, i + 2, <<x>>)
    BY <1>12, <1>15, <2>2 DEF MergeTwo
  <2> HIDE DEF n
  <2>4. Is(x, l.w, l.start, EndOf(next))
    BY <1>3, <2>1, IsExcept
  <2> HIDE DEF x
  <2>5. Fits(x, p, m)
    <3> SUFFICES ASSUME NEW f \in Frames, In(f, x), ~In(f, m) PROVE p[f] = x.w
      BY <1>15, <2>4 DEF Fits, Is
    <3>1. f \in Nat /\ l.start <= f /\ f < EndOf(next) /\ (f < m.start \/ EndOf(m) <= f)
      BY <1>2, <1>8, <2>4 DEF In, Is
    <3>2. CASE f < m.start
      <4>1. In(f, l)
        BY <1>2, <1>3, <1>5, <1>6, <3>1, <3>2 DEF In
      <4> QED BY <1>13, <2>4, <4>1 DEF Is
    <3>3. CASE EndOf(m) <= f
      <4>1. In(f, next)
        BY <1>9, <1>15, <3>1, <3>3 DEF In
      <4> QED BY <1>7, <1>9, <1>12, <1>15, <2>4, <4>1 DEF Is
    <3> QED BY <3>1, <3>2, <3>3
  <2>6. EndOf(m) <= EndOf(next)
    BY <1>2, <1>9, <1>15
  <2> QED BY <1>6, <1>9, <1>12, <1>15, <2>3, <2>4, <2>5, <2>6, SpliceOne
<1>16. CASE m.w = l.w /\ EndOf(m) # EndOf(r)
  <2> DEFINE k == EndOf(m) - l.start
             x == [l EXCEPT !.len = k]
             n == EndOf(r) - EndOf(m)
             y == [r EXCEPT !.start = EndOf(m), !.len = n]
  <2>1. k \in Nat /\ k > 0 /\ l.start + k = EndOf(m)
    <3>1. \A a, b \in Nat : a < b => b - a \in Nat /\ b - a > 0 /\ a + (b - a) = b
      OBVIOUS
    <3>2. l.start < EndOf(m)
      BY <1>2, <1>3, <1>6
    <3> QED BY <1>2, <1>3, <3>1, <3>2
  <2>2. n \in Nat /\ n > 0 /\ EndOf(m) + n = EndOf(r)
    <3>1. \A a, b \in Nat : a < b => b - a \in Nat /\ b - a > 0 /\ a + (b - a) = b
      OBVIOUS
    <3>2. EndOf(m) < EndOf(r)
      BY <1>2, <1>3, <1>6, <1>16
    <3> QED BY <1>2, <1>3, <3>1, <3>2
  <2>3. MergeTwo(t, i, m) = Splice(t, i, i + 1, <<x, y>>)
    BY <1>12, <1>16 DEF MergeTwo
  <2> HIDE DEF k, n
  <2>4. Is(x, l.w, l.start, EndOf(m))
    BY <1>3, <2>1, IsExcept
  <2>5. Is(y, r.w, EndOf(m), EndOf(r))
    BY <1>2, <1>3, <2>2, IsExcept
  <2> HIDE DEF x, y
  <2>6. Fits(x, p, m)
    <3> SUFFICES ASSUME NEW f \in Frames, In(f, x), ~In(f, m) PROVE p[f] = x.w
      BY <1>16, <2>4 DEF Fits, Is
    <3>1. f \in Nat /\ l.start <= f /\ f < EndOf(m) /\ f < m.start
      BY <1>2, <1>8, <2>4 DEF In, Is
    <3>2. In(f, l)
      BY <1>2, <1>3, <1>5, <1>6, <3>1 DEF In
    <3> QED BY <1>13, <2>4, <3>2 DEF Is
  <2>7. Fits(y, p, m)
    <3> SUFFICES ASSUME NEW f \in Frames, In(f, y) PROVE ~In(f, m) /\ p[f] = y.w
      BY DEF Fits
    <3>1. f \in Nat /\ EndOf(m) <= f /\ f < EndOf(r)
      BY <1>8, <2>5 DEF In, Is
    <3>2. ~In(f, m)
      BY <1>2, <3>1 DEF In
    <3>3. In(f, r)
      BY <1>2, <1>3, <1>6, <3>1 DEF In
    <3> QED BY <1>14, <2>5, <3>2, <3>3 DEF Is
  <2> QED BY <1>4, <1>5, <1>6, <1>12, <2>3, <2>4, <2>5, <2>6, <2>7, SpliceTwo
<1>17. CASE m.w # l.w
  <2> DEFINE k == m.start - l.start
             x == [l EXCEPT !.len = k]
             n == EndOf(r) - m.start
             y == [r EXCEPT !.start = m.start, !.len = n]
  <2>0. m.w = r.w /\ m.start # l.start
    BY <1>10, <1>11, <1>17
  <2>1. k \in Nat /\ k > 0 /\ l.start + k = m.start
    <3>1. \A a, b \in Nat : a < b => b - a \in Nat /\ b - a > 0 /\ a + (b - a) = b
      OBVIOUS
    <3>2. l.start < m.start
      BY <1>2, <1>3, <1>6, <2>0
    <3> QED BY <1>2, <1>3, <3>1, <3>2
  <2>2. n \in Nat /\ n > 0 /\ m.start + n = EndOf(r)
    <3>1. \A a, b \in Nat : a < b => b - a \in Nat /\ b - a > 0 /\ a + (b - a) = b
      OBVIOUS
    <3>2. m.start < EndOf(r)
      BY <1>2, <1>3, <1>6
    <3> QED BY <1>2, <1>3, <3>1, <3>2
  <2>3. MergeTwo(t, i, m) = Splice(t, i, i + 1, <<x, y>>)
    BY <1>12, <1>17, <2>0 DEF MergeTwo
  <2> HIDE DEF k, n
  <2>4. Is(x, l.w, l.start, m.start)
    BY <1>3, <2>1, IsExcept
  <2>5. Is(y, r.w, m.start, EndOf(r))
    BY <1>2, <1>3, <2>2, IsExcept
  <2> HIDE DEF x, y
  <2>6. Fits(x, p, m)
    <3> SUFFICES ASSUME NEW f \in Frames, In(f, x) PROVE ~In(f, m) /\ p[f] = x.w
      BY DEF Fits
    <3>1. f \in Nat /\ l.start <= f /\ f < m.start
      BY <1>8, <2>4 DEF In, Is
    <3>2. ~In(f, m)
      BY <1>2, <3>1 DEF In
    <3>3. In(f, l)
      BY <1>2, <1>3, <1>5, <1>6, <3>1 DEF In
    <3> QED BY <1>13, <2>4, <3>2, <3>3 DEF Is
  <2>7. Fits(y, p, m)
    <3> SUFFICES ASSUME NEW f \in Frames, In(f, y), ~In(f, m) PROVE p[f] = y.w
      BY <2>0, <2>5 DEF Fits, Is
    <3>1. f \in Nat /\ m.start <= f /\ f < EndOf(r) /\ EndOf(m) <= f
      BY <1>2, <1>8, <2>5 DEF In, Is
    <3>2. In(f, r)
      BY <1>2, <1>3, <1>6, <3>1 DEF In
    <3> QED BY <1>14, <2>5, <3>2 DEF Is
  <2> QED BY <1>4, <1>5, <1>6, <1>12, <2>3, <2>4, <2>5, <2>6, <2>7, SpliceTwo
<1> QED BY <1>15, <1>16, <1>17

\* A request that is neither Lossy nor Emptying is granted: every frame it names
\* has its protection, every other frame the one it had, and the table tiles
\* the heap and agrees with the kernel as before.
LEMMA MergeGrants ==
    ASSUME NEW t, Tiles(t), NEW p, p \in [Frames -> BOOLEAN], Agrees(t, p),
           NEW m \in Requests, ~Lossy(t, m), ~Emptying(t, m)
    PROVE  LET s == MergeInMap([table |-> t, prot |-> p], m)
           IN  /\ Tiles(s.table) /\ s.prot = Mprotect(p, m)
               /\ Agrees(s.table, s.prot)
<1> DEFINE hits == Overlaps(t, m)
           lo   == Min(hits)
           hi   == Max(hits)
           c    == Cull(t, hits)
           s    == MergeInMap([table |-> t, prot |-> p], m)
<1>1. /\ hits # {} /\ lo \in 1 .. Len(t) /\ hi \in lo .. Len(t)
      /\ In(m.start, t[lo]) /\ In(EndOf(m) - 1, t[hi])
  BY Hits
<1>2. t # Aborted
  BY DEF Aborted, Tiles
<1>3. /\ Tiles(c.table) /\ RightOutside(c.table, p, m)
      /\ c.at \in 1 .. Len(c.table)
      /\ c.table[c.at].w = t[lo].w /\ c.table[c.at].start = t[lo].start
      /\ In(m.start, c.table[c.at])
      /\ ~c.two => /\ EndOf(m) <= EndOf(c.table[c.at])
                   /\ t[lo].w = t[hi].w
                   /\ lo = hi => c.table = t
      /\ c.two => /\ c.at + 1 \in 1 .. Len(c.table)
                  /\ c.table[c.at + 1].w = t[hi].w
                  /\ c.table[c.at + 1].w # c.table[c.at].w
                  /\ c.table[c.at + 1].start < EndOf(m)
                  /\ EndOf(m) <= EndOf(c.table[c.at + 1])
  BY CullKeeps
<1>4. hi - lo >= 2 => ~(t[lo].w = m.w /\ t[hi].w = m.w)
  BY DEF Lossy
<1>5. ~(t[lo].w # m.w /\ t[hi].w = m.w /\ t[lo].start = m.start)
  BY DEF Emptying
<1>6. t \in Seq(Piece) /\ Len(t) \in Nat /\ t[lo].w \in BOOLEAN /\ t[hi].w \in BOOLEAN
  BY <1>1, PieceFacts DEF Tiles
<1>7. m.w \in BOOLEAN /\ m.start \in Nat /\ EndOf(m) \in Nat
  BY RequestFacts
<1>8. \A q : [table |-> t, prot |-> p] = [table |-> t, prot |-> p]
             /\ [table |-> t, prot |-> p].table = t /\ [table |-> t, prot |-> p].prot = p
             /\ [[table |-> t, prot |-> p] EXCEPT !.table = q] = [table |-> q, prot |-> p]
  OBVIOUS
<1>9. s = IF ~c.two /\ c.table[c.at].w = m.w
          THEN [table |-> c.table, prot |-> p]
          ELSE [table |-> IF c.two THEN MergeTwo(c.table, c.at, m) ELSE MergeOne(c.table, c.at, m),
                prot  |-> Mprotect(p, m)]
  BY <1>1, <1>2, <1>8 DEF MergeInMap
<1> HIDE DEF hits, lo, hi, c, s
<1>10. CASE ~c.two /\ c.table[c.at].w = m.w
  <2>1. lo = hi
    <3>1. ~(hi - lo >= 2)
      BY <1>3, <1>4, <1>10
    <3>2. hi = lo \/ hi = lo + 1
      BY <1>1, <1>6, <3>1
    <3>3. hi # lo + 1
      <4> SUFFICES ASSUME hi = lo + 1 PROVE FALSE
        OBVIOUS
      <4>1. lo < Len(t)
        BY <1>1, <1>6
      <4>2. t[lo].w # t[lo + 1].w
        BY <1>1, <4>1, Around
      <4> QED BY <1>3, <1>10, <4>2
    <3> QED BY <3>2, <3>3
  <2>2. c.table = t /\ s.table = t /\ s.prot = p
    BY <1>3, <1>9, <1>10, <2>1
  <2>3. Mprotect(p, m) = p
    <3>1. ASSUME NEW f \in Frames PROVE Mprotect(p, m)[f] = p[f]
      <4>1. CASE In(f, m)
        <5>1. In(f, t[c.at])
          <6>1. /\ EndOf(m) <= EndOf(t[c.at]) /\ t[c.at].start <= m.start
                /\ m.start <= f /\ f < EndOf(m) /\ f \in Nat
            BY <1>3, <1>10, <2>2, <4>1, NumFramesAssumption DEF In, Frames
          <6>2. t[c.at].start \in Nat /\ EndOf(t[c.at]) \in Nat
            BY <1>3, <1>6, <2>2, PieceFacts
          <6> QED BY <1>7, <6>1, <6>2 DEF In
        <5>2. p[f] = m.w
          BY <1>3, <1>10, <2>2, <5>1 DEF Agrees
        <5> QED BY <4>1, <5>2 DEF Mprotect, In
      <4>2. CASE ~In(f, m)
        BY <4>2 DEF Mprotect, In
      <4> QED BY <4>1, <4>2
    <3>2. Mprotect(p, m) = [f \in Frames |-> Mprotect(p, m)[f]]
      BY DEF Mprotect
    <3> QED BY <3>1, <3>2
  <2> QED BY <2>2, <2>3 DEF s, hits
<1>11. CASE c.two
  <2>1. s.table = MergeTwo(c.table, c.at, m) /\ s.prot = Mprotect(p, m)
    BY <1>9, <1>11
  <2>2. m.w # c.table[c.at].w => m.start # c.table[c.at].start
    BY <1>3, <1>5, <1>6, <1>7, <1>11
  <2>3. Grants(MergeTwo(c.table, c.at, m), p, m)
    <3> DEFINE e == c.table
               i == c.at
    <3>1. /\ Tiles(e) /\ RightOutside(e, p, m) /\ i \in 1 .. Len(e) /\ i + 1 \in 1 .. Len(e)
          /\ In(m.start, e[i]) /\ e[i + 1].start < EndOf(m) /\ EndOf(m) <= EndOf(e[i + 1])
          /\ m.w # e[i].w => m.start # e[i].start
      BY <1>3, <1>11, <2>2
    <3> HIDE DEF e, i
    <3>2. Grants(MergeTwo(e, i, m), p, m)
      BY <3>1, MergeTwoGrants
    <3> QED BY <3>2 DEF e, i
  <2> QED BY <2>1, <2>3 DEF Grants, s, hits
<1>12. CASE ~c.two /\ c.table[c.at].w # m.w
  <2>1. s.table = MergeOne(c.table, c.at, m) /\ s.prot = Mprotect(p, m)
    BY <1>9, <1>12
  <2>2. Grants(MergeOne(c.table, c.at, m), p, m)
    <3> DEFINE e == c.table
               i == c.at
    <3>1. /\ Tiles(e) /\ RightOutside(e, p, m) /\ i \in 1 .. Len(e) /\ e[i].w # m.w
          /\ In(m.start, e[i]) /\ EndOf(m) <= EndOf(e[i])
      BY <1>3, <1>12
    <3> HIDE DEF e, i
    <3>2. Grants(MergeOne(e, i, m), p, m)
      BY <3>1, MergeOneGrants
    <3> QED BY <3>2 DEF e, i
  <2> QED BY <2>1, <2>2 DEF Grants, s, hits
<1> QED BY <1>10, <1>11, <1>12

-----------------------------------------------------------------------------
(***************************************************************************)
(* The invariant.                                                          *)
(***************************************************************************)

MapInv == Tiles(table) /\ Agrees(table, prot) /\ prot \in [Frames -> BOOLEAN]

\* No check of merge_in_table fails, and it is one merge_in_map.
LEMMA RequestGrants ==
    ASSUME MapInv, NEW m \in Requests, MergeRequest(m)
    PROVE  MapInv' /\ prot' = Mprotect(prot, m) /\ request' = m
<1> DEFINE s == [table |-> table, prot |-> prot]
<1>1. s.table = table /\ s.prot = prot
  OBVIOUS
<1> HIDE DEF s
<1>2. table \in Seq(Piece) /\ table[1].start = 0 /\ EndOf(Last(table)) = NumFrames
  BY DEF MapInv, Tiles, Last
<1>3. m.start >= s.table[1].start /\ EndOf(m) <= EndOf(Last(s.table))
  BY <1>1, <1>2, RequestFacts, NumFramesAssumption
<1>4. MergeInTable(s, <<m>>) = MergeInMap(s, m)
  BY <1>3, OneRequest
<1>5. table' = MergeInMap(s, m).table /\ prot' = MergeInMap(s, m).prot /\ request' = m
  BY <1>4 DEF MergeRequest, Merged, s
<1>6. ~Lossy(table, m) /\ ~Emptying(table, m)
  BY DEF MergeRequest
<1>7. LET r == MergeInMap([table |-> table, prot |-> prot], m)
      IN  Tiles(r.table) /\ r.prot = Mprotect(prot, m) /\ Agrees(r.table, r.prot)
  BY <1>6, MergeGrants DEF MapInv
<1>8. Tiles(table') /\ prot' = Mprotect(prot, m) /\ Agrees(table', prot')
  BY <1>5, <1>7 DEF s
<1>9. Mprotect(prot, m) \in [Frames -> BOOLEAN]
  BY RequestFacts DEF Mprotect, MapInv
<1> QED BY <1>5, <1>8, <1>9 DEF MapInv

LEMMA MapStep == MapInv /\ Granted /\ [MCNext]_<<mapVars, request>> => MapInv' /\ Granted'
<1> SUFFICES ASSUME MapInv, Granted, [MCNext]_<<mapVars, request>> PROVE MapInv' /\ Granted'
  OBVIOUS
<1>1. ASSUME NEW m \in Requests, MergeRequest(m) PROVE MapInv' /\ Granted'
  <2>1. MapInv' /\ prot' = Mprotect(prot, m) /\ request' = m
    BY <1>1, RequestGrants
  <2> QED BY <2>1 DEF Granted, Mprotect
<1>2. CASE UNCHANGED <<mapVars, request>>
  BY <1>2 DEF mapVars, MapInv, Granted
<1> QED BY <1>1, <1>2 DEF MCNext

LEMMA MapStart == MCInit => MapInv /\ Granted
<1> SUFFICES ASSUME MCInit PROVE MapInv /\ Granted
  OBVIOUS
<1>1. /\ table = OneWritableMap /\ prot = [f \in Frames |-> TRUE] /\ request = Nothing
  BY DEF MCInit, MapInit
<1>2. /\ table \in Seq(Piece) /\ Len(table) = 1
      /\ table[1].w = TRUE /\ table[1].start = 0 /\ table[1].len = NumFrames
      /\ EndOf(table[1]) = NumFrames
  BY <1>1, NumFramesAssumption DEF OneWritableMap, Piece, EndOf
<1>3. Tiles(table)
  BY <1>2, NumFramesAssumption DEF Tiles, Chain
<1>4. Agrees(table, prot)
  <2> SUFFICES ASSUME NEW i \in 1 .. Len(table), NEW f \in Frames PROVE prot[f] = table[i].w
    BY DEF Agrees
  <2>1. i = 1
    BY <1>2
  <2>2. prot[f] = TRUE
    BY <1>1
  <2> QED BY <1>2, <2>1, <2>2
<1>5. Granted
  BY <1>1, NumFramesAssumption DEF Granted, Nothing, EndOf, Frames
<1> QED BY <1>1, <1>3, <1>4, <1>5 DEF MapInv

\* The table's own view of its entries.
LEMMA TableFacts == MapInv => Tiling /\ TableMatchesKernel
<1> SUFFICES ASSUME MapInv PROVE Tiling /\ TableMatchesKernel
  OBVIOUS
<1>1. /\ table \in Seq(Piece) /\ Len(table) \in Nat /\ Len(table) >= 1 /\ Chain(table)
      /\ table[1].start = 0 /\ EndOf(table[Len(table)]) = NumFrames
      /\ DOMAIN table = 1 .. Len(table)
  BY DEF MapInv, Tiles
<1>2. Tiling
  BY <1>1 DEF Tiling, Chain, Last
<1>3. ASSUME NEW i \in DOMAIN table, NEW f \in table[i].start .. EndOf(table[i]) - 1
      PROVE  prot[f] = table[i].w
  <2>1. i \in 1 .. Len(table) /\ Len(table) \in 1 .. Len(table)
    BY <1>1
  <2>2. /\ table[i].start \in Nat /\ EndOf(table[i]) \in Nat
        /\ table[Len(table)].start \in Nat /\ table[Len(table)].len \in Nat
        /\ EndOf(table[Len(table)]) = table[Len(table)].start + table[Len(table)].len
    BY <1>1, <2>1, PieceFacts
  <2>3. EndOf(table[i]) <= NumFrames
    <3>1. CASE i = Len(table)
      BY <1>1, <3>1, NumFramesAssumption
    <3>2. CASE i # Len(table)
      <4>1. i < Len(table)
        BY <1>1, <2>1, <3>2
      <4>2. EndOf(table[i]) <= table[Len(table)].start
        BY <1>1, <2>1, <4>1, PiecesInOrder
      <4> QED BY <1>1, <2>2, <4>2
    <3> QED BY <3>1, <3>2
  <2>4. f \in Frames /\ In(f, table[i])
    BY <2>2, <2>3, NumFramesAssumption DEF Frames, In
  <2> QED BY <2>1, <2>4 DEF MapInv, Agrees
<1> QED BY <1>2, <1>3 DEF TableMatchesKernel

\* MapInv and what was asked for last are kept by every request that is neither
\* Lossy nor Emptying.
LEMMA MapInvariant == MCSpec => [](MapInv /\ Granted)
<1>1. MCInit => MapInv /\ Granted
  BY MapStart
<1>2. MapInv /\ Granted /\ [MCNext]_<<mapVars, request>> => MapInv' /\ Granted'
  BY MapStep
<1> QED BY <1>1, <1>2, PTL DEF MCSpec

\* However large the heap is and whatever is asked for, the table stays a tiling
\* of the heap and no assert of merge_in_map or merge_in_table fails.
THEOREM TableStaysATiling == MCSpec => []Tiling
<1>1. MapInv => Tiling
  BY TableFacts
<1> QED BY <1>1, MapInvariant, PTL

\* The table says of every frame what the kernel was told last: an mprotect that
\* merge_in_map skips was not needed.
THEOREM TableIsTrue == MCSpec => []TableMatchesKernel
<1>1. MapInv => TableMatchesKernel
  BY TableFacts
<1> QED BY <1>1, MapInvariant, PTL

\* What was asked for last has been granted, on every frame of the request.
THEOREM RequestsAreGranted == MCSpec => []Granted
<1> QED BY MapInvariant, PTL

\* No request changes the protection of a frame it does not name: an mprotect
\* for one page never reaches its neighbour.
THEOREM NeighboursAreLeftAlone == MCSpec => OthersKeepProtection
<1> DEFINE A == \A f \in Frames : f < request'.start \/ f >= EndOf(request') => prot'[f] = prot[f]
<1>1. MapInv /\ Granted /\ [MCNext]_<<mapVars, request>> => MapInv' /\ Granted' /\ [A]_prot
  <2> SUFFICES ASSUME MapInv, Granted, [MCNext]_<<mapVars, request>> PROVE [A]_prot
    BY MapStep
  <2>1. ASSUME NEW m \in Requests, MergeRequest(m) PROVE A
    <3>1. prot' = Mprotect(prot, m) /\ request' = m
      BY <2>1, RequestGrants
    <3>2. \A f \in Frames : f \in Nat
      BY NumFramesAssumption DEF Frames
    <3> QED BY <3>1, <3>2, RequestFacts DEF Mprotect
  <2>2. CASE UNCHANGED <<mapVars, request>>
    BY <2>2 DEF mapVars
  <2> QED BY <2>1, <2>2 DEF MCNext
<1>2. MCInit => MapInv /\ Granted
  BY MapStart
<1> QED BY <1>1, <1>2, PTL DEF MCSpec, OthersKeepProtection

-----------------------------------------------------------------------------
\* What a merge makes of what the table says, granted or not: a table that tiles
\* the heap and says of each frame what it said before or, of those the request
\* names, what was asked for.
LEMMA MergeSays ==
    ASSUME NEW t, Tiles(t), NEW q, Agrees(t, q), NEW m \in Requests, NEW p
    PROVE  LET d == MergeInMap([table |-> t, prot |-> p], m).table
           IN  d = Aborted \/ Grants(d, q, m)
<1> DEFINE hits == Overlaps(t, m)
           lo   == Min(hits)
           hi   == Max(hits)
           c    == Cull(t, hits)
           d    == MergeInMap([table |-> t, prot |-> p], m).table
<1>1. /\ hits # {} /\ lo \in 1 .. Len(t)
      /\ In(m.start, t[lo])
  BY Hits
<1>2. t # Aborted
  BY DEF Aborted, Tiles
<1>3. /\ Tiles(c.table) /\ RightOutside(c.table, q, m)
      /\ c.at \in 1 .. Len(c.table)
      /\ c.table[c.at].w = t[lo].w /\ c.table[c.at].start = t[lo].start
      /\ In(m.start, c.table[c.at])
      /\ ~c.two => EndOf(m) <= EndOf(c.table[c.at])
      /\ c.two => /\ c.at + 1 \in 1 .. Len(c.table)
                  /\ c.table[c.at + 1].w # c.table[c.at].w
                  /\ c.table[c.at + 1].start < EndOf(m)
                  /\ EndOf(m) <= EndOf(c.table[c.at + 1])
  BY CullKeeps
<1>4. d = IF ~c.two /\ c.table[c.at].w = m.w THEN c.table
          ELSE IF c.two THEN MergeTwo(c.table, c.at, m) ELSE MergeOne(c.table, c.at, m)
  <2>1. \A x : /\ [table |-> t, prot |-> p].table = t
               /\ [[table |-> t, prot |-> p] EXCEPT !.table = x].table = x
               /\ \A y : [table |-> x, prot |-> y].table = x
    OBVIOUS
  <2> QED BY <1>1, <1>2, <2>1 DEF MergeInMap
<1> DEFINE Goal == d = Aborted \/ Grants(d, q, m)
<1> SUFFICES Goal
  OBVIOUS
<1> HIDE DEF hits, lo, hi, d, Goal
<1> DEFINE e == c.table
           i == c.at
<1>5. /\ Tiles(e) /\ RightOutside(e, q, m) /\ i \in 1 .. Len(e) /\ In(m.start, e[i])
      /\ e[i].w \in BOOLEAN /\ e[i].start \in Nat /\ EndOf(e[i]) \in Nat /\ e \in Seq(Piece)
  BY <1>3, PieceFacts DEF Tiles
<1>6. m.w \in BOOLEAN /\ m.start \in Nat /\ EndOf(m) \in Nat
  BY RequestFacts
<1>7. ASSUME ~c.two, e[i].w = m.w PROVE Goal
  <2>1. EndOf(m) <= EndOf(e[i])
    BY <1>3, <1>7
  <2>2. d = e
    BY <1>4, <1>7
  <2> HIDE DEF e, i
  <2>3. Agrees(e, Mprotect(q, m))
    <3> SUFFICES ASSUME NEW k \in 1 .. Len(e), NEW f \in Frames, In(f, e[k])
                 PROVE  Mprotect(q, m)[f] = e[k].w
      BY DEF Agrees
    <3>1. f \in Nat
      BY NumFramesAssumption DEF Frames
    <3>2. CASE In(f, m)
      <4>1. In(f, e[i])
        BY <1>5, <1>6, <2>1, <3>1, <3>2 DEF In
      <4>2. k = i
        BY <1>5, <3>1, <4>1, OnePieceEach
      <4> QED BY <1>7, <3>2, <4>2 DEF Mprotect, In
    <3>3. CASE ~In(f, m)
      <4>1. q[f] = e[k].w
        BY <1>5, <3>3 DEF RightOutside
      <4> QED BY <3>3, <4>1 DEF Mprotect, In
    <3> QED BY <3>2, <3>3
  <2> QED BY <1>5, <2>2, <2>3 DEF Grants, Goal
<1>8. ASSUME c.two PROVE Goal
  <2>1. d = MergeTwo(e, i, m)
    BY <1>4, <1>8
  <2>2. /\ i + 1 \in 1 .. Len(e) /\ e[i + 1].start < EndOf(m) /\ EndOf(m) <= EndOf(e[i + 1])
        /\ e[i + 1].w # e[i].w
    BY <1>3, <1>8
  <2> HIDE DEF e, i
  <2>3. CASE m.w # e[i].w /\ m.start = e[i].start
    <3>1. ~(m.w = e[i].w /\ EndOf(m) = EndOf(e[i + 1])) /\ ~(m.w = e[i].w /\ EndOf(m) # EndOf(e[i + 1]))
      BY <2>3
    <3>2. MergeTwo(e, i, m) = Aborted
      BY <2>3, <3>1 DEF MergeTwo
    <3> QED BY <2>1, <3>2 DEF Goal
  <2>4. CASE m.w # e[i].w => m.start # e[i].start
    BY <1>5, <2>1, <2>2, <2>4, MergeTwoGrants DEF Goal
  <2> QED BY <2>3, <2>4
<1>9. ASSUME ~c.two, e[i].w # m.w PROVE Goal
  <2>1. d = MergeOne(e, i, m) /\ EndOf(m) <= EndOf(e[i])
    BY <1>3, <1>4, <1>9
  <2> HIDE DEF e, i
  <2> QED BY <1>5, <1>9, <2>1, MergeOneGrants DEF Goal
<1> QED BY <1>7, <1>8, <1>9

-----------------------------------------------------------------------------
(***************************************************************************)
(* The requests of merge_in_table, one after the other.                    *)
(***************************************************************************)
LEMMA UpTo ==
    ASSUME NEW n \in Nat, NEW S \in SUBSET (1 .. n), n \in S
    PROVE  Max(S) = n
<1>1. \A k \in S : k \in Nat /\ k <= n
  OBVIOUS
<1>2. \A k \in S : (\A l \in S : k >= l) => k = n
  BY <1>1
<1>3. \A l \in S : n >= l
  BY <1>1
<1> QED BY <1>2, <1>3 DEF Max

\* What FoldLeft says of the function it applies.
Merging(s, maps, D, h) ==
    [d \in SUBSET D |-> IF d = {} THEN s ELSE LET x == Max(d) IN MergeInMap(h[d \ {x}], maps[x])]

\* There is one, by the length of the sequence.
LEMMA MergeFold ==
    ASSUME NEW s, NEW maps, NEW n \in Nat, NEW D, D = 1 .. n
    PROVE  \E h : h = Merging(s, maps, D, h)
<1> DEFINE Body(k, h) == [d \in SUBSET (1 .. k) |->
                             IF d = {} THEN s ELSE MergeInMap(h[d \ {Max(d)}], maps[Max(d)])]
           Bad == {k \in Nat : \A h : h # Body(k, h)}
<1>1. Bad = {}
  <2> SUFFICES ASSUME Bad # {} PROVE FALSE
    OBVIOUS
  <2>1. PICK k \in Bad : \A j \in Bad : k <= j
    <3>1. Bad \in SUBSET Nat
      OBVIOUS
    <3> HIDE DEF Bad
    <3> QED BY <3>1, Least
  <2>2. k \in Nat /\ \A h : h # Body(k, h)
    BY <2>1
  <2>3. CASE k = 0
    <3> DEFINE g == [d \in SUBSET (1 .. k) |-> s]
    <3>1. \A d \in SUBSET (1 .. k) : d = {}
      BY <2>3
    <3>2. g = Body(k, g)
      BY <3>1
    <3> QED BY <2>2, <3>2
  <2>4. CASE k # 0
    <3> DEFINE j == k - 1
    <3>1. j \in Nat /\ j < k /\ k = j + 1
      BY <2>2, <2>4
    <3>2. j \notin Bad
      <4>1. ~(k <= j)
        BY <3>1
      <4> HIDE DEF Bad, j
      <4> QED BY <2>1, <4>1
    <3>3. PICK h : h = Body(j, h)
      BY <3>1, <3>2
    <3> HIDE DEF Bad, j
    <3> DEFINE g == [d \in SUBSET (1 .. k) |->
                        IF d = {} THEN s
                        ELSE IF k \in d THEN MergeInMap(h[d \ {k}], maps[k]) ELSE h[d]]
    <3>4. \A d \in SUBSET (1 .. k) : k \notin d => d \in SUBSET (1 .. j)
      BY <2>2, <3>1
    <3>5. \A d \in SUBSET (1 .. j) : d \in SUBSET (1 .. k) /\ k \notin d
      BY <2>2, <3>1
    <3>6. \A d \in SUBSET (1 .. j) :
             h[d] = IF d = {} THEN s ELSE MergeInMap(h[d \ {Max(d)}], maps[Max(d)])
      <4>1. DOMAIN h = SUBSET (1 .. j)
        BY <3>3
      <4> QED BY <3>3
    <3>7. \A d \in SUBSET (1 .. j) : g[d] = h[d]
      BY <3>5, <3>6
    <3>8. ASSUME NEW d \in SUBSET (1 .. k)
          PROVE  g[d] = IF d = {} THEN s ELSE MergeInMap(g[d \ {Max(d)}], maps[Max(d)])
      <4>1. CASE d = {}
        BY <4>1
      <4>2. CASE k \in d
        <5>1. Max(d) = k
          BY <2>2, <4>2, UpTo
        <5>2. d \ {k} \in SUBSET (1 .. j)
          BY <3>4
        <5>3. g[d] = MergeInMap(h[d \ {k}], maps[k])
          BY <4>2
        <5>4. g[d \ {k}] = h[d \ {k}]
          BY <3>7, <5>2
        <5> QED BY <4>2, <5>1, <5>3, <5>4
      <4>3. CASE d # {} /\ k \notin d
        <5>1. d \in SUBSET (1 .. j) /\ d \ {Max(d)} \in SUBSET (1 .. j)
          BY <3>4, <4>3
        <5>2. g[d] = h[d] /\ g[d \ {Max(d)}] = h[d \ {Max(d)}]
          BY <3>7, <5>1
        <5> QED BY <3>6, <4>3, <5>1, <5>2
      <4> QED BY <4>1, <4>2, <4>3
    <3>9. DOMAIN g = SUBSET (1 .. k)
      OBVIOUS
    <3> HIDE DEF g
    <3>10. g = [d \in SUBSET (1 .. k) |-> g[d]]
      <4>1. g = [d \in SUBSET (1 .. k) |->
                    IF d = {} THEN s
                    ELSE IF k \in d THEN MergeInMap(h[d \ {k}], maps[k]) ELSE h[d]]
        BY DEF g
      <4> QED BY <4>1
    <3>11. g = Body(k, g)
      BY <3>8, <3>10
    <3> QED BY <2>2, <3>11
  <2> QED BY <2>3, <2>4
<1>2. n \notin Bad
  BY <1>1
<1>3. \E h : h = Body(n, h)
  BY <1>2
<1>4. \A h : Merging(s, maps, D, h) = Body(n, h)
  BY DEF Merging
<1> HIDE DEF Body
<1> QED BY <1>3, <1>4

\* The merges of maps[1], .. maps[n], from s on.
InTurn(w, s, n, maps) ==
    /\ w[0] = s /\ w[n] = FoldLeft(MergeInMap, s, maps)
    /\ \A k \in 1 .. n : w[k] = MergeInMap(w[k - 1], maps[k])

LEMMA MergesInTurn ==
    ASSUME NEW s, NEW n \in Nat, NEW maps, DOMAIN maps = 1 .. n
    PROVE  \E w : InTurn(w, s, n, maps)
<1> DEFINE body(h) == [d \in SUBSET DOMAIN maps |->
                         IF d = {} THEN s
                         ELSE LET x == Max(d) IN MergeInMap(h[d \ {x}], maps[x])]
           fold == CHOOSE h : h = body(h)
           w    == [k \in 0 .. n |-> fold[1 .. k]]
<1>1. FoldLeft(MergeInMap, s, maps) = fold[DOMAIN maps]
  BY DEF FoldLeft, MapThenFoldSet
<1>2. \E h : h = body(h)
  <2>1. PICK h : h = Merging(s, maps, DOMAIN maps, h)
    BY MergeFold
  <2>2. h = body(h)
    BY <2>1 DEF Merging
  <2> QED BY <2>2
<1> HIDE DEF body
<1>3. fold = body(fold)
  BY <1>2
<1> HIDE DEF fold
<1>4. \A d \in SUBSET (1 .. n) :
         fold[d] = IF d = {} THEN s ELSE MergeInMap(fold[d \ {Max(d)}], maps[Max(d)])
  BY <1>3 DEF body
<1>5. w[0] = s
  <2>1. 1 .. 0 = {} /\ {} \in SUBSET (1 .. n) /\ 0 \in 0 .. n
    OBVIOUS
  <2>2. fold[{}] = s
    BY <1>4, <2>1
  <2> QED BY <2>1, <2>2
<1>6. ASSUME NEW k \in 1 .. n PROVE w[k] = MergeInMap(w[k - 1], maps[k])
  <2>1. 1 .. k \in SUBSET (1 .. n) /\ k \in 1 .. k /\ k \in Nat
    OBVIOUS
  <2>2. Max(1 .. k) = k
    BY <2>1, UpTo
  <2>3. (1 .. k) \ {k} = 1 .. (k - 1)
    OBVIOUS
  <2>4. fold[1 .. k] = MergeInMap(fold[1 .. (k - 1)], maps[k])
    BY <1>4, <2>1, <2>2, <2>3
  <2>5. w[k] = fold[1 .. k] /\ w[k - 1] = fold[1 .. (k - 1)]
    OBVIOUS
  <2> QED BY <2>4, <2>5
<1>7. w[n] = FoldLeft(MergeInMap, s, maps)
  BY <1>1
<1> HIDE DEF w
<1>8. InTurn(w, s, n, maps)
  BY <1>5, <1>6, <1>7 DEF InTurn
<1> QED BY <1>8

\* The same of the requests that Coalesce joins.
Join(done, m) ==
    IF done # <<>> /\ Last(done).w = m.w /\ EndOf(Last(done)) = m.start
    THEN ReplaceAt(done, Len(done), [Last(done) EXCEPT !.len = @ + m.len])
    ELSE Append(done, m)

Joining(maps, D, h) ==
    [d \in SUBSET D |-> IF d = {} THEN <<>> ELSE LET x == Max(d) IN Join(h[d \ {x}], maps[x])]

LEMMA JoinFold ==
    ASSUME NEW maps, NEW n \in Nat, NEW D, D = 1 .. n
    PROVE  \E h : h = Joining(maps, D, h)
<1> DEFINE Body(k, h) == [d \in SUBSET (1 .. k) |->
                             IF d = {} THEN <<>> ELSE Join(h[d \ {Max(d)}], maps[Max(d)])]
           Bad == {k \in Nat : \A h : h # Body(k, h)}
<1>1. Bad = {}
  <2> SUFFICES ASSUME Bad # {} PROVE FALSE
    OBVIOUS
  <2>1. PICK k \in Bad : \A j \in Bad : k <= j
    <3>1. Bad \in SUBSET Nat
      OBVIOUS
    <3> HIDE DEF Bad
    <3> QED BY <3>1, Least
  <2>2. k \in Nat /\ \A h : h # Body(k, h)
    BY <2>1
  <2>3. CASE k = 0
    <3> DEFINE g == [d \in SUBSET (1 .. k) |-> <<>>]
    <3>1. \A d \in SUBSET (1 .. k) : d = {}
      BY <2>3
    <3>2. g = Body(k, g)
      BY <3>1
    <3> QED BY <2>2, <3>2
  <2>4. CASE k # 0
    <3> DEFINE j == k - 1
    <3>1. j \in Nat /\ j < k /\ k = j + 1
      BY <2>2, <2>4
    <3>2. j \notin Bad
      <4>1. ~(k <= j)
        BY <3>1
      <4> HIDE DEF Bad, j
      <4> QED BY <2>1, <4>1
    <3>3. PICK h : h = Body(j, h)
      BY <3>1, <3>2
    <3> HIDE DEF Bad, j
    <3> DEFINE g == [d \in SUBSET (1 .. k) |->
                        IF d = {} THEN <<>>
                        ELSE IF k \in d THEN Join(h[d \ {k}], maps[k]) ELSE h[d]]
    <3>4. \A d \in SUBSET (1 .. k) : k \notin d => d \in SUBSET (1 .. j)
      BY <2>2, <3>1
    <3>5. \A d \in SUBSET (1 .. j) : d \in SUBSET (1 .. k) /\ k \notin d
      BY <2>2, <3>1
    <3>6. \A d \in SUBSET (1 .. j) :
             h[d] = IF d = {} THEN <<>> ELSE Join(h[d \ {Max(d)}], maps[Max(d)])
      <4>1. DOMAIN h = SUBSET (1 .. j)
        BY <3>3
      <4> QED BY <3>3
    <3>7. \A d \in SUBSET (1 .. j) : g[d] = h[d]
      BY <3>5, <3>6
    <3>8. ASSUME NEW d \in SUBSET (1 .. k)
          PROVE  g[d] = IF d = {} THEN <<>> ELSE Join(g[d \ {Max(d)}], maps[Max(d)])
      <4>1. CASE d = {}
        BY <4>1
      <4>2. CASE k \in d
        <5>1. Max(d) = k
          BY <2>2, <4>2, UpTo
        <5>2. d \ {k} \in SUBSET (1 .. j)
          BY <3>4
        <5>3. g[d] = Join(h[d \ {k}], maps[k])
          BY <4>2
        <5>4. g[d \ {k}] = h[d \ {k}]
          BY <3>7, <5>2
        <5> QED BY <4>2, <5>1, <5>3, <5>4
      <4>3. CASE d # {} /\ k \notin d
        <5>1. d \in SUBSET (1 .. j) /\ d \ {Max(d)} \in SUBSET (1 .. j)
          BY <3>4, <4>3
        <5>2. g[d] = h[d] /\ g[d \ {Max(d)}] = h[d \ {Max(d)}]
          BY <3>7, <5>1
        <5> QED BY <3>6, <4>3, <5>1, <5>2
      <4> QED BY <4>1, <4>2, <4>3
    <3>9. DOMAIN g = SUBSET (1 .. k)
      OBVIOUS
    <3> HIDE DEF g
    <3>10. g = [d \in SUBSET (1 .. k) |-> g[d]]
      <4>1. g = [d \in SUBSET (1 .. k) |->
                    IF d = {} THEN <<>>
                    ELSE IF k \in d THEN Join(h[d \ {k}], maps[k]) ELSE h[d]]
        BY DEF g
      <4> QED BY <4>1
    <3>11. g = Body(k, g)
      BY <3>8, <3>10
    <3> QED BY <2>2, <3>11
  <2> QED BY <2>3, <2>4
<1>2. n \notin Bad
  BY <1>1
<1>3. \E h : h = Body(n, h)
  BY <1>2
<1>4. \A h : Joining(maps, D, h) = Body(n, h)
  BY DEF Joining
<1> HIDE DEF Body
<1> QED BY <1>3, <1>4

LEMMA JoinsInTurn ==
    ASSUME NEW n \in Nat, NEW maps, DOMAIN maps = 1 .. n
    PROVE  \E w : /\ w[0] = <<>> /\ w[n] = Coalesce(maps)
                  /\ \A k \in 1 .. n : w[k] = Join(w[k - 1], maps[k])
<1> DEFINE join(done, m) ==
             IF done # <<>> /\ Last(done).w = m.w /\ EndOf(Last(done)) = m.start
             THEN ReplaceAt(done, Len(done), [Last(done) EXCEPT !.len = @ + m.len])
             ELSE Append(done, m)
           body(h) == [d \in SUBSET DOMAIN maps |->
                         IF d = {} THEN <<>>
                         ELSE LET x == Max(d) IN join(h[d \ {x}], maps[x])]
           fold == CHOOSE h : h = body(h)
           w    == [k \in 0 .. n |-> fold[1 .. k]]
<1>1. Coalesce(maps) = fold[DOMAIN maps]
  BY DEF Coalesce, FoldLeft, MapThenFoldSet
<1>0. \A done, m : join(done, m) = Join(done, m)
  BY DEF Join
<1> HIDE DEF join
<1>2. \E h : h = body(h)
  <2>1. PICK h : h = Joining(maps, DOMAIN maps, h)
    BY JoinFold
  <2>2. Joining(maps, DOMAIN maps, h) = body(h)
    BY <1>0 DEF Joining
  <2> QED BY <2>1, <2>2
<1> HIDE DEF body
<1>3. fold = body(fold)
  BY <1>2
<1> HIDE DEF fold
<1>4. \A d \in SUBSET (1 .. n) :
         fold[d] = IF d = {} THEN <<>> ELSE Join(fold[d \ {Max(d)}], maps[Max(d)])
  BY <1>0, <1>3 DEF body
<1>5. w[0] = <<>>
  <2>1. 1 .. 0 = {} /\ {} \in SUBSET (1 .. n) /\ 0 \in 0 .. n
    OBVIOUS
  <2>2. fold[{}] = <<>>
    BY <1>4, <2>1
  <2> QED BY <2>1, <2>2
<1>6. ASSUME NEW k \in 1 .. n PROVE w[k] = Join(w[k - 1], maps[k])
  <2>1. 1 .. k \in SUBSET (1 .. n) /\ k \in 1 .. k /\ k \in Nat
    OBVIOUS
  <2>2. Max(1 .. k) = k
    BY <2>1, UpTo
  <2>3. (1 .. k) \ {k} = 1 .. (k - 1)
    OBVIOUS
  <2>4. fold[1 .. k] = Join(fold[1 .. (k - 1)], maps[k])
    BY <1>4, <2>1, <2>2, <2>3
  <2>5. w[k] = fold[1 .. k] /\ w[k - 1] = fold[1 .. (k - 1)]
    OBVIOUS
  <2> QED BY <2>4, <2>5
<1>7. w[n] = Coalesce(maps)
  BY <1>1
<1> HIDE DEF w
<1> QED BY <1>5, <1>6, <1>7

\* All for one protection.
AllFor(b, maps) == maps \in Seq(Requests) /\ \A k \in 1 .. Len(maps) : maps[k].w = b
Names(maps, f) == \E k \in 1 .. Len(maps) : In(f, maps[k])

\* Joined: the last request of d names what that of done and m name.
Extended(d, done, m) ==
    LET n == Len(done)
    IN  /\ n \in 1 .. n /\ Len(d) = n
        /\ EndOf(done[n]) = m.start
        /\ \A k \in 1 .. n : k # n => d[k] = done[k]
        /\ \A f \in Frames : In(f, d[n]) <=> In(f, done[n]) \/ In(f, m)

Longer(d, done, m) ==
    LET n == Len(done)
    IN  /\ Len(d) = n + 1 /\ d[n + 1] = m
        /\ \A k \in 1 .. n : d[k] = done[k]

LEMMA Joined ==
    ASSUME NEW b, NEW done, AllFor(b, done), NEW m \in Requests, m.w = b
    PROVE  /\ AllFor(b, Join(done, m))
           /\ Extended(Join(done, m), done, m) \/ Longer(Join(done, m), done, m)
<1> DEFINE d == Join(done, m)
           n == Len(done)
           l == done[n]
           x == [l EXCEPT !.len = @ + m.len]
<1>1. done \in Seq(Requests) /\ n \in Nat /\ \A k \in 1 .. n : done[k] \in Requests /\ done[k].w = b
  BY ElementOfSeq, LenProperties DEF AllFor
<1>2. CASE done # <<>> /\ Last(done).w = m.w /\ EndOf(Last(done)) = m.start
  <2>1. n # 0 /\ n \in 1 .. n /\ Last(done) = l /\ l \in Requests /\ l.w = b
    BY <1>1, <1>2, EmptySeq DEF Last
  <2>2. d = [done EXCEPT ![n] = x]
    BY <1>2, <2>1 DEF Join, ReplaceAt
  <2> HIDE DEF d, l
  <2>3. /\ l.w \in BOOLEAN /\ l.start \in Nat /\ l.len \in Nat /\ EndOf(l) = l.start + l.len
        /\ 2 <= l.start /\ l.start < EndOf(l)
        /\ m.start \in Nat /\ m.len \in Nat /\ EndOf(m) = m.start + m.len
        /\ m.start < EndOf(m) /\ EndOf(m) < NumFrames /\ EndOf(l) = m.start
    BY <1>2, <2>1, RequestFacts
  <2>4. x.w = l.w /\ x.start = l.start /\ x.len = l.len + m.len
    BY <2>1 DEF Requests, MapEntry
  <2>5. x = [w |-> l.w, start |-> l.start, len |-> l.len + m.len]
    BY <2>1 DEF Requests, MapEntry
  <2>6. EndOf(x) = EndOf(m) /\ x.len \in 0 .. NumFrames /\ x.len > 0
    BY <2>3, <2>4, NumFramesAssumption DEF EndOf
  <2>7. x \in Requests
    <3>1. l.start \in Frames
      BY <2>1 DEF Requests, MapEntry
    <3>2. x \in MapEntry
      BY <2>3, <2>5, <2>6, <3>1, <2>4 DEF MapEntry
    <3> QED BY <2>3, <2>4, <2>6, <3>2 DEF Requests
  <2> HIDE DEF x
  <2>8. /\ d \in Seq(Requests) /\ Len(d) = n /\ d[n] = x
        /\ \A k \in 1 .. n : k # n => d[k] = done[k]
    BY <1>1, <2>1, <2>2, <2>7, ExceptSeq
  <2>9. AllFor(b, d)
    BY <1>1, <2>1, <2>4, <2>8 DEF AllFor
  <2>10. ASSUME NEW f \in Frames PROVE In(f, x) <=> In(f, l) \/ In(f, m)
    <3>1. f \in Nat
      BY NumFramesAssumption DEF Frames
    <3> QED BY <2>3, <2>4, <2>6, <3>1 DEF In
  <2>11. Extended(d, done, m)
    BY <2>1, <2>3, <2>8, <2>10 DEF Extended, l
  <2> QED BY <2>9, <2>11 DEF d
<1>3. CASE ~ (done # <<>> /\ Last(done).w = m.w /\ EndOf(Last(done)) = m.start)
  <2>1. d = Append(done, m)
    BY <1>3 DEF Join
  <2> HIDE DEF d
  <2>2. /\ d \in Seq(Requests) /\ Len(d) = n + 1 /\ d[n + 1] = m
        /\ \A k \in 1 .. n : d[k] = done[k]
    BY <1>1, <2>1, AppendProperties
  <2>3. \A k \in 1 .. n + 1 : k \in 1 .. n \/ k = n + 1
    BY <1>1
  <2>4. AllFor(b, d)
    BY <1>1, <2>2, <2>3 DEF AllFor
  <2>5. Longer(d, done, m)
    BY <2>2 DEF Longer
  <2> QED BY <2>4, <2>5 DEF d
<1> QED BY <1>2, <1>3

LEMMA LongerNames ==
    ASSUME NEW done, Len(done) \in Nat, NEW m, NEW d, Longer(d, done, m)
    PROVE  \A f \in Frames : Names(done, f) \/ In(f, m) <=> Names(d, f)
<1> DEFINE n == Len(done)
<1>1. Len(d) = n + 1 /\ d[n + 1] = m /\ \A k \in 1 .. n : d[k] = done[k]
  BY DEF Longer
<1>2. /\ \A k \in 1 .. n + 1 : k \in 1 .. n \/ k = n + 1
      /\ \A k \in 1 .. n : k \in 1 .. n + 1
      /\ n + 1 \in 1 .. n + 1
  OBVIOUS
<1> HIDE DEF n
<1> SUFFICES ASSUME NEW f \in Frames PROVE Names(done, f) \/ In(f, m) <=> Names(d, f)
  OBVIOUS
<1>3. (\E k \in 1 .. n : In(f, done[k])) \/ In(f, m) <=> \E k \in 1 .. n + 1 : In(f, d[k])
  BY <1>1, <1>2
<1> QED BY <1>1, <1>3 DEF Names, n

LEMMA JoinNames ==
    ASSUME NEW b, NEW done, AllFor(b, done), NEW m \in Requests, m.w = b
    PROVE  \A f \in Frames : Names(done, f) \/ In(f, m) <=> Names(Join(done, m), f)
<1> DEFINE d == Join(done, m)
           n == Len(done)
<1>1. n \in Nat
  BY LenProperties DEF AllFor
<1>2. AllFor(b, d) /\ (Extended(d, done, m) \/ Longer(d, done, m))
  BY Joined
<1> HIDE DEF d
<1> SUFFICES ASSUME NEW f \in Frames PROVE Names(done, f) \/ In(f, m) <=> Names(d, f)
  BY DEF d
<1>3. CASE Extended(d, done, m)
  <2>1. /\ n \in 1 .. n /\ Len(d) = n
        /\ \A k \in 1 .. n : k # n => d[k] = done[k]
        /\ In(f, d[n]) <=> In(f, done[n]) \/ In(f, m)
    BY <1>3 DEF Extended
  <2> HIDE DEF n
  <2>2. (\E k \in 1 .. n : In(f, done[k])) \/ In(f, m) <=> \E k \in 1 .. n : In(f, d[k])
    BY <2>1
  <2> QED BY <2>1, <2>2 DEF Names, n
<1>4. CASE Longer(d, done, m)
  BY <1>1, <1>4, LongerNames
<1> QED BY <1>2, <1>3, <1>4

LEMMA CoalesceCovers ==
    ASSUME NEW b, NEW maps, AllFor(b, maps)
    PROVE  /\ AllFor(b, Coalesce(maps))
           /\ \A f \in Frames : Names(maps, f) => Names(Coalesce(maps), f)
<1> DEFINE n == Len(maps)
<1>1. n \in Nat /\ DOMAIN maps = 1 .. n /\ \A k \in 1 .. n : maps[k] \in Requests /\ maps[k].w = b
  BY ElementOfSeq, LenProperties DEF AllFor
<1> HIDE DEF n
<1>2. PICK w : /\ w[0] = <<>> /\ w[n] = Coalesce(maps)
               /\ \A k \in 1 .. n : w[k] = Join(w[k - 1], maps[k])
  BY <1>1, JoinsInTurn
<1> DEFINE Good(k) == /\ AllFor(b, w[k])
                      /\ \A j \in 1 .. k : \A f \in Frames : In(f, maps[j]) => Names(w[k], f)
           Bad == {k \in 0 .. n : ~ Good(k)}
<1>3. Good(0)
  <2>1. <<>> \in Seq(Requests) /\ Len(<<>>) = 0
    BY EmptySeq
  <2>2. AllFor(b, <<>>)
    BY <2>1 DEF AllFor
  <2> QED BY <1>2, <2>2
<1>4. ASSUME NEW k \in 1 .. n, Good(k - 1) PROVE Good(k)
  <2>1. w[k] = Join(w[k - 1], maps[k]) /\ maps[k] \in Requests /\ maps[k].w = b
    BY <1>1, <1>2
  <2>2. AllFor(b, w[k - 1])
    BY <1>4
  <2>3. /\ AllFor(b, w[k])
        /\ \A f \in Frames : Names(w[k - 1], f) \/ In(f, maps[k]) => Names(w[k], f)
    BY <2>1, <2>2, Joined, JoinNames
  <2>4. \A j \in 1 .. k : j = k \/ j \in 1 .. k - 1
    BY <1>1
  <2>5. \A j \in 1 .. k : \A f \in Frames : In(f, maps[j]) => Names(w[k], f)
    BY <1>4, <2>3, <2>4
  <2> QED BY <2>3, <2>5
<1> HIDE DEF Good
<1>5. Bad = {}
  <2> SUFFICES ASSUME Bad # {} PROVE FALSE
    OBVIOUS
  <2>1. PICK k \in Bad : \A j \in Bad : k <= j
    <3>1. Bad \in SUBSET Nat
      OBVIOUS
    <3> HIDE DEF Bad
    <3> QED BY <3>1, Least
  <2>2. k # 0
    BY <1>3, <2>1
  <2>3. k \in 1 .. n /\ k - 1 \in 0 .. n /\ k - 1 < k
    BY <1>1, <2>1, <2>2
  <2>4. k - 1 \notin Bad
    BY <2>1, <2>3
  <2> QED BY <1>4, <2>1, <2>3, <2>4
<1>6. Good(n)
  BY <1>1, <1>5
<1>7. AllFor(b, w[n]) /\ \A j \in 1 .. n : \A f \in Frames : In(f, maps[j]) => Names(w[n], f)
  BY <1>6 DEF Good
<1>8. \A f \in Frames : Names(maps, f) => Names(w[n], f)
  BY <1>7 DEF Names, n
<1> QED BY <1>2, <1>7, <1>8

-----------------------------------------------------------------------------
(***************************************************************************)
(* Requests for one protection, as an opening of the file, the start of a  *)
(* transaction, a trap and a checkout make them.                           *)
(***************************************************************************)

\* The table says b of frame f.
Says(t, f, b) == \A i \in 1 .. Len(t) : In(f, t[i]) => t[i].w = b

\* What a table claims of the kernel.
LEMMA Claims ==
    ASSUME NEW t, Tiles(t)
    PROVE  \E q : Agrees(t, q)
<1> DEFINE q == [f \in Frames |-> t[CHOOSE i \in 1 .. Len(t) : In(f, t[i])].w]
<1>1. ASSUME NEW k \in 1 .. Len(t), NEW f \in Frames, In(f, t[k]) PROVE q[f] = t[k].w
  <2>1. \E i \in 1 .. Len(t) : In(f, t[i])
    BY Covered
  <2>2. PICK i \in 1 .. Len(t) : i = (CHOOSE j \in 1 .. Len(t) : In(f, t[j])) /\ In(f, t[i])
    BY <2>1
  <2>3. i = k
    BY <1>1, <2>2, OnePieceEach, NumFramesAssumption DEF Frames
  <2> QED BY <2>2, <2>3
<1> HIDE DEF q
<1> QED BY <1>1 DEF Agrees

\* What the kernel was told, when the table is true.
LEMMA SaidIsTrue ==
    ASSUME NEW t, Tiles(t), NEW q, Agrees(t, q), NEW f \in Frames, NEW b, Says(t, f, b)
    PROVE  q[f] = b
<1>1. PICK i \in 1 .. Len(t) : In(f, t[i])
  BY Covered
<1> QED BY <1>1 DEF Agrees, Says

Merges(b, done, s) ==
    /\ s = [table |-> s.table, prot |-> s.prot]
    /\ s.table # Aborted => /\ Tiles(s.table)
                            /\ \A f \in Frames : Names(done, f) => Says(s.table, f, b)

LEMMA MergesOne ==
    ASSUME NEW b, NEW s, NEW done, Merges(b, done, s), NEW m \in Requests, m.w = b, NEW more,
           \A f \in Frames : Names(more, f) => Names(done, f) \/ In(f, m)
    PROVE  Merges(b, more, MergeInMap(s, m))
<1> DEFINE t == s.table
           d == MergeInMap(s, m)
<1>1. s = [table |-> t, prot |-> s.prot]
  BY DEF Merges
<1>2. d = [table |-> d.table, prot |-> d.prot]
  <2>1. [s EXCEPT !.table = Aborted] = [table |-> Aborted, prot |-> s.prot]
    BY <1>1
  <2>2. \A x : [s EXCEPT !.table = x] = [table |-> x, prot |-> s.prot]
    BY <1>1
  <2>3. \E x, y : d = [table |-> x, prot |-> y]
    BY <2>1, <2>2 DEF MergeInMap
  <2> HIDE DEF d
  <2> QED BY <2>3
<1>3. ASSUME d.table # Aborted
      PROVE  Tiles(d.table) /\ \A f \in Frames : Names(more, f) => Says(d.table, f, b)
  <2>1. t # Aborted
    <3> SUFFICES ASSUME t = Aborted PROVE FALSE
      OBVIOUS
    <3>1. d = [s EXCEPT !.table = Aborted]
      BY DEF MergeInMap
    <3>2. d = [table |-> Aborted, prot |-> s.prot]
      BY <1>1, <3>1
    <3> QED BY <1>3, <3>2
  <2>2. Tiles(t) /\ \A f \in Frames : Names(done, f) => Says(t, f, b)
    BY <2>1 DEF Merges
  <2>3. PICK q : Agrees(t, q)
    BY <2>2, Claims
  <2>4. d.table = MergeInMap([table |-> t, prot |-> s.prot], m).table
    BY <1>1
  <2> HIDE DEF d, t
  <2>5. Tiles(d.table) /\ Agrees(d.table, Mprotect(q, m))
    <3>1. d.table = Aborted \/ Grants(d.table, q, m)
      BY <2>2, <2>3, <2>4, MergeSays
    <3> QED BY <1>3, <3>1 DEF Grants
  <2>6. ASSUME NEW f \in Frames, Names(more, f) PROVE Says(d.table, f, b)
    <3>1. Mprotect(q, m)[f] = b
      <4>1. CASE In(f, m)
        BY <4>1 DEF Mprotect, In
      <4>2. CASE ~ In(f, m)
        <5>1. Says(t, f, b)
          BY <2>2, <2>6, <4>2
        <5>2. q[f] = b
          BY <2>2, <2>3, <5>1, SaidIsTrue
        <5> QED BY <4>2, <5>2 DEF Mprotect, In
      <4> QED BY <4>1, <4>2
    <3> QED BY <2>5, <3>1 DEF Agrees, Says
  <2> QED BY <2>5, <2>6
<1> HIDE DEF d, t
<1>4. Merges(b, more, d)
  BY <1>2, <1>3 DEF Merges
<1> QED BY <1>4 DEF d

\* However many requests for one protection are merged, in whatever order, and
\* even if one is Lossy or Emptying: an assert fails, or the table tiles the heap
\* and says that all of them have been granted.
LEMMA UniformMerge ==
    ASSUME NEW t, Tiles(t), NEW p, NEW b, NEW maps, AllFor(b, maps)
    PROVE  LET d == MergeInTable([table |-> t, prot |-> p], maps).table
           IN  d = Aborted \/ (Tiles(d) /\ \A f \in Frames : Names(maps, f) => Says(d, f, b))
<1> DEFINE s == [table |-> t, prot |-> p]
           c == Coalesce(maps)
           n == Len(c)
           d == MergeInTable(s, maps).table
<1>1. AllFor(b, c) /\ \A f \in Frames : Names(maps, f) => Names(c, f)
  BY CoalesceCovers
<1>2. s.table = t /\ s.prot = p /\ s = [table |-> s.table, prot |-> s.prot]
      /\ [s EXCEPT !.table = Aborted].table = Aborted
  OBVIOUS
<1>3. d = Aborted \/ d = FoldLeft(MergeInMap, s, c).table
  BY <1>2 DEF MergeInTable
<1> HIDE DEF c, d, s
<1>4. n \in Nat /\ DOMAIN c = 1 .. n /\ \A k \in 1 .. n : c[k] \in Requests /\ c[k].w = b
  BY <1>1, ElementOfSeq, LenProperties DEF AllFor
<1>5. PICK w : /\ w[0] = s /\ w[n] = FoldLeft(MergeInMap, s, c)
               /\ \A k \in 1 .. n : w[k] = MergeInMap(w[k - 1], c[k])
  <2> DEFINE m == n
  <2>1. m \in Nat /\ DOMAIN c = 1 .. m
    BY <1>4
  <2> HIDE DEF m
  <2>2. \E w : InTurn(w, s, m, c)
    BY <2>1, MergesInTurn
  <2> QED BY <2>2 DEF m, InTurn
<1> DEFINE Good(k) == Merges(b, SubSeq(c, 1, k), w[k])
           Bad == {k \in 0 .. n : ~ Good(k)}
<1>6. \A k \in 0 .. n : /\ Len(SubSeq(c, 1, k)) = k
                        /\ \A j \in 1 .. k : SubSeq(c, 1, k)[j] = c[j]
  <2> SUFFICES ASSUME NEW k \in 0 .. n
               PROVE  /\ Len(SubSeq(c, 1, k)) = k
                      /\ \A j \in 1 .. k : SubSeq(c, 1, k)[j] = c[j]
    OBVIOUS
  <2>1. c \in Seq(Requests)
    BY <1>1 DEF AllFor
  <2>2. \A j \in 1 .. k : j \in 1 .. n
    BY <1>4
  <2> QED BY <1>4, <2>1, <2>2, SubSeqProperties
<1> HIDE DEF n
<1>7. Good(0)
  <2>1. \A f : ~ Names(SubSeq(c, 1, 0), f)
    BY <1>4, <1>6 DEF Names
  <2> QED BY <1>2, <1>5, <2>1 DEF Merges
<1>8. ASSUME NEW k \in 1 .. n, Good(k - 1) PROVE Good(k)
  <2>1. w[k] = MergeInMap(w[k - 1], c[k]) /\ c[k] \in Requests /\ c[k].w = b
    BY <1>4, <1>5
  <2>2. \A j \in 1 .. k : j = k \/ j \in 1 .. k - 1
    BY <1>4
  <2>3. k \in 0 .. n /\ k - 1 \in 0 .. n
    BY <1>4
  <2>4. ASSUME NEW f \in Frames, Names(SubSeq(c, 1, k), f)
        PROVE  Names(SubSeq(c, 1, k - 1), f) \/ In(f, c[k])
    <3>1. PICK j \in 1 .. k : In(f, c[j])
      BY <1>6, <2>3, <2>4 DEF Names
    <3>2. j \in 1 .. k - 1 => Names(SubSeq(c, 1, k - 1), f)
      BY <1>6, <2>3, <3>1 DEF Names
    <3> QED BY <2>2, <3>1, <3>2
  <2>5. Merges(b, SubSeq(c, 1, k - 1), w[k - 1])
    BY <1>8
  <2>6. Merges(b, SubSeq(c, 1, k), MergeInMap(w[k - 1], c[k]))
    BY <2>1, <2>4, <2>5, MergesOne
  <2> QED BY <2>1, <2>6
<1> HIDE DEF Good
<1>9. Bad = {}
  <2> SUFFICES ASSUME Bad # {} PROVE FALSE
    OBVIOUS
  <2>1. PICK k \in Bad : \A j \in Bad : k <= j
    <3>1. Bad \in SUBSET Nat
      OBVIOUS
    <3> HIDE DEF Bad
    <3> QED BY <3>1, Least
  <2>2. k # 0
    BY <1>7, <2>1
  <2>3. k \in 1 .. n /\ k - 1 \in 0 .. n /\ k - 1 < k
    BY <1>4, <2>1, <2>2
  <2>4. k - 1 \notin Bad
    BY <2>1, <2>3
  <2> QED BY <1>8, <2>1, <2>3, <2>4
<1>10. Good(n) /\ n \in 0 .. n
  BY <1>4, <1>9
<1>11. \A f : Names(c, f) => Names(SubSeq(c, 1, n), f)
  BY <1>6, <1>10 DEF Names, n
<1>12. /\ w[n].table # Aborted =>
             /\ Tiles(w[n].table)
             /\ \A f \in Frames : Names(SubSeq(c, 1, n), f) => Says(w[n].table, f, b)
  BY <1>10 DEF Good, Merges
<1>13. d = Aborted \/ (Tiles(d) /\ \A f \in Frames : Names(maps, f) => Says(d, f, b))
  BY <1>1, <1>3, <1>5, <1>11, <1>12
<1> QED BY <1>13 DEF d, s

\* The table's own view of its entries, read the other way.
LEMMA TilingTiles ==
    ASSUME table \in Seq(Piece), table # <<>>, Tiling
    PROVE  Tiles(table)
<1>1. Len(table) \in Nat /\ Len(table) # 0 /\ DOMAIN table = 1 .. Len(table)
  BY EmptySeq, LenProperties
<1> QED BY <1>1 DEF Tiling, Tiles, Chain, Last

LEMMA TilesTiling ==
    ASSUME Tiles(table) PROVE Tiling
<1>1. Len(table) \in Nat /\ DOMAIN table = 1 .. Len(table)
  BY LenProperties DEF Tiles
<1> QED BY <1>1 DEF Tiling, Tiles, Chain, Last

LEMMA MatchAgrees ==
    ASSUME Tiles(table), TableMatchesKernel
    PROVE  Agrees(table, prot)
<1> SUFFICES ASSUME NEW i \in 1 .. Len(table), NEW f \in Frames, In(f, table[i])
             PROVE  prot[f] = table[i].w
  BY DEF Agrees
<1>1. table[i].start \in Nat /\ EndOf(table[i]) \in Nat /\ f \in Nat
  BY PieceFacts, NumFramesAssumption DEF Tiles, Frames
<1>2. f \in table[i].start .. EndOf(table[i]) - 1 /\ i \in DOMAIN table
  BY <1>1, LenProperties DEF In, Tiles
<1> QED BY <1>2 DEF TableMatchesKernel

LEMMA OneMapTiles == Tiles(OneWritableMap)
<1> DEFINE t == OneWritableMap
<1>1. /\ t \in Seq(Piece) /\ Len(t) = 1
      /\ t[1].w = TRUE /\ t[1].start = 0 /\ t[1].len = NumFrames
      /\ EndOf(t[1]) = NumFrames
  BY NumFramesAssumption DEF OneWritableMap, Piece, EndOf
<1> HIDE DEF t
<1>2. Tiles(t)
  BY <1>1, NumFramesAssumption DEF Tiles, Chain
<1> QED BY <1>2 DEF t

-----------------------------------------------------------------------------
(***************************************************************************)
(* Requests that are granted.  A request is neither Lossy nor fatal if the *)
(* frames it names that have the protection asked for already are next to  *)
(* each other.                                                             *)
(***************************************************************************)
NoHole(q, m) ==
    \A x, y, z \in Frames : x < y /\ y < z /\ In(x, m) /\ In(z, m) /\ q[x] = m.w /\ q[z] = m.w
        => q[y] = m.w

\* The kernel was told what was asked for, and the table says so.
Told(s, q) == /\ s = [table |-> s.table, prot |-> q]
              /\ q \in [Frames -> BOOLEAN]
              /\ Tiles(s.table) /\ Agrees(s.table, q)

LEMMA NotLossy ==
    ASSUME NEW t, Tiles(t), NEW q, Agrees(t, q), NEW m \in Requests, NoHole(q, m)
    PROVE  ~Lossy(t, m)
<1> SUFFICES ASSUME Lossy(t, m) PROVE FALSE
  OBVIOUS
<1> DEFINE hits == Overlaps(t, m)
           lo   == Min(hits)
           hi   == Max(hits)
           next == lo + 1
           x    == m.start
           y    == t[next].start
           z    == EndOf(m) - 1
<1>1. /\ lo \in 1 .. Len(t) /\ hi \in lo .. Len(t)
      /\ In(x, t[lo]) /\ In(z, t[hi])
  BY Hits
<1>2. hi - lo >= 2 /\ t[lo].w = m.w /\ t[hi].w = m.w
  BY DEF Lossy
<1> HIDE DEF hits, lo, hi
<1>3. Len(t) \in Nat /\ t \in Seq(Piece) /\ Chain(t)
  BY DEF Tiles
<1>4. next \in 1 .. Len(t) /\ lo < Len(t) /\ next < hi /\ hi \in 1 .. Len(t)
  BY <1>1, <1>2, <1>3
<1>5. t[lo].w # t[next].w /\ t[next].start = EndOf(t[lo])
  BY <1>1, <1>4, Around
<1> HIDE DEF next
<1>6. EndOf(t[next]) <= t[hi].start
  BY <1>3, <1>4, PiecesInOrder
<1>7. /\ y \in Nat /\ EndOf(t[next]) \in Nat /\ y < EndOf(t[next])
      /\ t[hi].start \in Nat /\ t[lo].start \in Nat /\ EndOf(t[lo]) \in Nat
  <2>1. /\ t[next].start \in Nat /\ t[next].len \in Nat /\ EndOf(t[next]) \in Nat
        /\ EndOf(t[next]) = t[next].start + t[next].len
    BY <1>3, <1>4, PieceFacts
  <2>2. t[hi].start \in Nat
    BY <1>3, <1>4, PieceFacts
  <2>3. t[lo].start \in Nat /\ EndOf(t[lo]) \in Nat
    BY <1>1, <1>3, PieceFacts
  <2>4. t[next].len > 0
    BY <1>3, <1>4 DEF Chain
  <2> QED BY <2>1, <2>2, <2>3, <2>4
<1>8. x \in Frames /\ z \in Frames /\ x \in Nat /\ z \in Nat /\ In(x, m) /\ In(z, m)
  BY RequestFacts, NumFramesAssumption DEF In, Frames
<1>9. x < y /\ y < z
  BY <1>1, <1>5, <1>6, <1>7, <1>8 DEF In
<1>10. y \in Frames /\ In(y, t[next])
  BY <1>7, <1>8, <1>9, NumFramesAssumption DEF Frames, In
<1>11. q[x] = m.w /\ q[z] = m.w /\ q[y] # m.w
  BY <1>1, <1>2, <1>4, <1>5, <1>8, <1>10 DEF Agrees
<1> QED BY <1>8, <1>9, <1>10, <1>11 DEF NoHole

LEMMA MergeTells ==
    ASSUME NEW q, NEW s, Told(s, q), NEW m \in Requests, NoHole(q, m)
    PROVE  LET d == MergeInMap(s, m)
           IN  /\ d = [table |-> d.table, prot |-> d.prot]
               /\ d.table = Aborted \/ Told(d, Mprotect(q, m))
<1> DEFINE t == s.table
           d == MergeInMap(s, m)
<1>1. s = [table |-> t, prot |-> q] /\ q \in [Frames -> BOOLEAN] /\ Tiles(t) /\ Agrees(t, q)
  BY DEF Told
<1>2. d = MergeInMap([table |-> t, prot |-> q], m)
  BY <1>1
<1>3. d = [table |-> d.table, prot |-> d.prot]
  <2>1. \A x : [s EXCEPT !.table = x] = [table |-> x, prot |-> q]
    BY <1>1
  <2>2. \E x, y : d = [table |-> x, prot |-> y]
    BY <2>1 DEF MergeInMap
  <2> HIDE DEF d
  <2> QED BY <2>2
<1>4. Mprotect(q, m) \in [Frames -> BOOLEAN]
  BY <1>1, RequestFacts DEF Mprotect
<1> HIDE DEF t, d
<1>5. CASE Emptying(t, m)
  <2> DEFINE hits == Overlaps(t, m)
             lo   == Min(hits)
             hi   == Max(hits)
             c    == Cull(t, hits)
             e    == c.table
             i    == c.at
  <2>1. t[lo].w # t[hi].w /\ t[hi].w = m.w /\ t[lo].start = m.start
    BY <1>5 DEF Emptying
  <2>2. c.two /\ hits # {} /\ t # Aborted
    <3>1. c.two = (t[lo].w # t[hi].w)
      BY DEF Cull
    <3>2. hits # {}
      BY <1>1, Hits
    <3>3. t # Aborted
      BY <1>1 DEF Tiles, Aborted
    <3> QED BY <2>1, <3>1, <3>2, <3>3
  <2>3. e[i].w = t[lo].w /\ e[i].start = t[lo].start
    BY <1>1, CullKeeps
  <2>4. d.table = MergeTwo(e, i, m)
    <3>1. [table |-> t, prot |-> q].table = t
      OBVIOUS
    <3>2. MergeInMap([table |-> t, prot |-> q], m)
            = [table |-> MergeTwo(e, i, m), prot |-> Mprotect(q, m)]
      BY <2>2, <3>1 DEF MergeInMap
    <3> HIDE DEF e, i
    <3> QED BY <1>2, <3>2
  <2> HIDE DEF e, i, hits, lo, hi
  <2>5. /\ ~(m.w = e[i].w /\ EndOf(m) = EndOf(e[i + 1]))
        /\ ~(m.w = e[i].w /\ EndOf(m) # EndOf(e[i + 1]))
        /\ m.start = e[i].start
    BY <2>1, <2>3
  <2>6. MergeTwo(e, i, m) = Aborted
    BY <2>5 DEF MergeTwo
  <2> QED BY <1>3, <2>4, <2>6 DEF d
<1>6. CASE ~Emptying(t, m)
  <2>1. ~Lossy(t, m)
    BY <1>1, NotLossy
  <2>2. Tiles(d.table) /\ d.prot = Mprotect(q, m) /\ Agrees(d.table, d.prot)
    BY <1>1, <1>2, <1>6, <2>1, MergeGrants
  <2> QED BY <1>3, <1>4, <2>2 DEF Told, d
<1> QED BY <1>5, <1>6

-----------------------------------------------------------------------------
\* No frame is named by two requests.
Apart(maps) ==
    \A j, k \in 1 .. Len(maps) : \A f \in Frames : In(f, maps[j]) /\ In(f, maps[k]) => j = k

Asked(q, b, maps) == [f \in Frames |-> IF Names(maps, f) THEN b ELSE q[f]]

LEMMA ListTells ==
    ASSUME NEW b \in BOOLEAN, NEW q, NEW s, Told(s, q), NEW c, AllFor(b, c), Apart(c),
           \A k \in 1 .. Len(c) : NoHole(q, c[k])
    PROVE  LET d == FoldLeft(MergeInMap, s, c) IN d.table = Aborted \/ Told(d, Asked(q, b, c))
<1> DEFINE n == Len(c)
           prots(k) == [f \in Frames |-> IF \E j \in 1 .. k : In(f, c[j]) THEN b ELSE q[f]]
<1>1. n \in Nat /\ DOMAIN c = 1 .. n /\ \A k \in 1 .. n : c[k] \in Requests /\ c[k].w = b
  BY ElementOfSeq, LenProperties DEF AllFor
<1>2. PICK w : /\ w[0] = s /\ w[n] = FoldLeft(MergeInMap, s, c)
               /\ \A k \in 1 .. n : w[k] = MergeInMap(w[k - 1], c[k])
  <2> DEFINE m == n
  <2>1. m \in Nat /\ DOMAIN c = 1 .. m
    BY <1>1
  <2> HIDE DEF m
  <2>2. \E w : InTurn(w, s, m, c)
    BY <2>1, MergesInTurn
  <2> QED BY <2>2 DEF m, InTurn
<1> HIDE DEF n
<1> DEFINE Good(k) == /\ w[k] = [table |-> w[k].table, prot |-> w[k].prot]
                      /\ w[k].table = Aborted \/ Told(w[k], prots(k))
           Bad == {k \in 0 .. n : ~ Good(k)}
<1>3. Good(0)
  <2>1. \A f : ~ \E j \in 1 .. 0 : In(f, c[j])
    OBVIOUS
  <2>2. prots(0) = q
    BY <2>1 DEF Told
  <2>3. s = [table |-> s.table, prot |-> q]
    BY DEF Told
  <2> HIDE DEF prots
  <2> QED BY <1>2, <2>2, <2>3
<1>4. ASSUME NEW k \in 1 .. n, Good(k - 1) PROVE Good(k)
  <2> DEFINE u == w[k - 1]
             p == prots(k - 1)
             m == c[k]
  <2>1. w[k] = MergeInMap(u, m) /\ m \in Requests /\ m.w = b /\ NoHole(q, m)
    BY <1>1, <1>2 DEF n
  <2>2. CASE u.table = Aborted
    <3>1. u = [table |-> Aborted, prot |-> u.prot]
      BY <1>4, <2>2
    <3>2. MergeInMap(u, m) = [u EXCEPT !.table = Aborted]
      BY <2>2 DEF MergeInMap
    <3>3. [u EXCEPT !.table = Aborted] = [table |-> Aborted, prot |-> u.prot]
      BY <3>1
    <3> HIDE DEF u
    <3> QED BY <2>1, <3>2, <3>3
  <2>3. CASE u.table # Aborted
    <3>1. Told(u, p)
      BY <1>4, <2>3
    <3>2. \A f \in Frames : In(f, m) => p[f] = q[f]
      <4> SUFFICES ASSUME NEW f \in Frames, In(f, m), NEW j \in 1 .. k - 1, In(f, c[j]) PROVE FALSE
        OBVIOUS
      <4>1. j \in 1 .. n /\ j # k
        BY <1>1
      <4> QED BY <4>1 DEF Apart, n
    <3>3. NoHole(p, m)
      <4> HIDE DEF p
      <4> SUFFICES ASSUME NEW x \in Frames, NEW y \in Frames, NEW z \in Frames, x < y, y < z,
                          In(x, m), In(z, m), p[x] = m.w, p[z] = m.w
                   PROVE  p[y] = m.w
        BY DEF NoHole
      <4>1. x \in Nat /\ y \in Nat /\ z \in Nat /\ m.start \in Nat /\ EndOf(m) \in Nat
        BY <2>1, RequestFacts, NumFramesAssumption DEF Frames
      <4>2. In(y, m)
        BY <4>1 DEF In
      <4>3. q[x] = m.w /\ q[z] = m.w
        BY <3>2
      <4>4. q[y] = m.w
        BY <2>1, <4>3 DEF NoHole
      <4> QED BY <3>2, <4>2, <4>4
    <3>4. /\ w[k] = [table |-> w[k].table, prot |-> w[k].prot]
          /\ w[k].table = Aborted \/ Told(w[k], Mprotect(p, m))
      <4> HIDE DEF u, p, m
      <4> QED BY <2>1, <3>1, <3>3, MergeTells
    <3>5. Mprotect(p, m) = prots(k)
      <4>1. \A f \in Frames : (\E j \in 1 .. k : In(f, c[j])) <=>
                                (\E j \in 1 .. k - 1 : In(f, c[j])) \/ In(f, m)
        <5>1. \A j \in 1 .. k : j = k \/ j \in 1 .. k - 1
          BY <1>1
        <5>2. k \in 1 .. k /\ \A j \in 1 .. k - 1 : j \in 1 .. k
          BY <1>1
        <5> QED BY <5>1, <5>2
      <4>2. \A f \in Frames : (m.start <= f /\ f < EndOf(m)) <=> In(f, m)
        BY DEF In
      <4>3. \A f \in Frames : Mprotect(p, m)[f] = IF In(f, m) THEN b ELSE p[f]
        <5> HIDE DEF p, m
        <5> QED BY <2>1, <4>2 DEF Mprotect
      <4>4. \A f \in Frames : Mprotect(p, m)[f] = prots(k)[f]
        BY <4>1, <4>3
      <4>5. Mprotect(p, m) = [f \in Frames |-> Mprotect(p, m)[f]]
        <5> HIDE DEF p, m
        <5> QED BY DEF Mprotect
      <4>6. prots(k) = [f \in Frames |-> prots(k)[f]]
        OBVIOUS
      <4> HIDE DEF p, m, prots
      <4> QED BY <4>4, <4>5, <4>6
    <3> QED BY <3>4, <3>5
  <2> QED BY <2>2, <2>3
<1> HIDE DEF Good
<1>5. Bad = {}
  <2> SUFFICES ASSUME Bad # {} PROVE FALSE
    OBVIOUS
  <2>1. PICK k \in Bad : \A j \in Bad : k <= j
    <3>1. Bad \in SUBSET Nat
      OBVIOUS
    <3> HIDE DEF Bad
    <3> QED BY <3>1, Least
  <2>2. k # 0
    BY <1>3, <2>1
  <2>3. k \in 1 .. n /\ k - 1 \in 0 .. n /\ k - 1 < k
    BY <1>1, <2>1, <2>2
  <2>4. k - 1 \notin Bad
    BY <2>1, <2>3
  <2> QED BY <1>4, <2>1, <2>3, <2>4
<1>6. Good(n)
  BY <1>1, <1>5
<1>7. prots(n) = Asked(q, b, c)
  BY DEF Asked, Names, n
<1> HIDE DEF prots
<1> QED BY <1>2, <1>6, <1>7 DEF Good

LEMMA LongerApart ==
    ASSUME NEW done, Len(done) \in Nat, NEW m, NEW d, Longer(d, done, m),
           Apart(done), \A f \in Frames : In(f, m) => ~Names(done, f)
    PROVE  Apart(d)
<1> DEFINE n == Len(done)
<1>1. n \in Nat
  OBVIOUS
<1>2. /\ \A j, k \in 1 .. n : \A f \in Frames : In(f, done[j]) /\ In(f, done[k]) => j = k
      /\ \A k \in 1 .. n : \A f \in Frames : ~ (In(f, m) /\ In(f, done[k]))
  BY DEF Apart, Names
<1>3. Len(d) = n + 1 /\ d[n + 1] = m /\ \A k \in 1 .. n : d[k] = done[k]
  BY DEF Longer
<1>4. \A k \in 1 .. n + 1 : k \in 1 .. n \/ k = n + 1
  BY <1>1
<1> HIDE DEF n
<1> SUFFICES ASSUME NEW j \in 1 .. n + 1, NEW k \in 1 .. n + 1, NEW f \in Frames,
                    In(f, d[j]), In(f, d[k]), j # k
             PROVE  FALSE
  BY <1>3 DEF Apart
<1>5. CASE j \in 1 .. n /\ k \in 1 .. n
  BY <1>2, <1>3, <1>5
<1>6. CASE j = n + 1 /\ k \in 1 .. n
  BY <1>2, <1>3, <1>6
<1>7. CASE j \in 1 .. n /\ k = n + 1
  BY <1>2, <1>3, <1>7
<1> QED BY <1>4, <1>5, <1>6, <1>7

LEMMA JoinApart ==
    ASSUME NEW b, NEW done, AllFor(b, done), NEW m \in Requests, m.w = b,
           Apart(done), \A f \in Frames : In(f, m) => ~Names(done, f)
    PROVE  Apart(Join(done, m))
<1> DEFINE d == Join(done, m)
           n == Len(done)
<1>1. n \in Nat
  BY LenProperties DEF AllFor
<1>2. AllFor(b, d) /\ (Extended(d, done, m) \/ Longer(d, done, m))
  BY Joined
<1> SUFFICES Apart(d)
  OBVIOUS
<1> HIDE DEF d
<1>3. /\ \A j, k \in 1 .. n : \A f \in Frames : In(f, done[j]) /\ In(f, done[k]) => j = k
      /\ \A k \in 1 .. n : \A f \in Frames : ~ (In(f, m) /\ In(f, done[k]))
  BY DEF Apart, Names
<1>4. CASE Extended(d, done, m)
  <2>1. /\ n \in 1 .. n /\ Len(d) = n
        /\ \A k \in 1 .. n : k # n => d[k] = done[k]
        /\ \A f \in Frames : In(f, d[n]) <=> In(f, done[n]) \/ In(f, m)
    BY <1>4 DEF Extended
  <2> HIDE DEF n
  <2>2. \A j, k \in 1 .. n : \A f \in Frames : In(f, d[j]) /\ In(f, d[k]) => j = k
    <3> SUFFICES ASSUME NEW j \in 1 .. n, NEW k \in 1 .. n, NEW f \in Frames,
                        In(f, d[j]), In(f, d[k]), j # k
                 PROVE  FALSE
      OBVIOUS
    <3>1. CASE j # n /\ k # n
      BY <1>3, <2>1, <3>1
    <3>2. CASE j = n /\ k # n
      BY <1>3, <2>1, <3>2
    <3>3. CASE j # n /\ k = n
      BY <1>3, <2>1, <3>3
    <3> QED BY <3>1, <3>2, <3>3
  <2> QED BY <2>1, <2>2 DEF Apart, n
<1>5. CASE Longer(d, done, m)
  BY <1>1, <1>5, LongerApart
<1> QED BY <1>2, <1>4, <1>5

LEMMA CoalesceApart ==
    ASSUME NEW b, NEW maps, AllFor(b, maps), Apart(maps)
    PROVE  /\ AllFor(b, Coalesce(maps)) /\ Apart(Coalesce(maps))
           /\ \A f \in Frames : Names(Coalesce(maps), f) <=> Names(maps, f)
<1> DEFINE n == Len(maps)
<1>1. n \in Nat /\ DOMAIN maps = 1 .. n /\ \A k \in 1 .. n : maps[k] \in Requests /\ maps[k].w = b
  BY ElementOfSeq, LenProperties DEF AllFor
<1>0. \A j, k \in 1 .. n : \A f \in Frames : In(f, maps[j]) /\ In(f, maps[k]) => j = k
  BY DEF Apart
<1> HIDE DEF n
<1>2. PICK w : /\ w[0] = <<>> /\ w[n] = Coalesce(maps)
               /\ \A k \in 1 .. n : w[k] = Join(w[k - 1], maps[k])
  BY <1>1, JoinsInTurn
<1> DEFINE Good(k) == /\ AllFor(b, w[k]) /\ Apart(w[k])
                      /\ \A f \in Frames : Names(w[k], f) <=> \E j \in 1 .. k : In(f, maps[j])
           Bad == {k \in 0 .. n : ~ Good(k)}
<1>3. Good(0)
  <2>1. <<>> \in Seq(Requests) /\ Len(<<>>) = 0
    BY EmptySeq
  <2>2. AllFor(b, <<>>) /\ Apart(<<>>) /\ \A f : ~ Names(<<>>, f)
    BY <2>1 DEF AllFor, Apart, Names
  <2>3. \A f : ~ \E j \in 1 .. 0 : In(f, maps[j])
    OBVIOUS
  <2> QED BY <1>2, <2>2, <2>3
<1>4. ASSUME NEW k \in 1 .. n, Good(k - 1) PROVE Good(k)
  <2> DEFINE u == w[k - 1]
             m == maps[k]
  <2>1. w[k] = Join(u, m) /\ m \in Requests /\ m.w = b
    BY <1>1, <1>2
  <2>2. AllFor(b, u) /\ Apart(u) /\ \A f \in Frames : Names(u, f) <=> \E j \in 1 .. k - 1 : In(f, maps[j])
    BY <1>4
  <2>3. /\ \A j \in 1 .. k : j = k \/ j \in 1 .. k - 1
        /\ \A j \in 1 .. k - 1 : j \in 1 .. n /\ j # k /\ j \in 1 .. k
        /\ k \in 1 .. k
    BY <1>1
  <2> HIDE DEF u
  <2>4. \A f \in Frames : In(f, m) => ~Names(u, f)
    BY <1>0, <2>2, <2>3
  <2> HIDE DEF m
  <2>5. AllFor(b, w[k])
    BY <2>1, <2>2, Joined
  <2>6. Apart(w[k])
    BY <2>1, <2>2, <2>4, JoinApart
  <2>7. \A f \in Frames : Names(u, f) \/ In(f, m) <=> Names(w[k], f)
    BY <2>1, <2>2, JoinNames
  <2>8. \A f \in Frames : Names(w[k], f) <=> \E j \in 1 .. k : In(f, maps[j])
    BY <2>2, <2>3, <2>7 DEF m
  <2> QED BY <2>5, <2>6, <2>8
<1> HIDE DEF Good
<1>5. Bad = {}
  <2> SUFFICES ASSUME Bad # {} PROVE FALSE
    OBVIOUS
  <2>1. PICK k \in Bad : \A j \in Bad : k <= j
    <3>1. Bad \in SUBSET Nat
      OBVIOUS
    <3> HIDE DEF Bad
    <3> QED BY <3>1, Least
  <2>2. k # 0
    BY <1>3, <2>1
  <2>3. k \in 1 .. n /\ k - 1 \in 0 .. n /\ k - 1 < k
    BY <1>1, <2>1, <2>2
  <2>4. k - 1 \notin Bad
    BY <2>1, <2>3
  <2> QED BY <1>4, <2>1, <2>3, <2>4
<1>6. Good(n)
  BY <1>1, <1>5
<1>7. /\ AllFor(b, w[n]) /\ Apart(w[n])
      /\ \A f \in Frames : Names(w[n], f) <=> \E j \in 1 .. n : In(f, maps[j])
  BY <1>6 DEF Good
<1> QED BY <1>2, <1>7 DEF Names, n

\* Requests that leave no hole, in one call of merge_in_table: an assert fails,
\* or the kernel is told of each frame named, and of no other, and the table
\* says so.
LEMMA TableTells ==
    ASSUME NEW t, Tiles(t), NEW q \in [Frames -> BOOLEAN], Agrees(t, q),
           NEW b \in BOOLEAN, NEW maps, AllFor(b, maps), Apart(maps),
           \A k \in 1 .. Len(Coalesce(maps)) : NoHole(q, Coalesce(maps)[k])
    PROVE  LET d == MergeInTable([table |-> t, prot |-> q], maps)
           IN  d.table = Aborted \/ Told(d, Asked(q, b, maps))
<1> DEFINE s == [table |-> t, prot |-> q]
           c == Coalesce(maps)
           d == MergeInTable(s, maps)
<1>1. /\ AllFor(b, c) /\ Apart(c)
      /\ \A f \in Frames : Names(c, f) <=> Names(maps, f)
  BY CoalesceApart
<1>2. s.table = t /\ s.prot = q /\ s = [table |-> s.table, prot |-> s.prot]
      /\ [s EXCEPT !.table = Aborted].table = Aborted
  OBVIOUS
<1>3. d.table = Aborted \/ d = FoldLeft(MergeInMap, s, c)
  BY <1>2 DEF MergeInTable
<1>4. \A k \in 1 .. Len(c) : NoHole(q, c[k])
  OBVIOUS
<1> HIDE DEF c, d, s
<1>5. Told(s, q)
  BY <1>2 DEF Told
<1>6. Asked(q, b, c) = Asked(q, b, maps)
  BY <1>1 DEF Asked
<1> DEFINE e == FoldLeft(MergeInMap, s, c)
<1>7. e.table = Aborted \/ Told(e, Asked(q, b, c))
  BY <1>1, <1>4, <1>5, ListTells
<1> HIDE DEF e
<1>8. d.table = Aborted \/ d = e
  BY <1>3 DEF e
<1>9. d.table = Aborted \/ Told(d, Asked(q, b, maps))
  BY <1>6, <1>7, <1>8
<1> QED BY <1>9 DEF d, s

\* All the frames a request names have one protection.
Uniform(q, m) == \A f, h \in Frames : In(f, m) /\ In(h, m) => q[f] = q[h]

LEMMA UniformHasNoHole ==
    ASSUME NEW q, NEW m \in Requests, Uniform(q, m)
    PROVE  NoHole(q, m)
<1> SUFFICES ASSUME NEW x \in Frames, NEW y \in Frames, NEW z \in Frames,
                    x < y, y < z, In(x, m), In(z, m), q[x] = m.w, q[z] = m.w
             PROVE  q[y] = m.w
  BY DEF NoHole
<1>1. x \in Nat /\ y \in Nat /\ z \in Nat /\ m.start \in Nat /\ EndOf(m) \in Nat
  BY RequestFacts, NumFramesAssumption DEF Frames
<1>2. In(y, m)
  BY <1>1 DEF In
<1> QED BY <1>2 DEF Uniform

\* A trap makes one page writable, a checkout two of them.
LEMMA OnePageTold ==
    ASSUME NEW t, Tiles(t), NEW q \in [Frames -> BOOLEAN], Agrees(t, q),
           NEW m \in Requests, Uniform(q, m)
    PROVE  LET d == MergeInTable([table |-> t, prot |-> q], <<m>>)
           IN  d.table = Aborted \/ Told(d, Asked(q, m.w, <<m>>))
<1> DEFINE maps == <<m>>
<1>1. maps \in Seq(Requests) /\ Len(maps) = 1 /\ maps[1] = m /\ m.w \in BOOLEAN
  BY RequestFacts
<1>2. Coalesce(maps) = maps
  BY CoalesceOne
<1>3. NoHole(q, m)
  BY UniformHasNoHole
<1> HIDE DEF maps
<1>4. AllFor(m.w, maps) /\ Apart(maps)
  BY <1>1 DEF AllFor, Apart
<1>5. \A k \in 1 .. Len(Coalesce(maps)) : NoHole(q, Coalesce(maps)[k])
  <2>1. \A k \in 1 .. Len(maps) : k = 1
    BY <1>1
  <2>2. \A k \in 1 .. Len(maps) : NoHole(q, maps[k])
    BY <1>1, <1>3, <2>1
  <2> QED BY <1>2, <2>2
<1> DEFINE d == MergeInTable([table |-> t, prot |-> q], maps)
<1>6. d.table = Aborted \/ Told(d, Asked(q, m.w, maps))
  BY <1>1, <1>4, <1>5, TableTells
<1> QED BY <1>6 DEF maps

LEMMA CoalesceTwo ==
    ASSUME NEW x \in Requests, NEW y \in Requests
    PROVE  Coalesce(<<x, y>>) = Join(<<x>>, y)
<1> DEFINE maps == <<x, y>>
<1>1. DOMAIN maps = 1 .. 2 /\ maps[1] = x /\ maps[2] = y
  OBVIOUS
<1> HIDE DEF maps
<1>2. PICK w : /\ w[0] = <<>> /\ w[2] = Coalesce(maps)
               /\ \A k \in 1 .. 2 : w[k] = Join(w[k - 1], maps[k])
  <2> DEFINE n == 2
  <2>1. n \in Nat /\ DOMAIN maps = 1 .. n
    BY <1>1
  <2> HIDE DEF n
  <2>2. \E w : /\ w[0] = <<>> /\ w[n] = Coalesce(maps)
               /\ \A k \in 1 .. n : w[k] = Join(w[k - 1], maps[k])
    BY <2>1, JoinsInTurn
  <2> QED BY <2>2 DEF n
<1>3. w[1] = Join(<<>>, x)
  <2>1. 1 \in 1 .. 2 /\ 1 - 1 = 0
    OBVIOUS
  <2> QED BY <1>1, <1>2, <2>1
<1>4. w[2] = Join(w[1], y)
  <2>1. 2 \in 1 .. 2 /\ 2 - 1 = 1
    OBVIOUS
  <2> QED BY <1>1, <1>2, <2>1
<1>5. Join(<<>>, x) = <<x>>
  BY DEF Join
<1> QED BY <1>2, <1>3, <1>4, <1>5 DEF maps

LEMMA TwoPagesTold ==
    ASSUME NEW t, Tiles(t), NEW q \in [Frames -> BOOLEAN], Agrees(t, q), NEW b \in BOOLEAN,
           NEW x \in Requests, x.w = b, Uniform(q, x), NEW y \in Requests, y.w = b, Uniform(q, y),
           \A f \in Frames : ~ (In(f, x) /\ In(f, y))
    PROVE  LET d == MergeInTable([table |-> t, prot |-> q], <<x, y>>)
           IN  d.table = Aborted \/ Told(d, Asked(q, b, <<x, y>>))
<1> DEFINE maps == <<x, y>>
           c    == Coalesce(maps)
<1>1. /\ maps \in Seq(Requests) /\ Len(maps) = 2 /\ maps[1] = x /\ maps[2] = y
      /\ <<x>> \in Seq(Requests) /\ Len(<<x>>) = 1 /\ <<x>>[1] = x
  OBVIOUS
<1>2. c = Join(<<x>>, y)
  BY CoalesceTwo
<1>3. AllFor(b, <<x>>)
  BY <1>1 DEF AllFor
<1>4. AllFor(b, c) /\ (Extended(c, <<x>>, y) \/ Longer(c, <<x>>, y))
  BY <1>2, <1>3, Joined
<1> HIDE DEF maps, c
<1>5. AllFor(b, maps)
  <2>1. \A k \in 1 .. 2 : k = 1 \/ k = 2
    OBVIOUS
  <2> QED BY <1>1, <2>1 DEF AllFor
<1>6. Apart(maps)
  <2>1. \A k \in 1 .. 2 : k = 1 \/ k = 2
    OBVIOUS
  <2> QED BY <1>1, <2>1 DEF Apart
<1>7. NoHole(q, x) /\ NoHole(q, y)
  BY UniformHasNoHole
<1>8. ASSUME NEW k \in 1 .. Len(c) PROVE NoHole(q, c[k])
  <2>1. CASE Longer(c, <<x>>, y)
    <3>1. Len(c) = 2 /\ c[2] = y /\ c[1] = x
      BY <1>1, <2>1 DEF Longer
    <3>2. k = 1 \/ k = 2
      BY <3>1
    <3> QED BY <1>7, <3>1, <3>2
  <2>2. CASE Extended(c, <<x>>, y)
    <3>1. /\ Len(c) = 1 /\ EndOf(x) = y.start
          /\ \A f \in Frames : In(f, c[1]) <=> In(f, x) \/ In(f, y)
      BY <1>1, <2>2 DEF Extended
    <3>2. k = 1 /\ c[1].w = b
      BY <1>4, <3>1 DEF AllFor
    <3>3. ASSUME NEW i \in Frames, NEW j \in Frames, NEW h \in Frames, i < j, j < h,
                 In(i, c[1]), In(h, c[1]), q[i] = b, q[h] = b
          PROVE  q[j] = b
      <4>1. /\ i \in Nat /\ j \in Nat /\ h \in Nat
            /\ x.start \in Nat /\ EndOf(x) \in Nat /\ x.start < EndOf(x)
            /\ y.start \in Nat /\ EndOf(y) \in Nat /\ y.start < EndOf(y)
        BY RequestFacts, NumFramesAssumption DEF Frames
      <4>2. (In(i, x) \/ In(i, y)) /\ (In(h, x) \/ In(h, y))
        BY <3>1, <3>3
      <4>3. (In(i, x) /\ In(j, x)) \/ (In(h, y) /\ In(j, y))
        BY <3>1, <3>3, <4>1, <4>2 DEF In
      <4> QED BY <3>3, <4>3 DEF Uniform
    <3> QED BY <3>2, <3>3 DEF NoHole
  <2> QED BY <1>4, <2>1, <2>2
<1> DEFINE d == MergeInTable([table |-> t, prot |-> q], maps)
<1>9. d.table = Aborted \/ Told(d, Asked(q, b, maps))
  BY <1>5, <1>6, <1>8, TableTells DEF c
<1> QED BY <1>9 DEF maps

-----------------------------------------------------------------------------
(***************************************************************************)
(* The nodes of the heap                                                   *)
(***************************************************************************)

USE NumFramesAssumption, SnapAssumption, NullAssumption

\* The generations of a file, some of which may not have been made yet.
GensType  == [Nodes -> Generation \cup {Null}]
PagesType == [Frames -> Page \cup {Null}]

\* Putting a node in the slot that was found keeps the generations typed and
\* loses none.
LEMMA AttachType ==
    ASSUME NEW slot, slot.gens \in GensType, Found(slot), NEW ref \in Ref
    PROVE  /\ Attach(slot, ref) \in GensType
           /\ \A i \in Nodes : Attach(slot, ref)[i] = Null <=> slot.gens[i] = Null
<1> DEFINE i == slot.target
           g == slot.gens[i]
<1>1. g \in Generation /\ i \in Nodes
  BY DEF Found, GensType
<1>2. Append(g.c, ref) \in Seq(Ref)
  BY <1>1 DEF Generation
<1>3. [g EXCEPT !.c = Append(@, ref)] \in Generation
  BY <1>1, <1>2 DEF Generation
<1>4. Attach(slot, ref) = [slot.gens EXCEPT ![i] = [g EXCEPT !.c = Append(@, ref)]]
  BY DEF Attach
<1> QED BY <1>1, <1>3, <1>4 DEF GensType

\* A function on 1 .. n is a sequence.
LEMMA FunctionIsSeq ==
    ASSUME NEW S, NEW n \in Nat, NEW f \in [1 .. n -> S]
    PROVE  f \in Seq(S)
<1>1. f \in UNION {[1 .. m -> S] : m \in Nat}
  OBVIOUS
<1>2. Seq(S) = UNION {[1 .. m -> S] : m \in Nat}
  BY SeqDef
<1> QED BY <1>1, <1>2, Zenon

\* Relinking pages to other frames keeps the generations typed and loses none.
LEMMA RelinkType ==
    ASSUME NEW gs \in GensType, NEW moved \in [Frames -> Frames]
    PROVE  /\ Relink(gs, moved) \in GensType
           /\ \A i \in Nodes : Relink(gs, moved)[i] = Null <=> gs[i] = Null
<1> DEFINE one(i) == [k \in DOMAIN gs[i].c |->
                         IF gs[i].c[k].type = "page" THEN PageRef(moved[gs[i].c[k].at])
                                                     ELSE gs[i].c[k]]
<1>1. ASSUME NEW i \in Nodes, gs[i] # Null
      PROVE  [gs[i] EXCEPT !.c = one(i)] \in Generation
  <2>1. gs[i] \in Generation /\ gs[i].c \in Seq(Ref)
    BY <1>1 DEF GensType, Generation
  <2>2. PICK n \in Nat : gs[i].c \in [1 .. n -> Ref]
    BY <2>1, LenProperties
  <2>3. one(i) \in [1 .. n -> Ref]
    BY <2>2 DEF Ref, PageRef
  <2>4. one(i) \in Seq(Ref)
    BY <2>2, <2>3, FunctionIsSeq, Zenon
  <2> QED BY <2>1, <2>4 DEF Generation
<1>2. Relink(gs, moved) = [i \in Nodes |->
          IF gs[i] = Null THEN Null ELSE [gs[i] EXCEPT !.c = one(i)]]
  BY DEF Relink
<1> QED BY <1>1, <1>2 DEF GensType

\* The search for a free slot keeps the generations typed and loses none.
LEMMA SlotBelowType ==
    ASSUME gens \in GensType, lastGen \in Nodes, NEW i \in AllGens, Found(SlotBelow(i))
    PROVE  /\ SlotBelow(i).gens \in GensType
           /\ SlotBelow(i).lastGen \in Nodes
           /\ \A j \in AllGens : SlotBelow(i).gens[j] # Null
<1> DEFINE split == NewGenBetween(gens, i, lastGen + 1)
<1>1. CASE FirstFreeSlot(gens, i) # Null
  BY <1>1 DEF SlotBelow, AllGens
<1>2. CASE FirstFreeSlot(gens, i) = Null
  <2>1. SlotBelow(i).gens = split /\ SlotBelow(i).lastGen = lastGen + 1
    BY <1>2 DEF SlotBelow
  <2>2. lastGen + 1 \in Nodes
    BY <2>1 DEF Found
  <2>3. gens[i] \in Generation /\ i \in Nodes
    BY DEF AllGens, GensType
  <2>4. <<GenRef(lastGen + 1)>> \in Seq(Ref)
    BY <2>2 DEF Ref, GenRef
  <2>5. split = [[gens EXCEPT ![lastGen + 1] = gens[i]] EXCEPT
                    ![i] = [[gens EXCEPT ![lastGen + 1] = gens[i]][i] EXCEPT
                               !.c = <<GenRef(lastGen + 1)>>]]
    BY DEF NewGenBetween
  <2>6. [gens[i] EXCEPT !.c = <<GenRef(lastGen + 1)>>] \in Generation
    BY <2>3, <2>4 DEF Generation
  <2>7. split = [gens EXCEPT ![lastGen + 1] = gens[i],
                             ![i] = [gens[i] EXCEPT !.c = <<GenRef(lastGen + 1)>>]]
    BY <2>2, <2>3, <2>5 DEF GensType
  <2>8. split \in GensType /\ \A j \in AllGens : split[j] # Null
    BY <2>2, <2>3, <2>6, <2>7 DEF GensType, AllGens
  <2> QED BY <2>1, <2>2, <2>8
<1> QED BY <1>1, <1>2

-----------------------------------------------------------------------------
\* What is inductive: the two facts about where pages lie need the types, and
\* the type of lastPage needs that a checkout only moves a page to one that is
\* there.
HeapInv == TypeOK /\ PagesHaveHomes /\ PagesAreDisjoint

\* The frame where the next page goes is beyond every page there is.
LEMMA FreshPageIsFree ==
    ASSUME HeapInv, gens[root] # Null, NEW n \in Nat \ {0}, RoomFor(n)
    PROVE  /\ FreshPage \in Frames /\ FreshPage \notin AllPages
           /\ \A f \in AllPages : pages[f] \in Page /\ f + pages[f].pages <= FreshPage
<1>1. \A f \in AllPages : f \in Nat /\ pages[f] \in Page
  BY DEF HeapInv, TypeOK, AllPages, Frames
<1>2. lastPage \in AllPages
  BY DEF HeapInv, TypeOK
<1>3. \A f \in AllPages : f + pages[f].pages <= FreshPage
  BY DEF HeapInv, PagesAreDisjoint, FreshPage
<1>4. FreshPage \in Nat /\ FreshPage + n < NumFrames
  BY <1>1, <1>2 DEF FreshPage, RoomFor, Page
<1>5. FreshPage \in Frames
  BY <1>4 DEF Frames
<1>6. FreshPage \notin AllPages
  BY <1>1, <1>3, <1>4 DEF Page
<1> QED BY <1>1, <1>3, <1>5, <1>6

\* Steps that leave every page where it is, of its size and real address.
SameLayout == \A f \in AllPages : /\ pages'[f] \in Page
                                  /\ pages'[f].real = pages[f].real
                                  /\ pages'[f].pages = pages[f].pages

LEMMA LayoutKept ==
    ASSUME HeapInv, SameLayout, AllPages' = AllPages, lastPage' = lastPage,
           lastPage \in AllPages
    PROVE  PagesHaveHomes' /\ PagesAreDisjoint'
<1>1. PagesHaveHomes'
  BY DEF HeapInv, PagesHaveHomes, SameLayout
<1>2. PagesAreDisjoint'
  BY DEF HeapInv, PagesAreDisjoint, SameLayout
<1> QED BY <1>1, <1>2

\* A new page, laid out as new_page does it, that is at home or a copy.
LEMMA LayoutExtended ==
    ASSUME HeapInv, SameLayout, gens[root] # Null,
           AllPages' = AllPages \cup {FreshPage}, lastPage' = FreshPage,
           pages'[FreshPage] \in Page, RoomFor(pages'[FreshPage].pages),
           \/ pages'[FreshPage].real = FreshPage
           \/ \E p \in AllPages : /\ pages'[FreshPage].real = pages[p].real
                                  /\ pages'[FreshPage].pages = pages[p].pages
    PROVE  PagesHaveHomes' /\ PagesAreDisjoint'
<1> DEFINE n == pages'[FreshPage].pages
<1>0. n \in Nat \ {0}
  BY DEF Page
<1>1. /\ FreshPage \in Frames /\ FreshPage \notin AllPages
      /\ \A f \in AllPages : pages[f] \in Page /\ f + pages[f].pages <= FreshPage
  BY <1>0, FreshPageIsFree
<1>2. PagesHaveHomes'
  BY <1>1 DEF HeapInv, PagesHaveHomes, SameLayout
<1>3. PagesAreDisjoint'
  <2> SUFFICES ASSUME NEW f \in AllPages \cup {FreshPage}
               PROVE  /\ f + pages'[f].pages <= FreshPage + n
                      /\ \A q \in AllPages \cup {FreshPage} :
                            q > f => q >= f + pages'[f].pages
    BY DEF PagesAreDisjoint
  <2>1. \A q \in AllPages : q \in Nat /\ q + pages[q].pages <= FreshPage /\ pages[q].pages \in Nat \ {0}
    BY <1>1 DEF AllPages, Frames, Page
  <2>2. CASE f \in AllPages
    BY <2>1, <2>2, <1>0, <1>1 DEF HeapInv, PagesAreDisjoint, SameLayout, Frames
  <2>3. CASE f = FreshPage
    BY <2>1, <2>3, <1>0, <1>1 DEF Frames
  <2> QED BY <2>2, <2>3
<1> QED BY <1>2, <1>3

-----------------------------------------------------------------------------
\* Facts every step starts from.
LEMMA HeapFacts ==
    ASSUME HeapInv
    PROVE  /\ gens \in GensType /\ pages \in PagesType
           /\ \A i \in AllGens : i \in Nodes /\ gens[i] \in Generation
           /\ \A f \in AllPages : f \in Frames /\ pages[f] \in Page
           /\ root \in Nodes /\ initialPage \in Frames
           /\ working # Null => /\ working \in AllGens
                                /\ gens[root] # Null /\ lastPage \in AllPages
BY DEF HeapInv, TypeOK, GensType, PagesType, AllGens, AllPages, Nodes, Frames, root, initialPage

LEMMA InitHeapInv == Init => HeapInv
<1> SUFFICES ASSUME Init PROVE HeapInv
  OBVIOUS
<1>1. root \in Nodes /\ initialPage \in Frames
  BY DEF root, initialPage, Nodes, Frames
<1>2. AllGens = {} /\ AllPages = {}
  BY DEF Init, AllGens, AllPages
<1>3. TypeOK
  BY <1>1, <1>2 DEF Init, TypeOK
<1> QED BY <1>2, <1>3 DEF HeapInv, PagesHaveHomes, PagesAreDisjoint

\* new_db makes the first generation and the first page, for whichever process.
LEMMA NewDbStep ==
    ASSUME HeapInv, NewDb, proc' \in {"down", "up", "aborted"}, target' \in {target, Null}
    PROVE  HeapInv'
<1> DEFINE gen  == [gen |-> 0, committed |-> TRUE, c |-> <<PageRef(initialPage)>>]
           page == [real |-> initialPage, committed |-> TRUE, pages |-> 1, used |-> 0, val |-> 0]
<1>1. root \in Nodes /\ initialPage \in Frames /\ initialPage = 2
  BY DEF root, initialPage, Nodes, Frames
<1>2. /\ gens \in GensType /\ pages \in PagesType /\ AllGens = {} /\ AllPages = {}
      /\ target' = Null
  BY DEF HeapInv, TypeOK, NewDb, GensType, PagesType
<1>3. gen \in Generation /\ gen # Null
  <2>1. <<PageRef(initialPage)>> \in Seq(Ref)
    BY <1>1 DEF PageRef, Ref
  <2>2. gen \in Generation
    BY <2>1 DEF Generation
  <2> QED BY <2>2
<1>4. page \in Page /\ page # Null
  <2>1. page \in Page
    BY <1>1 DEF Page
  <2> QED BY <2>1
<1>5. gens' = [gens EXCEPT ![root] = gen] /\ pages' = [pages EXCEPT ![initialPage] = page]
  BY DEF NewDb
<1>6. gens' \in GensType /\ AllGens' = {root}
  BY <1>1, <1>2, <1>3, <1>5 DEF GensType, AllGens
<1>7. pages' \in PagesType /\ AllPages' = {initialPage} /\ pages'[initialPage] = page
  BY <1>1, <1>2, <1>4, <1>5 DEF PagesType, AllPages
<1>8. TypeOK'
  BY <1>1, <1>2, <1>6, <1>7 DEF HeapInv, TypeOK, NewDb, GensType, PagesType, AllGens
<1>9. PagesHaveHomes'
  BY <1>7 DEF PagesHaveHomes
<1>10. PagesAreDisjoint'
  BY <1>1, <1>7 DEF PagesAreDisjoint, NewDb
<1> QED BY <1>8, <1>9, <1>10 DEF HeapInv

\* Steps that leave the file's nodes alone.
LEMMA NodesKept ==
    ASSUME HeapInv, UNCHANGED <<gens, pages, lastGen, lastPage, lastGenIndex>>,
           proc' \in {"down", "up", "aborted"},
           working' \in {working, committed, target},
           committed' \in {committed, target},
           committed' # Null \/ target' # Null => working' # Null,
           target' \in AllGens \cup {Null}
    PROVE  HeapInv'
<1>1. AllGens' = AllGens /\ AllPages' = AllPages
  BY DEF AllGens, AllPages
<1>2. TypeOK'
  BY <1>1 DEF HeapInv, TypeOK
<1>3. PagesHaveHomes' /\ PagesAreDisjoint'
  BY <1>1 DEF HeapInv, PagesHaveHomes, PagesAreDisjoint
<1> QED BY <1>2, <1>3 DEF HeapInv

\* What TypeOK still needs once the generations and pages are typed and none
\* of them is lost.
LEMMA TypesKept ==
    ASSUME HeapInv, gens[root] # Null, gens' \in GensType, pages' \in PagesType,
           AllGens \subseteq AllGens', lastPage' \in AllPages',
           proc' \in {"down", "up", "aborted"},
           working' \in AllGens' \ {Null},
           committed' \in AllGens' \cup {Null},
           target' \in AllGens' \cup {Null},
           lastGen' \in Nodes, lastGenIndex' \in 0 .. MaxGen
    PROVE  TypeOK'
<1>1. root \in Nodes /\ gens'[root] # Null /\ lastPage' \in Frames
  BY HeapFacts DEF AllGens, AllPages
<1> QED BY <1>1 DEF TypeOK, GensType, PagesType

\* snap_begin_mut up to the new generation, which is in no other one yet.
LEMMA NewGenType ==
    ASSUME HeapInv, committed \in AllGens, lastGenIndex < MaxGen,
           Found(SlotBelow(committed)), SlotBelow(committed).lastGen + 1 \in Nodes
    PROVE  LET slot == SlotBelow(committed)
               next == slot.lastGen + 1
               made == [slot.gens EXCEPT ![next] = NewGen(lastGenIndex + 1)]
           IN  /\ slot.gens \in GensType /\ made \in GensType
               /\ lastGenIndex + 1 \in 0 .. MaxGen
               /\ \A j \in AllGens \cup {next} : made[j] # Null
               /\ \A j \in Nodes : slot.gens[j] # Null => made[j] # Null
<1> DEFINE slot == SlotBelow(committed)
           next == slot.lastGen + 1
           new  == NewGen(lastGenIndex + 1)
<1>1. /\ gens \in GensType /\ lastGen \in Nodes /\ lastGenIndex + 1 \in 0 .. MaxGen
  BY HeapFacts DEF HeapInv, TypeOK
<1>2. slot.gens \in GensType /\ \A j \in AllGens : slot.gens[j] # Null
  BY <1>1, SlotBelowType
<1>3. new \in Generation /\ new # Null
  <2>1. <<>> \in Seq(Ref)
    BY EmptySeq
  <2>2. new \in Generation
    BY <1>1, <2>1 DEF Generation, NewGen
  <2> QED BY <2>2
<1> QED BY <1>1, <1>2, <1>3 DEF GensType, AllGens

\* Steps that make generations and leave the pages alone.
LEMMA GensMade ==
    ASSUME HeapInv, gens[root] # Null, UNCHANGED <<pages, committed, lastPage>>, target' = Null,
           gens' \in GensType, AllGens \subseteq AllGens',
           proc' \in {"down", "up", "aborted"}, working' \in AllGens' \ {Null},
           lastGen' \in Nodes, lastGenIndex' \in 0 .. MaxGen
    PROVE  HeapInv'
<1>1. AllPages' = AllPages /\ lastPage \in AllPages /\ SameLayout /\ pages' \in PagesType
  BY HeapFacts DEF HeapInv, TypeOK, AllPages, SameLayout
<1>2. PagesHaveHomes' /\ PagesAreDisjoint'
  BY <1>1, LayoutKept
<1>3. TypeOK'
  BY <1>1, TypesKept DEF HeapInv, TypeOK
<1> QED BY <1>2, <1>3 DEF HeapInv

LEMMA BeginMutStep == HeapInv /\ BeginMut => HeapInv'
<1> SUFFICES ASSUME HeapInv, BeginMut PROVE HeapInv'
  OBVIOUS
<1> DEFINE slot == SlotBelow(committed)
           next == slot.lastGen + 1
           made == [slot.gens EXCEPT ![next] = NewGen(lastGenIndex + 1)]
           with == [slot EXCEPT !.gens[next] = NewGen(lastGenIndex + 1)]
<1>1. /\ Found(slot) /\ next \in Nodes /\ committed \in AllGens /\ lastGenIndex < MaxGen
  BY DEF HeapInv, TypeOK, BeginMut
<1>2. /\ made \in GensType /\ lastGenIndex + 1 \in 0 .. MaxGen
      /\ \A j \in AllGens \cup {next} : made[j] # Null
      /\ \A j \in Nodes : slot.gens[j] # Null => made[j] # Null
  BY <1>1, NewGenType, Zenon
<1>3. with.gens = made /\ with.target = slot.target /\ with.lastGen = slot.lastGen
  BY DEF SlotBelow
<1>4. Found(with)
  <2> HIDE DEF made, with
  <2> QED BY <1>1, <1>2, <1>3 DEF Found
<1>5. GenRef(next) \in Ref
  BY <1>1 DEF GenRef, Ref
<1>6. gens' = Attach(with, GenRef(next))
  BY DEF BeginMut
<1>7. gens' \in GensType /\ AllGens \cup {next} \subseteq AllGens'
  <2> HIDE DEF with, next, made
  <2>1. /\ Attach(with, GenRef(next)) \in GensType
        /\ \A i \in Nodes : Attach(with, GenRef(next))[i] = Null <=> with.gens[i] = Null
    BY <1>2, <1>3, <1>4, <1>5, AttachType
  <2> QED BY <1>1, <1>2, <1>3, <1>6, <2>1 DEF AllGens
<1>8. /\ working' = next /\ lastGen' = next /\ lastGenIndex' = lastGenIndex + 1
      /\ UNCHANGED <<pages, committed, lastPage>> /\ target' = Null
      /\ proc' \in {"aborted", "up"}
  BY DEF BeginMut, MergeMaps
<1>9. next # Null /\ gens[root] # Null
  BY <1>1, HeapFacts DEF Nodes, HeapInv, TypeOK
<1> HIDE DEF next
<1> QED BY <1>1, <1>2, <1>7, <1>8, <1>9, GensMade

LEMMA BeginDiesStep == HeapInv /\ BeginDies => HeapInv'
<1> SUFFICES ASSUME HeapInv, BeginDies PROVE HeapInv'
  OBVIOUS
<1> DEFINE slot == SlotBelow(committed)
           next == slot.lastGen + 1
           made == [slot.gens EXCEPT ![next] = NewGen(lastGenIndex + 1)]
<1>1. /\ Found(slot) /\ next \in Nodes /\ committed \in AllGens /\ lastGenIndex < MaxGen
      /\ working \in AllGens \ {Null} /\ gens[root] # Null
  BY HeapFacts DEF HeapInv, TypeOK, BeginDies
<1>2. /\ made \in GensType /\ lastGenIndex + 1 \in 0 .. MaxGen
      /\ \A j \in AllGens \cup {next} : made[j] # Null
  BY <1>1, NewGenType, Zenon
<1>3. /\ gens' = made /\ lastGen' = next /\ lastGenIndex' = lastGenIndex + 1
      /\ UNCHANGED <<pages, working, committed, lastPage>> /\ target' = Null
      /\ proc' = "down"
  BY DEF BeginDies, Gone
<1> HIDE DEF next, made
<1>4. AllGens \subseteq AllGens'
  BY <1>2, <1>3 DEF AllGens
<1> QED BY <1>1, <1>2, <1>3, <1>4, GensMade

LEMMA PlainWriteStep == ASSUME HeapInv, NEW f \in Frames, PlainWrite(f) PROVE HeapInv'
<1>1. PICK p \in AllPages : pages' = [pages EXCEPT ![p].val = lastGenIndex]
  BY DEF PlainWrite
<1>2. [pages[p] EXCEPT !.val = lastGenIndex] \in Page
  BY <1>1, HeapFacts DEF Page, HeapInv, TypeOK
<1>3. pages' \in PagesType /\ AllPages' = AllPages /\ SameLayout
  BY <1>1, <1>2, HeapFacts DEF PagesType, AllPages, SameLayout, Page
<1>4. /\ UNCHANGED <<proc, gens, working, committed, lastGen, lastPage, lastGenIndex, target>>
      /\ working # Null
  BY DEF PlainWrite
<1>5. TypeOK'
  BY <1>3, <1>4, TypesKept, HeapFacts DEF HeapInv, TypeOK, AllGens
<1> QED BY <1>3, <1>4, <1>5, LayoutKept, HeapFacts DEF HeapInv

\* What handle_segv has done to the generations once the copy has its place.
LEMMA CopyInPlaceType ==
    ASSUME HeapInv, NEW p \in AllPages, working \in AllGens, gens[root] # Null,
           Found(SlotBelow(working)), RoomFor(pages[p].pages)
    PROVE  LET slot == SlotBelow(working)
               placed == CopyInPlace(slot, p)
           IN  /\ slot.gens \in GensType /\ slot.lastGen \in Nodes
               /\ \A j \in AllGens : slot.gens[j] # Null
               /\ placed \in GensType
               /\ \A j \in Nodes : placed[j] = Null <=> slot.gens[j] = Null
<1> DEFINE slot == SlotBelow(working)
           moved == [q \in Frames |-> IF q = p THEN FreshPage ELSE q]
<1>1. FreshPage \in Frames
  BY HeapFacts, FreshPageIsFree DEF Page
<1>2. /\ slot.gens \in GensType /\ slot.lastGen \in Nodes
      /\ \A j \in AllGens : slot.gens[j] # Null
  BY HeapFacts, SlotBelowType DEF HeapInv, TypeOK
<1>3. moved \in [Frames -> Frames]
  BY <1>1
<1>4. CopyInPlace(slot, p) = Relink(slot.gens, moved)
  BY DEF CopyInPlace
<1> HIDE DEF moved, slot
<1>5. /\ Relink(slot.gens, moved) \in GensType
      /\ \A i \in Nodes : Relink(slot.gens, moved)[i] = Null <=> slot.gens[i] = Null
  BY <1>2, <1>3, RelinkType
<1> QED BY <1>2, <1>4, <1>5, Zenon DEF slot

\* Making the copy and changing the flag and the value of the page copied.
LEMMA PageCopied ==
    ASSUME HeapInv, gens[root] # Null, NEW p \in AllPages, RoomFor(pages[p].pages),
           NEW written \in Page, written.real = pages[p].real, written.pages = pages[p].pages,
           pages' = [pages EXCEPT ![FreshPage] = CopyOf(p), ![p] = written],
           lastPage' = FreshPage
    PROVE  /\ pages' \in PagesType /\ lastPage' \in AllPages'
           /\ PagesHaveHomes' /\ PagesAreDisjoint'
<1>1. pages[p] \in Page /\ p \in Frames /\ pages[p].pages \in Nat \ {0}
  BY HeapFacts DEF Page
<1>2. FreshPage \in Frames /\ FreshPage \notin AllPages
  BY <1>1, FreshPageIsFree
<1>3. /\ pages' \in PagesType /\ AllPages' = AllPages \cup {FreshPage} /\ SameLayout
      /\ pages'[FreshPage] = pages[p]
  BY <1>1, <1>2, HeapFacts DEF PagesType, AllPages, SameLayout, CopyOf
<1>4. PagesHaveHomes' /\ PagesAreDisjoint'
  BY <1>1, <1>3, LayoutExtended
<1> QED BY <1>3, <1>4

LEMMA TrappedWriteStep == ASSUME HeapInv, NEW f \in Frames, TrappedWrite(f) PROVE HeapInv'
<1> DEFINE p == FindPage(f)
           slot == SlotBelow(working)
           copied == [slot EXCEPT !.gens = CopyInPlace(slot, p)]
           written == [pages[p] EXCEPT !.committed = FALSE, !.val = lastGenIndex]
<1>1. /\ p \in AllPages /\ Found(slot) /\ RoomFor(pages[p].pages)
      /\ pages' = [pages EXCEPT ![FreshPage] = CopyOf(p), ![p] = written]
      /\ gens' = Attach(copied, PageRef(p))
      /\ lastGen' = slot.lastGen /\ lastPage' = FreshPage
      /\ proc' \in {"aborted", "up"}
      /\ UNCHANGED <<working, committed, lastGenIndex, target>>
  BY DEF TrappedWrite, Trappable, MergeMaps
<1>2. working \in AllGens \ {Null} /\ gens[root] # Null
  BY HeapFacts DEF TrappedWrite, Trappable, HeapInv, TypeOK, AllGens, Nodes
<1>3. /\ slot.gens \in GensType /\ slot.lastGen \in Nodes
      /\ \A j \in AllGens : slot.gens[j] # Null
      /\ CopyInPlace(slot, p) \in GensType
      /\ \A j \in Nodes : CopyInPlace(slot, p)[j] = Null <=> slot.gens[j] = Null
  BY <1>1, <1>2, CopyInPlaceType, Zenon
<1>4. copied.gens = CopyInPlace(slot, p) /\ copied.target = slot.target
      /\ copied.lastGen = slot.lastGen
  BY DEF SlotBelow
<1>5. PageRef(p) \in Ref
  BY <1>1, HeapFacts DEF PageRef, Ref
<1>6. gens' \in GensType /\ AllGens \subseteq AllGens'
  <2> HIDE DEF copied, p, slot
  <2>1. Found(copied)
    BY <1>1, <1>3, <1>4 DEF Found
  <2>2. /\ Attach(copied, PageRef(p)) \in GensType
        /\ \A i \in Nodes : Attach(copied, PageRef(p))[i] = Null <=> copied.gens[i] = Null
    BY <1>3, <1>4, <1>5, <2>1, AttachType
  <2> QED BY <1>1, <1>3, <1>4, <2>2 DEF AllGens
<1>7. /\ written \in Page /\ written.real = pages[p].real
      /\ written.pages = pages[p].pages
  <2> HIDE DEF p
  <2> QED BY <1>1, HeapFacts DEF Page, HeapInv, TypeOK
<1> HIDE DEF p, slot, copied, written
<1>8. /\ pages' \in PagesType /\ lastPage' \in AllPages'
      /\ PagesHaveHomes' /\ PagesAreDisjoint'
  BY <1>1, <1>2, <1>7, PageCopied
<1>9. TypeOK'
  BY <1>1, <1>2, <1>3, <1>6, <1>8, HeapFacts, TypesKept DEF HeapInv, TypeOK
<1> QED BY <1>8, <1>9 DEF HeapInv

\* Wherever in handle_segv the process dies.
LEMMA TrapDiesStep == ASSUME HeapInv, NEW f \in Frames, TrapDies(f) PROVE HeapInv'
<1> DEFINE p == FindPage(f)
           slot == SlotBelow(working)
<1>1. PICK done \in 1 .. 4 :
        /\ lastGen' = IF done = 1 THEN lastGen ELSE slot.lastGen
        /\ gens' = CASE done = 1 -> gens
                     [] done = 2 -> slot.gens
                     [] done > 2 -> CopyInPlace(slot, p)
        /\ pages' = [pages EXCEPT ![FreshPage] = CopyOf(p), ![p].committed = done < 4]
  BY Zenon DEF TrapDies
<1>2. /\ p \in AllPages /\ Found(slot) /\ RoomFor(pages[p].pages)
      /\ lastPage' = FreshPage /\ proc' = "down" /\ target' = Null
      /\ UNCHANGED <<working, committed, lastGenIndex>>
  BY DEF TrapDies, Trappable, Gone
<1>3. working \in AllGens \ {Null} /\ gens[root] # Null
  BY HeapFacts DEF TrapDies, Trappable, HeapInv, TypeOK, AllGens, Nodes
<1>4. /\ slot.gens \in GensType /\ slot.lastGen \in Nodes
      /\ \A j \in AllGens : slot.gens[j] # Null
      /\ CopyInPlace(slot, p) \in GensType
      /\ \A j \in Nodes : CopyInPlace(slot, p)[j] = Null <=> slot.gens[j] = Null
  BY <1>2, <1>3, CopyInPlaceType, Zenon
<1> HIDE DEF p, slot
<1>5. /\ gens' \in {gens, slot.gens, CopyInPlace(slot, p)}
      /\ lastGen' \in {lastGen, slot.lastGen}
  <2>1. done = 1 \/ done = 2 \/ done > 2
    OBVIOUS
  <2> QED BY <1>1, <2>1
<1>6. gens' \in GensType /\ AllGens \subseteq AllGens'
  BY <1>4, <1>5, HeapFacts DEF AllGens
<1> DEFINE flagged == [pages[p] EXCEPT !.committed = done < 4]
<1>7. /\ flagged \in Page /\ flagged.real = pages[p].real
      /\ flagged.pages = pages[p].pages
  <2>1. ASSUME NEW b \in BOOLEAN
        PROVE  LET q == [pages[p] EXCEPT !.committed = b]
               IN  q \in Page /\ q.real = pages[p].real /\ q.pages = pages[p].pages
    BY <1>2, HeapFacts DEF Page
  <2>2. (done < 4) \in BOOLEAN
    OBVIOUS
  <2> QED BY <2>1, <2>2, Zenon
<1>8. pages' = [pages EXCEPT ![FreshPage] = CopyOf(p), ![p] = flagged]
  <2>1. FreshPage # p
    BY <1>2, <1>3, HeapFacts, FreshPageIsFree DEF Page
  <2> QED BY <1>1, <1>2, <2>1, HeapFacts DEF PagesType
<1> HIDE DEF flagged
<1>9. /\ pages' \in PagesType /\ lastPage' \in AllPages'
      /\ PagesHaveHomes' /\ PagesAreDisjoint'
  BY <1>2, <1>3, <1>7, <1>8, PageCopied
<1>10. lastGen' \in Nodes /\ lastGenIndex' \in 0 .. MaxGen /\ committed' \in AllGens' \cup {Null}
  BY <1>2, <1>4, <1>5, <1>6 DEF HeapInv, TypeOK
<1>11. TypeOK'
  BY <1>2, <1>3, <1>6, <1>9, <1>10, TypesKept
<1> QED BY <1>9, <1>11 DEF HeapInv

LEMMA MallocFitsStep ==
    ASSUME HeapInv, NEW size \in Nat \ {0}, NEW p \in Frames, MallocFits(size, p)
    PROVE  HeapInv'
<1>1. /\ p \in AllPages /\ pages' = [pages EXCEPT ![p].used = @ + size]
      /\ UNCHANGED <<proc, gens, working, committed, lastGen, lastPage, lastGenIndex, target>>
  BY DEF MallocFits
<1>2. working \in AllGens \ {Null} /\ gens[root] # Null /\ lastPage \in AllPages
  BY HeapFacts DEF MallocFits, HeapInv, TypeOK, AllGens, Nodes
<1>3. [pages[p] EXCEPT !.used = @ + size] \in Page
  BY <1>1, HeapFacts DEF Page
<1>4. pages' \in PagesType /\ AllPages' = AllPages /\ SameLayout
  BY <1>1, <1>3, HeapFacts DEF PagesType, AllPages, SameLayout, Page
<1>5. TypeOK'
  BY <1>1, <1>2, <1>4, TypesKept, HeapFacts DEF HeapInv, TypeOK, AllGens
<1> QED BY <1>1, <1>2, <1>4, <1>5, LayoutKept DEF HeapInv

\* A new page at home.
LEMMA PageMade ==
    ASSUME HeapInv, gens[root] # Null, NEW new \in Page, new.real = FreshPage,
           RoomFor(new.pages), pages' = [pages EXCEPT ![FreshPage] = new],
           lastPage' = FreshPage
    PROVE  /\ pages' \in PagesType /\ lastPage' \in AllPages'
           /\ PagesHaveHomes' /\ PagesAreDisjoint'
<1>1. new # Null /\ new.pages \in Nat \ {0}
  BY DEF Page
<1>2. FreshPage \in Frames /\ FreshPage \notin AllPages
  BY <1>1, FreshPageIsFree
<1>3. /\ pages' \in PagesType /\ AllPages' = AllPages \cup {FreshPage} /\ SameLayout
      /\ pages'[FreshPage] = new
  BY <1>1, <1>2, HeapFacts DEF PagesType, AllPages, SameLayout
<1>4. PagesHaveHomes' /\ PagesAreDisjoint'
  BY <1>3, LayoutExtended
<1> QED BY <1>3, <1>4

\* The page snap_malloc makes for a request.
LEMMA GrownPage ==
    ASSUME HeapInv, gens[root] # Null, NEW size \in Nat \ {0}, NEW used \in Nat,
           RoomFor((size \div Units) + 1)
    PROVE  [real |-> FreshPage, committed |-> FALSE, pages |-> (size \div Units) + 1,
            used |-> used, val |-> 0] \in Page
<1> DEFINE n == (size \div Units) + 1
<1>1. n \in Nat \ {0}
  <2>1. size \div Units \in Nat
    BY Z3
  <2> QED BY <2>1
<1> HIDE DEF n
<1>2. FreshPage \in Frames
  BY <1>1, FreshPageIsFree DEF n
<1>3. [real |-> FreshPage, committed |-> FALSE, pages |-> n, used |-> used, val |-> 0] \in Page
  BY <1>1, <1>2 DEF Page
<1> QED BY <1>3 DEF n

LEMMA MallocGrowsStep ==
    ASSUME HeapInv, NEW size \in Nat \ {0}, NEW p \in Frames, MallocGrows(size, p)
    PROVE  HeapInv'
<1> DEFINE slot == SlotBelow(working)
           n    == (size \div Units) + 1
           new  == [real |-> FreshPage, committed |-> FALSE, pages |-> n,
                    used |-> size, val |-> 0]
<1>1. /\ Found(slot) /\ p = FreshPage /\ RoomFor(n)
      /\ pages' = [pages EXCEPT ![FreshPage] = new]
      /\ gens' = Attach(slot, PageRef(p))
      /\ lastGen' = slot.lastGen /\ lastPage' = FreshPage
      /\ UNCHANGED <<proc, working, committed, lastGenIndex, target>>
  BY DEF MallocGrows
<1>2. working \in AllGens \ {Null} /\ gens[root] # Null
  BY HeapFacts DEF MallocGrows, HeapInv, TypeOK, AllGens, Nodes
<1>3. /\ slot.gens \in GensType /\ slot.lastGen \in Nodes
      /\ \A j \in AllGens : slot.gens[j] # Null
  BY <1>1, <1>2, HeapFacts, SlotBelowType DEF HeapInv, TypeOK
<1>4. gens' \in GensType /\ AllGens \subseteq AllGens'
  <2> HIDE DEF slot
  <2>1. PageRef(p) \in Ref
    BY DEF PageRef, Ref
  <2>2. /\ Attach(slot, PageRef(p)) \in GensType
        /\ \A i \in Nodes : Attach(slot, PageRef(p))[i] = Null <=> slot.gens[i] = Null
    BY <1>1, <1>3, <2>1, AttachType
  <2> QED BY <1>1, <1>3, <2>2 DEF AllGens
<1>5. new \in Page
  BY <1>1, <1>2, GrownPage
<1>6. new.real = FreshPage /\ new.pages = n
  OBVIOUS
<1> HIDE DEF slot, n, new
<1>7. /\ pages' \in PagesType /\ lastPage' \in AllPages'
      /\ PagesHaveHomes' /\ PagesAreDisjoint'
  BY <1>1, <1>2, <1>5, <1>6, PageMade
<1>8. TypeOK'
  BY <1>1, <1>2, <1>3, <1>4, <1>7, HeapFacts, TypesKept DEF HeapInv, TypeOK
<1> QED BY <1>7, <1>8 DEF HeapInv

LEMMA MallocDiesStep ==
    ASSUME HeapInv, NEW size \in Nat \ {0}, MallocDies(size)
    PROVE  HeapInv'
<1> DEFINE slot == SlotBelow(working)
           n    == (size \div Units) + 1
           new  == [real |-> FreshPage, committed |-> FALSE, pages |-> n,
                    used |-> 0, val |-> 0]
<1>1. /\ Found(slot) /\ RoomFor(n)
      /\ pages' = [pages EXCEPT ![FreshPage] = new]
      /\ gens' = slot.gens
      /\ lastGen' = slot.lastGen /\ lastPage' = FreshPage
      /\ proc' = "down" /\ target' = Null
      /\ UNCHANGED <<working, committed, lastGenIndex>>
  BY DEF MallocDies, Gone
<1>2. working \in AllGens \ {Null} /\ gens[root] # Null
  BY HeapFacts DEF MallocDies, HeapInv, TypeOK, AllGens, Nodes
<1>3. /\ slot.gens \in GensType /\ slot.lastGen \in Nodes
      /\ \A j \in AllGens : slot.gens[j] # Null
  BY <1>1, <1>2, HeapFacts, SlotBelowType DEF HeapInv, TypeOK
<1>4. gens' \in GensType /\ AllGens \subseteq AllGens'
  BY <1>1, <1>3 DEF AllGens
<1>5. new \in Page
  BY <1>1, <1>2, GrownPage
<1>6. new.real = FreshPage /\ new.pages = n
  OBVIOUS
<1> HIDE DEF slot, n, new
<1>7. /\ pages' \in PagesType /\ lastPage' \in AllPages'
      /\ PagesHaveHomes' /\ PagesAreDisjoint'
  BY <1>1, <1>2, <1>5, <1>6, PageMade
<1>8. TypeOK'
  BY <1>1, <1>2, <1>3, <1>4, <1>7, HeapFacts, TypesKept DEF HeapInv, TypeOK
<1> QED BY <1>7, <1>8 DEF HeapInv

\* snap_commit only sets flags, whether it gets to the end or not.
LEMMA FlagsStep ==
    ASSUME HeapInv, FlagCommitted, working # Null, UNCHANGED <<working, lastGen, lastPage, lastGenIndex>>,
           committed' \in {working, committed}, target' \in {target, Null},
           proc' \in {"down", "up", "aborted"}
    PROVE  HeapInv'
<1> DEFINE gs == AllGens \cap ToSet(GensIn(gens, working))
           ps == AllPages \cap ToSet(PagesIn(gens, working, MaxGen))
<1>1. /\ gens' = [i \in Nodes |-> IF i \in gs THEN [gens[i] EXCEPT !.committed = TRUE]
                                               ELSE gens[i]]
      /\ pages' = [f \in Frames |-> IF f \in ps THEN [pages[f] EXCEPT !.committed = TRUE]
                                                 ELSE pages[f]]
  BY DEF FlagCommitted
<1>2. gs \subseteq AllGens /\ ps \subseteq AllPages
  OBVIOUS
<1> HIDE DEF gs, ps
<1>3. \A i \in gs : [gens[i] EXCEPT !.committed = TRUE] \in Generation
  BY <1>2, HeapFacts DEF Generation
<1>4. \A f \in ps : /\ [pages[f] EXCEPT !.committed = TRUE] \in Page
                    /\ [pages[f] EXCEPT !.committed = TRUE].real = pages[f].real
                    /\ [pages[f] EXCEPT !.committed = TRUE].pages = pages[f].pages
  BY <1>2, HeapFacts DEF Page
<1>5. gens' \in GensType /\ AllGens \subseteq AllGens'
  BY <1>1, <1>2, <1>3, HeapFacts DEF GensType, AllGens
<1>6. pages' \in PagesType /\ AllPages' = AllPages /\ SameLayout
  BY <1>1, <1>2, <1>4, HeapFacts DEF PagesType, AllPages, SameLayout
<1>7. TypeOK'
  BY <1>5, <1>6, TypesKept, HeapFacts DEF HeapInv, TypeOK
<1> QED BY <1>6, <1>7, LayoutKept, HeapFacts DEF HeapInv

LEMMA CheckoutSwapStep == HeapInv /\ CheckoutSwap => HeapInv'
<1> SUFFICES ASSUME HeapInv, CheckoutSwap PROVE HeapInv'
  OBVIOUS
<1> DEFINE p == NextToMove
           home == pages[p].real
           moved == Exchanged(p, home)
<1>b. /\ target # Null /\ p \in AllPages
      /\ gens' = Relink(gens, moved)
      /\ pages' = [pages EXCEPT ![p] = pages[home], ![home] = pages[p]]
      /\ proc' \in {"aborted", "up"}
      /\ UNCHANGED <<working, committed, lastGen, lastPage, lastGenIndex, target>>
  BY DEF CheckoutSwap, MergeMaps
<1> HIDE DEF p
<1>1. /\ p \in Frames /\ home \in Frames /\ home \in AllPages
      /\ pages[p].real = home /\ pages[home].real = home
      /\ pages[home].pages = pages[p].pages
      /\ pages[p] \in Page /\ pages[home] \in Page
  BY <1>b, HeapFacts DEF HeapInv, PagesHaveHomes, AllPages
<1>2. /\ gens' \in GensType
      /\ \A i \in Nodes : gens'[i] = Null <=> gens[i] = Null
  <2>1. moved \in [Frames -> Frames]
    BY <1>1 DEF Exchanged
  <2> HIDE DEF moved
  <2> QED BY <1>b, <2>1, HeapFacts, RelinkType
<1> HIDE DEF moved
<1>3. pages' \in PagesType /\ AllPages' = AllPages
  BY <1>1, <1>b, HeapFacts DEF PagesType, AllPages
<1>4. \A f \in AllPages : /\ f # p /\ f # home => pages'[f] = pages[f]
                          /\ f = p => pages'[f] = pages[home]
                          /\ f = home => pages'[f] = pages[p]
  BY <1>1, <1>b, HeapFacts DEF PagesType
<1>5. \A f \in AllPages : pages'[f].pages = pages[f].pages
  BY <1>1, <1>4
<1>6. PagesHaveHomes'
  <2> SUFFICES ASSUME NEW f \in AllPages
               PROVE  LET h == pages'[f].real
                      IN  /\ h \in AllPages /\ pages'[h].real = h
                          /\ pages'[h].pages = pages'[f].pages
    BY <1>3 DEF PagesHaveHomes
  <2> HIDE DEF home
  <2>1. CASE f = p \/ f = home
    BY <1>1, <1>4, <1>5, <2>1 DEF HeapInv, PagesHaveHomes
  <2>2. CASE f # p /\ f # home
    <3> DEFINE h == pages[f].real
    <3>1. h \in AllPages /\ pages[h].real = h /\ pages[h].pages = pages[f].pages
      BY DEF HeapInv, PagesHaveHomes
    <3>2. h = p => p = home
      BY <1>1, <3>1 DEF home
    <3>3. pages'[h].real = h
      BY <1>1, <1>4, <3>1, <3>2
    <3> QED BY <1>4, <1>5, <2>2, <3>1, <3>3
  <2> QED BY <2>1, <2>2
<1>7. gens[root] # Null /\ lastPage \in AllPages /\ working \in AllGens \ {Null}
  BY <1>b DEF HeapInv, TypeOK
<1>8. PagesAreDisjoint'
  BY <1>3, <1>5, <1>7, <1>b DEF HeapInv, PagesAreDisjoint
<1>9. TypeOK'
  BY <1>2, <1>3, <1>7, <1>b, TypesKept, HeapFacts DEF HeapInv, TypeOK, AllGens
<1> QED BY <1>6, <1>8, <1>9 DEF HeapInv

-----------------------------------------------------------------------------
LEMMA NextStep == HeapInv /\ [Next]_heapVars => HeapInv'
<1> SUFFICES ASSUME HeapInv, [Next]_heapVars PROVE HeapInv'
  OBVIOUS
<1>1. CASE SnapInit
  <2>1. CASE CreateDb
    BY <2>1, NewDbStep DEF CreateDb
  <2>2. CASE OpenDb
    BY <2>2, NodesKept DEF OpenDb, HeapInv, TypeOK
  <2> QED BY <1>1, <2>1, <2>2 DEF SnapInit
<1>2. CASE BeginMut
  BY <1>2, BeginMutStep
<1>3. ASSUME NEW f \in Frames, Write(f) PROVE HeapInv'
  <2>1. CASE TrapFails(f)
    BY <2>1, NodesKept DEF TrapFails, fileVars, HeapInv, TypeOK
  <2> QED BY <1>3, <2>1, PlainWriteStep, TrappedWriteStep DEF Write
<1>4. ASSUME NEW size \in Nat \ {0}, NEW p \in Frames, Malloc(size, p) PROVE HeapInv'
  BY <1>4, MallocFitsStep, MallocGrowsStep DEF Malloc
<1>5. CASE Commit
  BY <1>5, FlagsStep DEF Commit, HeapInv, TypeOK
<1>6. ASSUME NEW g \in 0 .. MaxGen, CheckoutStart(g) PROVE HeapInv'
  BY <1>6, NodesKept DEF CheckoutStart, fileVars, HeapInv, TypeOK
<1>7. CASE CheckoutSwap
  BY <1>7, CheckoutSwapStep
<1>8. CASE CheckoutEnd
  BY <1>8, NodesKept DEF CheckoutEnd, HeapInv, TypeOK
<1>9. CASE CheckoutFails
  BY <1>9, NodesKept DEF CheckoutFails, fileVars, HeapInv, TypeOK
<1>10. CASE Exit
  BY <1>10, NodesKept DEF Exit, Gone, fileVars, HeapInv, TypeOK
<1>11. CASE MallocAborts \/ NullDeref
  BY <1>11, NodesKept DEF MallocAborts, NullDeref, fileVars, HeapInv, TypeOK
<1>12. ASSUME NEW f \in Frames, TrapDies(f) PROVE HeapInv'
  BY <1>12, TrapDiesStep
<1>13. ASSUME NEW size \in Nat \ {0}, MallocDies(size) PROVE HeapInv'
  BY <1>13, MallocDiesStep
<1>14. CASE BeginDies
  BY <1>14, BeginDiesStep
<1>15. CASE CommitDies
  BY <1>15, FlagsStep DEF CommitDies, Gone
<1>16. CASE Peek
  BY <1>16, NodesKept DEF Peek, HeapInv, TypeOK
<1>17. CASE PeekFirst
  BY <1>17, NewDbStep DEF PeekFirst, HeapInv, TypeOK
<1>18. CASE UNCHANGED heapVars
  BY <1>18, NodesKept DEF heapVars, fileVars, HeapInv, TypeOK
<1>19. ASSUME NEW g \in 0 .. MaxGen, CheckoutSame(g) PROVE HeapInv'
  BY <1>18, <1>19 DEF CheckoutSame
<1> QED BY <1>1, <1>2, <1>3, <1>4, <1>5, <1>6, <1>7, <1>8, <1>9, <1>10, <1>11, <1>12,
           <1>13, <1>14, <1>15, <1>16, <1>17, <1>18, <1>19 DEF Next

\* HeapInv is an invariant of the heap, whatever program uses it and wherever
\* its process is stopped.
THEOREM HeapInvariant == Spec => []HeapInv
<1> QED BY InitHeapInv, NextStep, PTL DEF Spec

\* The file's nodes are well formed and no pointer dangles.
THEOREM TypeCorrect == Spec => []TypeOK
<1>1. HeapInv => TypeOK
  BY DEF HeapInv
<1> QED BY <1>1, HeapInvariant, PTL

\* Wherever a page is, there is a page of its size to exchange it with at its
\* real address: page_swap's asserts hold of every pair a checkout exchanges.
THEOREM PagesAlwaysHaveHomes == Spec => []PagesHaveHomes
<1>1. HeapInv => PagesHaveHomes
  BY DEF HeapInv
<1> QED BY <1>1, HeapInvariant, PTL

\* Pages never overlap, however many traps, checkouts and restarts there are.
THEOREM PagesNeverOverlap == Spec => []PagesAreDisjoint
<1>1. HeapInv => PagesAreDisjoint
  BY DEF HeapInv
<1> QED BY <1>1, HeapInvariant, PTL

-----------------------------------------------------------------------------
(***************************************************************************)
(* The order of the generations                                            *)
(***************************************************************************)

\* Nodes are made in the order of their numbers and ids are handed out upwards;
\* what a slot points to was made, and is not older than what holds the slot.
InOrder(gs, last, index) ==
    \A i \in Nodes : gs[i] # Null =>
        /\ i <= last /\ gs[i].gen <= index
        /\ \A k \in DOMAIN gs[i].c :
              LET ref == gs[i].c[k]
              IN  ref.type = "generation" =>
                     /\ ref.at \in Nodes /\ gs[ref.at] # Null
                     /\ gs[i].gen <= gs[ref.at].gen

GensInOrder == InOrder(gens, lastGen, lastGenIndex)

\* A node that goes between a generation and its children has the generation's
\* own id.
LEMMA SlotBelowOrder ==
    ASSUME gens \in GensType, lastGen \in Nodes, GensInOrder,
           NEW i \in AllGens, Found(SlotBelow(i))
    PROVE  /\ InOrder(SlotBelow(i).gens, SlotBelow(i).lastGen, lastGenIndex)
           /\ SlotBelow(i).gens \in GensType /\ SlotBelow(i).lastGen \in Nodes
<1> DEFINE split == NewGenBetween(gens, i, lastGen + 1)
<1>1. CASE FirstFreeSlot(gens, i) # Null
  BY <1>1 DEF SlotBelow, GensInOrder
<1>2. CASE FirstFreeSlot(gens, i) = Null
  <2>1. SlotBelow(i).gens = split /\ SlotBelow(i).lastGen = lastGen + 1
    BY <1>2 DEF SlotBelow
  <2>2. lastGen + 1 \in Nodes /\ split \in GensType
    BY <2>1, SlotBelowType DEF Found
  <2> DEFINE n == lastGen + 1
             g == [gens[i] EXCEPT !.c = <<GenRef(n)>>]
  <2>3. i \in Nodes /\ gens[i] \in Generation /\ i # n /\ n # 0 /\ n \in Nodes
    BY <2>2 DEF AllGens, GensType, GensInOrder, InOrder, Nodes
  <2>4. split = [gens EXCEPT ![n] = gens[i], ![i] = g]
    BY <2>3 DEF NewGenBetween, GensType
  <2>5. g.gen = gens[i].gen /\ g.c = <<GenRef(n)>> /\ g # Null
    <3>1. <<GenRef(n)>> \in Seq(Ref)
      BY <2>3 DEF Ref, GenRef
    <3>2. g \in Generation
      BY <2>3, <3>1 DEF Generation
    <3> QED BY <2>3, <3>2 DEF Generation
  <2> HIDE DEF g, split
  <2>6. /\ split[n] = gens[i] /\ split[i] = g
        /\ \A j \in Nodes : j # n /\ j # i => split[j] = gens[j]
    BY <2>3, <2>4 DEF GensType
  <2>7. gens[i] # Null /\ gens[n] = Null
    BY <2>3 DEF AllGens, GensInOrder, InOrder, Nodes
  <2>8. \A j \in Nodes : gens[j] # Null => split[j] # Null /\ split[j].gen = gens[j].gen
    BY <2>3, <2>5, <2>6, <2>7
  <2>9. ASSUME NEW j \in Nodes, split[j] # Null
        PROVE  /\ j <= n /\ split[j].gen <= lastGenIndex
               /\ \A k \in DOMAIN split[j].c :
                     LET ref == split[j].c[k]
                     IN  ref.type = "generation" =>
                            /\ ref.at \in Nodes /\ split[ref.at] # Null
                            /\ split[j].gen <= split[ref.at].gen
    <3>1. CASE j = i
      <4>1. split[j].c = <<GenRef(n)>> /\ split[j].gen = gens[i].gen /\ split[n].gen = gens[i].gen
        BY <2>5, <2>6, <3>1
      <4>2. DOMAIN split[j].c = {1} /\ split[j].c[1].at = n
        BY <4>1 DEF GenRef
      <4>3. split[n] # Null /\ gens[i].gen \in Int
        BY <2>3, <2>6, <2>7 DEF Generation
      <4>4. j <= n /\ split[j].gen <= lastGenIndex
        BY <2>3, <2>7, <3>1, <4>1 DEF GensInOrder, InOrder, Nodes
      <4> QED BY <2>3, <4>1, <4>2, <4>3, <4>4
    <3>2. CASE j = n
      <4>1. split[j] = gens[i]
        BY <2>6, <3>2
      <4>2. n <= n /\ gens[i].gen <= lastGenIndex
        BY <2>3, <2>7 DEF GensInOrder, InOrder, Nodes
      <4>3. \A k \in DOMAIN gens[i].c : LET ref == gens[i].c[k]
                                        IN  ref.type = "generation" =>
                                              /\ ref.at \in Nodes /\ gens[ref.at] # Null
                                              /\ gens[i].gen <= gens[ref.at].gen
        BY <2>3, <2>7 DEF GensInOrder, InOrder
      <4> QED BY <2>8, <3>2, <4>1, <4>2, <4>3
    <3>3. CASE j # i /\ j # n
      <4>1. split[j] = gens[j] /\ gens[j] # Null
        BY <2>6, <2>9, <3>3
      <4>2. j <= n
        BY <4>1 DEF GensInOrder, InOrder, Nodes
      <4> QED BY <2>8, <4>1, <4>2 DEF GensInOrder, InOrder
    <3> QED BY <3>1, <3>2, <3>3
  <2>10. InOrder(split, n, lastGenIndex)
    BY <2>9 DEF InOrder
  <2> QED BY <2>1, <2>2, <2>10
<1> QED BY <1>1, <1>2

\* A node that is hung in a slot, a page or a generation that was made and is
\* not older than what gets it.
LEMMA AttachOrder ==
    ASSUME NEW slot, slot.gens \in GensType, Found(slot), NEW last, NEW index,
           InOrder(slot.gens, last, index), NEW ref \in Ref,
           ref.type = "generation" => /\ slot.gens[ref.at] # Null
                                      /\ slot.gens[slot.target].gen <= slot.gens[ref.at].gen
    PROVE  InOrder(Attach(slot, ref), last, index)
<1> DEFINE t == slot.target
           old == slot.gens
           new == Attach(slot, ref)
<1>1. t \in Nodes /\ old[t] # Null /\ old[t] \in Generation /\ old[t].c \in Seq(Ref)
  BY DEF Found, GensType, Generation
<1>2. new = [old EXCEPT ![t].c = Append(@, ref)]
  BY DEF Attach
<1> HIDE DEF t, old, new
<1>3. new[t] = [old[t] EXCEPT !.c = Append(@, ref)] /\ \A j \in Nodes \ {t} : new[j] = old[j]
  BY <1>1, <1>2 DEF GensType, old
<1>4. /\ new[t].gen = old[t].gen /\ new[t].c = Append(old[t].c, ref)
      /\ new[t] # Null
  <2>1. Append(old[t].c, ref) \in Seq(Ref)
    BY <1>1
  <2>2. new[t] \in Generation
    BY <1>1, <1>3, <2>1 DEF Generation
  <2> QED BY <1>1, <1>3, <2>2 DEF Generation
<1>5. \A j \in Nodes : old[j] # Null => new[j] # Null /\ new[j].gen = old[j].gen
  BY <1>3, <1>4
<1>6. ref.at \in Nodes \/ ref.type # "generation"
  BY DEF Ref
<1>7. InOrder(old, last, index) /\ (ref.type = "generation" =>
           old[ref.at] # Null /\ old[t].gen <= old[ref.at].gen)
  BY DEF old, t
<1>8. ASSUME NEW j \in Nodes, new[j] # Null
      PROVE  /\ j <= last /\ new[j].gen <= index
             /\ \A k \in DOMAIN new[j].c :
                   LET r == new[j].c[k]
                   IN  r.type = "generation" =>
                          /\ r.at \in Nodes /\ new[r.at] # Null
                          /\ new[j].gen <= new[r.at].gen
  <2>1. CASE j # t
    BY <1>3, <1>5, <1>7, <1>8, <2>1 DEF InOrder
  <2>2. CASE j = t
    <3>1. ASSUME NEW k \in DOMAIN new[j].c
          PROVE  \/ k \in DOMAIN old[t].c /\ new[j].c[k] = old[t].c[k]
                 \/ new[j].c[k] = ref
      <4>1. new[j].c = Append(old[t].c, ref)
        BY <1>4, <2>2
      <4>2. /\ DOMAIN old[t].c = 1 .. Len(old[t].c) /\ Len(old[t].c) \in Nat
            /\ DOMAIN new[j].c = 1 .. Len(old[t].c) + 1
            /\ new[j].c[Len(old[t].c) + 1] = ref
            /\ \A m \in 1 .. Len(old[t].c) : new[j].c[m] = old[t].c[m]
        BY <1>1, <4>1, AppendProperties, LenProperties
      <4> QED BY <4>2
    <3>2. j <= last /\ new[j].gen <= index /\ new[j].gen = old[t].gen
      BY <1>1, <1>4, <1>7, <2>2 DEF InOrder
    <3>3. ASSUME NEW k \in DOMAIN new[j].c, new[j].c[k].type = "generation"
          PROVE  /\ new[j].c[k].at \in Nodes /\ old[new[j].c[k].at] # Null
                 /\ old[t].gen <= old[new[j].c[k].at].gen
      <4>1. CASE k \in DOMAIN old[t].c /\ new[j].c[k] = old[t].c[k]
        BY <1>1, <1>7, <3>3, <4>1 DEF InOrder
      <4>2. CASE new[j].c[k] = ref
        BY <1>6, <1>7, <3>3, <4>2
      <4> QED BY <3>1, <4>1, <4>2
    <3> QED BY <1>5, <3>2, <3>3
  <2> QED BY <2>1, <2>2
<1> QED BY <1>8 DEF InOrder, new

\* Relinking pages changes no reference to a generation.
LEMMA RelinkOrder ==
    ASSUME NEW gs \in GensType, NEW moved \in [Frames -> Frames], NEW last, NEW index,
           InOrder(gs, last, index)
    PROVE  InOrder(Relink(gs, moved), last, index)
<1> DEFINE new == Relink(gs, moved)
<1>1. ASSUME NEW i \in Nodes, gs[i] # Null
      PROVE  /\ new[i] # Null /\ new[i].gen = gs[i].gen /\ DOMAIN new[i].c = DOMAIN gs[i].c
             /\ \A k \in DOMAIN gs[i].c :
                   new[i].c[k].type = "generation" => new[i].c[k] = gs[i].c[k]
  <2>1. gs[i] \in Generation /\ new[i] # Null
    BY <1>1, RelinkType DEF GensType
  <2> DEFINE one == [k \in DOMAIN gs[i].c |->
                IF gs[i].c[k].type = "page" THEN PageRef(moved[gs[i].c[k].at])
                                            ELSE gs[i].c[k]]
  <2>2. new[i] = [gs[i] EXCEPT !.c = one]
    BY <1>1 DEF Relink
  <2>3. /\ DOMAIN one = DOMAIN gs[i].c
        /\ \A k \in DOMAIN gs[i].c : one[k].type = "generation" => one[k] = gs[i].c[k]
    BY DEF PageRef
  <2> HIDE DEF one, new
  <2>4. new[i].gen = gs[i].gen /\ new[i].c = one
    BY <2>1, <2>2 DEF Generation
  <2> QED BY <2>1, <2>3, <2>4
<1>2. \A i \in Nodes : new[i] # Null => gs[i] # Null
  BY RelinkType
<1> HIDE DEF new
<1> QED BY <1>1, <1>2 DEF InOrder, new

\* The new generation is the newest and has a node of its own.
LEMMA BeginOrder ==
    ASSUME HeapInv, GensInOrder, committed \in AllGens, lastGenIndex < MaxGen,
           Found(SlotBelow(committed)), SlotBelow(committed).lastGen + 1 \in Nodes
    PROVE  LET slot == SlotBelow(committed)
               next == slot.lastGen + 1
               made == [slot.gens EXCEPT ![next] = NewGen(lastGenIndex + 1)]
           IN  /\ InOrder(made, next, lastGenIndex + 1)
               /\ \A j \in Nodes : slot.gens[j] # Null =>
                      made[j] # Null /\ made[j].gen <= made[next].gen
               /\ made[next] # Null
<1> DEFINE slot == SlotBelow(committed)
           next == slot.lastGen + 1
           new  == NewGen(lastGenIndex + 1)
           made == [slot.gens EXCEPT ![next] = new]
<1>1. /\ InOrder(slot.gens, slot.lastGen, lastGenIndex)
      /\ slot.gens \in GensType /\ slot.lastGen \in Nodes
  BY HeapFacts, SlotBelowOrder DEF HeapInv, TypeOK
<1>2. made \in GensType /\ made[next] # Null
  BY NewGenType, Zenon
<1>3. next \in Nodes /\ lastGenIndex \in Nat
  BY DEF HeapInv, TypeOK
<1>4. new.gen = lastGenIndex + 1 /\ new.c = <<>>
  BY DEF NewGen
<1> HIDE DEF slot, new
<1>5. made[next] = new /\ \A j \in Nodes \ {next} : made[j] = slot.gens[j]
  BY <1>1, <1>3 DEF GensType
<1>6. next \in Nat /\ slot.lastGen \in Nat /\ slot.lastGen < next
  BY <1>1, <1>3 DEF Nodes
<1>7. slot.gens[next] = Null
  BY <1>1, <1>3, <1>6 DEF InOrder
<1>8. ASSUME NEW j \in Nodes, slot.gens[j] # Null
      PROVE  /\ made[j] = slot.gens[j] /\ made[j].gen \in Nat
             /\ made[j].gen <= lastGenIndex /\ j <= next
  <2>1. j # next /\ slot.gens[j] \in Generation /\ j \in Nat
    BY <1>1, <1>7, <1>8 DEF GensType, Nodes
  <2>2. made[j] = slot.gens[j] /\ j <= slot.lastGen /\ made[j].gen <= lastGenIndex
    BY <1>1, <1>5, <1>8, <2>1 DEF InOrder
  <2> QED BY <1>6, <2>1, <2>2 DEF Generation
<1> HIDE DEF made, next
<1>9. InOrder(made, next, lastGenIndex + 1)
  <2> SUFFICES ASSUME NEW j \in Nodes, made[j] # Null
               PROVE  /\ j <= next /\ made[j].gen <= lastGenIndex + 1
                      /\ \A k \in DOMAIN made[j].c :
                            LET ref == made[j].c[k]
                            IN  ref.type = "generation" =>
                                   /\ ref.at \in Nodes /\ made[ref.at] # Null
                                   /\ made[j].gen <= made[ref.at].gen
    BY DEF InOrder
  <2>1. CASE j = next
    BY <1>3, <1>4, <1>5, <1>6, <2>1
  <2>2. CASE j # next
    <3>1. slot.gens[j] # Null
      BY <1>5, <2>2
    <3>2. j <= next /\ made[j].gen <= lastGenIndex + 1 /\ made[j] = slot.gens[j]
      BY <1>3, <1>8, <3>1
    <3>3. \A k \in DOMAIN slot.gens[j].c :
             LET ref == slot.gens[j].c[k]
             IN  ref.type = "generation" =>
                    /\ ref.at \in Nodes /\ slot.gens[ref.at] # Null
                    /\ slot.gens[j].gen <= slot.gens[ref.at].gen
      BY <1>1, <3>1 DEF InOrder
    <3> QED BY <1>8, <3>2, <3>3
  <2> QED BY <2>1, <2>2
<1>10. \A j \in Nodes : slot.gens[j] # Null => made[j] # Null /\ made[j].gen <= made[next].gen
  <2>1. \A j \in Nodes : slot.gens[j] # Null => made[j].gen <= lastGenIndex + 1
    BY <1>3, <1>8
  <2> QED BY <1>4, <1>5, <1>8, <2>1
<1> QED BY <1>2, <1>9, <1>10 DEF made, next, slot, new

LEMMA BeginMutOrder == HeapInv /\ GensInOrder /\ BeginMut => GensInOrder'
<1> SUFFICES ASSUME HeapInv, GensInOrder, BeginMut PROVE GensInOrder'
  OBVIOUS
<1> DEFINE slot == SlotBelow(committed)
           next == slot.lastGen + 1
           made == [slot.gens EXCEPT ![next] = NewGen(lastGenIndex + 1)]
           with == [slot EXCEPT !.gens[next] = NewGen(lastGenIndex + 1)]
<1>1. /\ Found(slot) /\ next \in Nodes /\ committed \in AllGens /\ lastGenIndex < MaxGen
  BY DEF HeapInv, TypeOK, BeginMut
<1>2. /\ made \in GensType
      /\ \A j \in Nodes : slot.gens[j] # Null => made[j] # Null
  BY <1>1, NewGenType, Zenon
<1>3. with.gens = made /\ with.target = slot.target /\ with.lastGen = slot.lastGen
  BY DEF SlotBelow
<1>4. /\ InOrder(made, next, lastGenIndex + 1)
      /\ \A j \in Nodes : slot.gens[j] # Null => made[j] # Null /\ made[j].gen <= made[next].gen
      /\ made[next] # Null
  BY <1>1, BeginOrder, Zenon
<1>5. gens' = Attach(with, GenRef(next)) /\ lastGen' = next /\ lastGenIndex' = lastGenIndex + 1
  BY DEF BeginMut
<1> HIDE DEF slot, next, made, with
<1>6. Found(with) /\ with.gens[with.target].gen <= made[next].gen
  BY <1>1, <1>2, <1>3, <1>4 DEF Found, next
<1>7. GenRef(next) \in Ref /\ GenRef(next).at = next /\ GenRef(next).type = "generation"
  BY <1>1 DEF GenRef, Ref
<1>8. InOrder(Attach(with, GenRef(next)), next, lastGenIndex + 1)
  BY <1>2, <1>3, <1>4, <1>6, <1>7, AttachOrder
<1> QED BY <1>5, <1>8 DEF GensInOrder

LEMMA BeginDiesOrder == HeapInv /\ GensInOrder /\ BeginDies => GensInOrder'
<1> SUFFICES ASSUME HeapInv, GensInOrder, BeginDies PROVE GensInOrder'
  OBVIOUS
<1>1. /\ Found(SlotBelow(committed)) /\ SlotBelow(committed).lastGen + 1 \in Nodes
      /\ committed \in AllGens /\ lastGenIndex < MaxGen
  BY DEF HeapInv, TypeOK, BeginDies
<1> QED BY <1>1, BeginOrder DEF BeginDies, GensInOrder

\* A copy that has the place of its page.
LEMMA CopyInPlaceOrder ==
    ASSUME HeapInv, GensInOrder, NEW p \in AllPages, working \in AllGens, gens[root] # Null,
           Found(SlotBelow(working)), RoomFor(pages[p].pages)
    PROVE  LET slot == SlotBelow(working)
               placed == CopyInPlace(slot, p)
           IN  /\ InOrder(slot.gens, slot.lastGen, lastGenIndex)
               /\ InOrder(placed, slot.lastGen, lastGenIndex)
<1> DEFINE slot == SlotBelow(working)
           moved == [q \in Frames |-> IF q = p THEN FreshPage ELSE q]
<1>1. FreshPage \in Frames
  BY HeapFacts, FreshPageIsFree DEF Page
<1>2. slot.gens \in GensType /\ InOrder(slot.gens, slot.lastGen, lastGenIndex)
  BY HeapFacts, SlotBelowOrder DEF HeapInv, TypeOK
<1>3. moved \in [Frames -> Frames]
  BY <1>1
<1>4. CopyInPlace(slot, p) = Relink(slot.gens, moved)
  BY DEF CopyInPlace
<1> HIDE DEF moved, slot
<1>5. InOrder(Relink(slot.gens, moved), slot.lastGen, lastGenIndex)
  BY <1>2, <1>3, RelinkOrder
<1> QED BY <1>2, <1>4, <1>5 DEF slot

LEMMA TrappedWriteOrder ==
    ASSUME HeapInv, GensInOrder, NEW f \in Frames, TrappedWrite(f) PROVE GensInOrder'
<1> DEFINE p == FindPage(f)
           slot == SlotBelow(working)
           copied == [slot EXCEPT !.gens = CopyInPlace(slot, p)]
<1>1. /\ p \in AllPages /\ Found(slot) /\ RoomFor(pages[p].pages)
      /\ gens' = Attach(copied, PageRef(p))
      /\ lastGen' = slot.lastGen /\ lastGenIndex' = lastGenIndex
  BY DEF TrappedWrite, Trappable
<1>2. working \in AllGens \ {Null} /\ gens[root] # Null
  BY HeapFacts DEF TrappedWrite, Trappable, HeapInv, TypeOK, AllGens, Nodes
<1>3. /\ CopyInPlace(slot, p) \in GensType
      /\ \A j \in Nodes : CopyInPlace(slot, p)[j] = Null <=> slot.gens[j] = Null
  BY <1>1, <1>2, CopyInPlaceType, Zenon
<1>4. InOrder(CopyInPlace(slot, p), slot.lastGen, lastGenIndex)
  BY <1>1, <1>2, CopyInPlaceOrder, Zenon
<1>5. copied.gens = CopyInPlace(slot, p) /\ copied.target = slot.target
  BY DEF SlotBelow
<1>6. PageRef(p) \in Ref /\ PageRef(p).type # "generation"
  BY <1>1, HeapFacts DEF PageRef, Ref
<1> HIDE DEF copied, p, slot
<1>7. Found(copied)
  <2>1. copied.lastGen = slot.lastGen
    BY DEF copied, slot, SlotBelow
  <2> QED BY <1>1, <1>3, <1>5, <2>1 DEF Found
<1> QED BY <1>1, <1>3, <1>4, <1>5, <1>6, <1>7, AttachOrder DEF GensInOrder

LEMMA TrapDiesOrder ==
    ASSUME HeapInv, GensInOrder, NEW f \in Frames, TrapDies(f) PROVE GensInOrder'
<1> DEFINE p == FindPage(f)
           slot == SlotBelow(working)
<1>1. PICK done \in 1 .. 4 :
        /\ lastGen' = IF done = 1 THEN lastGen ELSE slot.lastGen
        /\ gens' = CASE done = 1 -> gens
                     [] done = 2 -> slot.gens
                     [] done > 2 -> CopyInPlace(slot, p)
  BY Zenon DEF TrapDies
<1>2. /\ p \in AllPages /\ Found(slot) /\ RoomFor(pages[p].pages)
      /\ lastGenIndex' = lastGenIndex
  BY DEF TrapDies, Trappable, Gone
<1>3. working \in AllGens \ {Null} /\ gens[root] # Null
  BY HeapFacts DEF TrapDies, Trappable, HeapInv, TypeOK, AllGens, Nodes
<1>4. /\ InOrder(slot.gens, slot.lastGen, lastGenIndex)
      /\ InOrder(CopyInPlace(slot, p), slot.lastGen, lastGenIndex)
  BY <1>2, <1>3, CopyInPlaceOrder, Zenon
<1> HIDE DEF p, slot
<1>5. \/ gens' = gens /\ lastGen' = lastGen
      \/ gens' = slot.gens /\ lastGen' = slot.lastGen
      \/ gens' = CopyInPlace(slot, p) /\ lastGen' = slot.lastGen
  <2>1. done = 1 \/ done = 2 \/ (done > 2 /\ done # 1 /\ done # 2)
    OBVIOUS
  <2> QED BY <1>1, <2>1
<1> QED BY <1>2, <1>4, <1>5 DEF GensInOrder

LEMMA MallocOrder ==
    ASSUME HeapInv, GensInOrder, NEW size, NEW p \in Frames,
           MallocGrows(size, p) \/ MallocDies(size)
    PROVE  GensInOrder'
<1> DEFINE slot == SlotBelow(working)
<1>1. /\ Found(slot) /\ lastGen' = slot.lastGen /\ lastGenIndex' = lastGenIndex
      /\ gens' = Attach(slot, PageRef(p)) \/ gens' = slot.gens
  BY DEF MallocGrows, MallocDies
<1>2. working \in AllGens
  BY DEF MallocGrows, MallocDies, HeapInv, TypeOK, AllGens, Nodes
<1>3. slot.gens \in GensType /\ InOrder(slot.gens, slot.lastGen, lastGenIndex)
  BY <1>1, <1>2, HeapFacts, SlotBelowOrder DEF HeapInv, TypeOK
<1>4. PageRef(p) \in Ref /\ PageRef(p).type # "generation"
  BY DEF PageRef, Ref
<1> HIDE DEF slot
<1> QED BY <1>1, <1>3, <1>4, AttachOrder DEF GensInOrder

LEMMA FlagOrder == HeapInv /\ GensInOrder /\ (Commit \/ CommitDies) => GensInOrder'
<1> SUFFICES ASSUME HeapInv, GensInOrder, Commit \/ CommitDies PROVE GensInOrder'
  OBVIOUS
<1> DEFINE gs == AllGens \cap ToSet(GensIn(gens, working))
<1>1. /\ gens' = [i \in Nodes |-> IF i \in gs THEN [gens[i] EXCEPT !.committed = TRUE]
                                               ELSE gens[i]]
      /\ UNCHANGED <<lastGen, lastGenIndex>>
  BY DEF Commit, CommitDies, FlagCommitted
<1>2. gs \subseteq AllGens
  OBVIOUS
<1> HIDE DEF gs
<1>3. \A i \in Nodes : gens[i] # Null => gens[i] \in Generation
  BY HeapFacts DEF GensType
<1>4. \A i \in Nodes : /\ gens'[i] # Null => gens[i] # Null
                       /\ gens[i] # Null => /\ gens'[i] # Null /\ gens'[i].gen = gens[i].gen
                                            /\ gens'[i].c = gens[i].c
  <2> SUFFICES ASSUME NEW i \in Nodes
               PROVE  /\ gens'[i] # Null => gens[i] # Null
                      /\ gens[i] # Null => /\ gens'[i] # Null /\ gens'[i].gen = gens[i].gen
                                           /\ gens'[i].c = gens[i].c
    OBVIOUS
  <2>1. CASE i \in gs
    <3>1. gens[i] \in Generation /\ gens'[i] = [gens[i] EXCEPT !.committed = TRUE]
      BY <1>1, <1>2, <1>3, <2>1 DEF AllGens
    <3>2. gens'[i] \in Generation
      BY <3>1 DEF Generation
    <3> QED BY <1>2, <2>1, <3>1, <3>2 DEF Generation, AllGens
  <2>2. CASE i \notin gs
    BY <1>1, <2>2
  <2> QED BY <2>1, <2>2
<1> QED BY <1>1, <1>4 DEF GensInOrder, InOrder

LEMMA CheckoutSwapOrder == HeapInv /\ GensInOrder /\ CheckoutSwap => GensInOrder'
<1> SUFFICES ASSUME HeapInv, GensInOrder, CheckoutSwap PROVE GensInOrder'
  OBVIOUS
<1> DEFINE p == NextToMove
           home == pages[p].real
           moved == Exchanged(p, home)
<1>1. /\ p \in AllPages /\ gens' = Relink(gens, moved)
      /\ UNCHANGED <<lastGen, lastGenIndex>>
  BY DEF CheckoutSwap
<1>2. moved \in [Frames -> Frames]
  <2> HIDE DEF p
  <2>1. p \in Frames /\ home \in Frames
    BY <1>1, HeapFacts DEF Page
  <2> QED BY <2>1 DEF Exchanged
<1> HIDE DEF moved, p
<1> QED BY <1>1, <1>2, HeapFacts, RelinkOrder DEF GensInOrder

LEMMA NewDbOrder == HeapInv /\ NewDb => GensInOrder'
<1> SUFFICES ASSUME HeapInv, NewDb PROVE GensInOrder'
  OBVIOUS
<1> DEFINE gen == [gen |-> 0, committed |-> TRUE, c |-> <<PageRef(initialPage)>>]
<1>1. root \in Nodes /\ root = 0
  BY DEF root, Nodes
<1>2. \A i \in Nodes : gens[i] = Null
  BY DEF HeapInv, TypeOK, NewDb, AllGens
<1>3. gens' = [gens EXCEPT ![root] = gen] /\ lastGen' = root /\ lastGenIndex' = 0
  BY DEF NewDb
<1>4. gen.gen = 0 /\ \A k \in DOMAIN gen.c : gen.c[k].type # "generation"
  BY DEF PageRef
<1> HIDE DEF gen
<1>5. \A i \in Nodes : gens'[i] # Null => i = root /\ gens'[i] = gen
  BY <1>2, <1>3, HeapFacts DEF GensType
<1> QED BY <1>1, <1>3, <1>4, <1>5 DEF GensInOrder, InOrder

LEMMA OrderStep == HeapInv /\ GensInOrder /\ [Next]_heapVars => GensInOrder'
<1> SUFFICES ASSUME HeapInv, GensInOrder, [Next]_heapVars PROVE GensInOrder'
  OBVIOUS
<1>1. ASSUME UNCHANGED <<gens, lastGen, lastGenIndex>> PROVE GensInOrder'
  BY <1>1 DEF GensInOrder
<1>2. CASE SnapInit
  BY <1>1, <1>2, NewDbOrder DEF SnapInit, CreateDb, OpenDb
<1>3. ASSUME NEW f \in Frames, Write(f) \/ TrapDies(f) PROVE GensInOrder'
  BY <1>1, <1>3, TrappedWriteOrder, TrapDiesOrder DEF Write, PlainWrite, TrapFails, fileVars
<1>4. ASSUME NEW size, MallocDies(size) PROVE GensInOrder'
  <2>1. initialPage \in Frames
    BY HeapFacts
  <2> QED BY <1>4, <2>1, MallocOrder
<1>5. ASSUME NEW size, NEW p \in Frames, Malloc(size, p) PROVE GensInOrder'
  BY <1>1, <1>5, MallocOrder DEF Malloc, MallocFits
<1>6. CASE \/ MallocAborts \/ NullDeref \/ CheckoutFails \/ CheckoutEnd \/ Exit \/ Peek
           \/ UNCHANGED heapVars
  BY <1>1, <1>6 DEF MallocAborts, NullDeref, CheckoutFails, CheckoutEnd, Exit, Peek, fileVars,
                    heapVars
<1>7. ASSUME NEW g, CheckoutSame(g) \/ CheckoutStart(g) PROVE GensInOrder'
  BY <1>1, <1>7 DEF CheckoutSame, CheckoutStart, fileVars, heapVars
<1> QED BY <1>2, <1>3, <1>4, <1>5, <1>6, <1>7, BeginMutOrder, BeginDiesOrder, FlagOrder,
           CheckoutSwapOrder, NewDbOrder DEF Next, PeekFirst

\* In every file there can be, nodes and ids are handed out upwards and every
\* generation hangs below an older one or one of its own age.
THEOREM OrderInvariant == Spec => [](HeapInv /\ GensInOrder)
<1>1. Init => GensInOrder
  BY DEF Init, GensInOrder, InOrder
<1> QED BY <1>1, OrderStep, HeapInvariant, PTL DEF Spec

-----------------------------------------------------------------------------
(***************************************************************************)
(* The walk                                                                *)
(***************************************************************************)

\* What F makes of x in 0, 1, .. N steps.
Iterates(U, F, x, N) ==
    {w \in [0 .. N -> U] : w[0] = x /\ \A n \in 1 .. N : w[n] = F[w[n - 1]]}

LEMMA SomeIterates ==
    ASSUME NEW U, NEW x \in U, NEW F \in [U -> U]
    PROVE  \A N \in Nat : Iterates(U, F, x, N) # {}
<1> DEFINE S == {N \in Nat : Iterates(U, F, x, N) = {}}
<1>1. SUFFICES ASSUME S # {} PROVE FALSE
  OBVIOUS
<1>2. PICK m \in S : \A k \in S : m <= k
  <2>1. S \in SUBSET Nat
    OBVIOUS
  <2> QED BY <1>1, <2>1, Least
<1>3. CASE m = 0
  <2>1. [n \in 0 .. 0 |-> x] \in Iterates(U, F, x, 0)
    BY DEF Iterates
  <2> QED BY <1>3, <2>1
<1>4. CASE m # 0
  <2>1. m - 1 \in Nat /\ m - 1 \notin S
    BY <1>2, <1>4
  <2>2. PICK w \in Iterates(U, F, x, m - 1) : TRUE
    BY <2>1
  <2>3. /\ w \in [0 .. m - 1 -> U] /\ w[0] = x
        /\ \A n \in 1 .. m - 1 : w[n] = F[w[n - 1]]
    BY <2>2 DEF Iterates
  <2> DEFINE v == [n \in 0 .. m |-> IF n = m THEN F[w[m - 1]] ELSE w[n]]
  <2>4. v \in [0 .. m -> U]
    BY <1>4, <2>3
  <2>5. v[0] = x
    BY <1>4, <2>3
  <2>6. ASSUME NEW n \in 1 .. m PROVE v[n] = F[v[n - 1]]
    BY <1>4, <2>3
  <2> HIDE DEF v
  <2>7. v \in Iterates(U, F, x, m)
    BY <2>4, <2>5, <2>6 DEF Iterates
  <2> QED BY <2>7
<1> QED BY <1>3, <1>4

LEMMA VisitsType == Visits \in Nat
<1>1. \A a, b \in Nat : a * b \in Nat
  OBVIOUS
<1>2. MaxNodes \in Nat /\ GENERATION_CHILDREN \in Nat
  OBVIOUS
<1>3. MaxNodes * GENERATION_CHILDREN \in Nat
  BY <1>1, <1>2, Zenon
<1> QED BY <1>3 DEF Visits

\* Every slot that holds a generation holds one that was made.
Closed(gs) ==
    /\ gs \in GensType
    /\ \A i \in Nodes : gs[i] # Null =>
          \A k \in DOMAIN gs[i].c : gs[i].c[k].type = "generation" => gs[gs[i].c[k].at] # Null

\* What a walk can come to: it never has a generation to visit that is not there.
Walking(gs) ==
    {w \in WalkState : \A k \in DOMAIN w.todo :
        w.todo[k].type = "generation" => gs[w.todo[k].at] # Null}

Walks(gs, i, max, type) ==
    Iterates(Walking(gs), Visit(gs, max, type), [todo |-> <<GenRef(i)>>, met |-> <<>>], Visits)

\* A call back leaves only nodes that are there to be visited.
LEMMA VisitStays ==
    ASSUME NEW gs, Closed(gs), NEW max, NEW type, NEW w \in Walking(gs)
    PROVE  Visit(gs, max, type)[w] \in Walking(gs)
<1> DEFINE v   == Visit(gs, max, type)[w]
           ref == Head(w.todo)
           met == IF ref.type = type THEN Append(w.met, ref.at) ELSE w.met
<1>1. w \in WalkState /\ w.todo \in Seq(Ref) /\ w.met \in Seq(Nat)
  BY DEF Walking, WalkState
<1>v. /\ w.todo = <<>> => v = w
      /\ w.todo # <<>> /\ ref.type = "generation" /\ gs[ref.at].gen > max =>
            v = [todo |-> Tail(w.todo), met |-> w.met]
      /\ w.todo # <<>> /\ ref.type = "generation" /\ ~ (gs[ref.at].gen > max) =>
            v = [todo |-> gs[ref.at].c \o Tail(w.todo), met |-> met]
      /\ w.todo # <<>> /\ ref.type # "generation" =>
            v = [todo |-> <<>> \o Tail(w.todo), met |-> met]
  BY <1>1 DEF Visit
<1>2. CASE w.todo = <<>>
  BY <1>v, <1>2
<1>3. CASE w.todo # <<>>
  <2>1. ref \in Ref /\ Tail(w.todo) \in Seq(Ref)
    BY <1>1, <1>3, HeadTailProperties
  <2>2. ref = w.todo[1] /\ 1 \in DOMAIN w.todo
    BY <1>1, <1>3, LenProperties, EmptySeq
  <2>3. ref.type = "generation" => gs[ref.at] # Null /\ ref.at \in Nodes
    BY <2>1, <2>2 DEF Walking, Ref
  <2>4. \A k \in DOMAIN Tail(w.todo) : Tail(w.todo)[k].type = "generation" => gs[Tail(w.todo)[k].at] # Null
    <3>1. \A k \in DOMAIN Tail(w.todo) : k + 1 \in DOMAIN w.todo /\ Tail(w.todo)[k] = w.todo[k + 1]
      BY <1>1, <1>3, <2>1, HeadTailProperties, LenProperties
    <3> QED BY <3>1 DEF Walking
  <2>5. met \in Seq(Nat)
    <3>1. ref.at \in Nat
      BY <2>1 DEF Ref, Nodes, Frames
    <3> QED BY <1>1, <3>1, AppendProperties
  <2> DEFINE below == IF ref.type = "generation" THEN gs[ref.at].c ELSE <<>>
  <2>6. below \in Seq(Ref)
        /\ \A k \in DOMAIN below : below[k].type = "generation" => gs[below[k].at] # Null
    <3>1. CASE ref.type = "generation"
      BY <2>3, <3>1 DEF Closed, GensType, Generation
    <3>2. CASE ref.type # "generation"
      BY <3>2, EmptySeq
    <3> QED BY <3>1, <3>2
  <2>7. \/ v = [todo |-> Tail(w.todo), met |-> w.met]
        \/ v = [todo |-> below \o Tail(w.todo), met |-> met]
    BY <1>3, <1>v, Zenon
  <2> HIDE DEF v, ref, met, below
  <2>8. below \o Tail(w.todo) \in Seq(Ref)
    BY <2>1, <2>6, ConcatProperties
  <2>9. ASSUME NEW k \in DOMAIN (below \o Tail(w.todo))
        PROVE  (below \o Tail(w.todo))[k].type = "generation" => gs[(below \o Tail(w.todo))[k].at] # Null
    <3>1. DOMAIN (below \o Tail(w.todo)) = 1 .. Len(below) + Len(Tail(w.todo))
          /\ DOMAIN below = 1 .. Len(below) /\ DOMAIN Tail(w.todo) = 1 .. Len(Tail(w.todo))
          /\ Len(below) \in Nat /\ Len(Tail(w.todo)) \in Nat
      BY <2>1, <2>6, <2>8, ConcatProperties, LenProperties
    <3>2. k \in DOMAIN below => (below \o Tail(w.todo))[k] = below[k]
      BY <2>1, <2>6, <3>1, ConcatProperties
    <3>3. k \notin DOMAIN below => /\ k - Len(below) \in DOMAIN Tail(w.todo)
                                   /\ (below \o Tail(w.todo))[k] = Tail(w.todo)[k - Len(below)]
      BY <2>1, <2>6, <3>1, ConcatProperties
    <3> QED BY <2>4, <2>6, <3>2, <3>3
  <2> DEFINE u == [todo |-> below \o Tail(w.todo), met |-> met]
             t == [todo |-> Tail(w.todo), met |-> w.met]
  <2>10. u \in Walking(gs)
    BY <2>5, <2>8, <2>9 DEF Walking, WalkState
  <2>11. t \in Walking(gs)
    BY <1>1, <2>1, <2>4 DEF Walking, WalkState
  <2> QED BY <2>7, <2>10, <2>11 DEF v
<1> QED BY <1>2, <1>3

\* The walk of walk_nodes is one of those.
LEMMA WalkIs ==
    ASSUME NEW gs, Closed(gs), NEW i \in Nodes, gs[i] # Null, NEW max, NEW type
    PROVE  \E w \in Walks(gs, i, max, type) : Walk(gs, i, max, type) = w[Visits].met
<1> DEFINE F  == [w \in Walking(gs) |-> Visit(gs, max, type)[w]]
           x  == [todo |-> <<GenRef(i)>>, met |-> <<>>]
           Step(f) == [n \in 0 .. Visits |-> IF n = 0 THEN x ELSE Visit(gs, max, type)[f[n - 1]]]
           walk == CHOOSE f : f = Step(f)
<1>0. Visits \in Nat
  BY VisitsType
<1>1. x \in Walking(gs)
  <2>1. <<GenRef(i)>> \in Seq(Ref) /\ <<>> \in Seq(Nat)
    BY DEF GenRef, Ref
  <2>2. \A k \in DOMAIN x.todo : x.todo[k] = GenRef(i)
    OBVIOUS
  <2> QED BY <2>1, <2>2 DEF Walking, WalkState, GenRef
<1>2. F \in [Walking(gs) -> Walking(gs)]
  BY VisitStays
<1> HIDE DEF x
<1>3. PICK w \in Iterates(Walking(gs), F, x, Visits) : TRUE
  <2> HIDE DEF F
  <2> QED BY <1>0, <1>1, <1>2, SomeIterates
<1>4. /\ w \in [0 .. Visits -> Walking(gs)] /\ w[0] = x
      /\ \A n \in 1 .. Visits : w[n] = F[w[n - 1]]
  <2> HIDE DEF F
  <2> QED BY <1>3 DEF Iterates
<1>5. \A n \in 1 .. Visits : w[n - 1] \in Walking(gs) /\ w[n] = Visit(gs, max, type)[w[n - 1]]
  BY <1>0, <1>4
<1> HIDE DEF F
<1>6. w \in Walks(gs, i, max, type)
  BY <1>4, <1>5 DEF Walks, Iterates, x
<1>7. w = Step(w)
  <2>1. \A n \in 0 .. Visits : w[n] = IF n = 0 THEN x ELSE Visit(gs, max, type)[w[n - 1]]
    BY <1>0, <1>4, <1>5
  <2> QED BY <1>4, <2>1
<1>8. walk = Step(walk)
  <2> HIDE DEF Step
  <2> QED BY <1>7
<1>9. \A n \in 0 .. Visits : walk[n] = w[n]
  <2> DEFINE S == {n \in 0 .. Visits : walk[n] # w[n]}
  <2>1. SUFFICES ASSUME S # {} PROVE FALSE
    OBVIOUS
  <2> HIDE DEF walk
  <2>2. PICK m \in S : \A k \in S : m <= k
    <3>1. S \in SUBSET Nat
      BY <1>0
    <3> QED BY <2>1, <3>1, Least
  <2>3. \A n \in 0 .. Visits : walk[n] = IF n = 0 THEN x ELSE Visit(gs, max, type)[walk[n - 1]]
    BY <1>8
  <2>4. m # 0
    BY <1>0, <1>4, <2>2, <2>3
  <2>5. m - 1 \in 0 .. Visits /\ m \in 1 .. Visits /\ m - 1 \notin S
    BY <1>0, <2>2, <2>4
  <2> QED BY <1>5, <2>2, <2>3, <2>4, <2>5
<1>10. Walk(gs, i, max, type) = walk[Visits].met
  BY DEF Walk, x
<1> HIDE DEF walk
<1>11. walk[Visits] = w[Visits]
  BY <1>0, <1>9
<1> QED BY <1>6, <1>10, <1>11, Zenon

\* What holds at first and is kept by every step holds of all iterates; the
\* same of two that run side by side.
LEMMA IteratesStay ==
    ASSUME NEW U, NEW F, NEW x, NEW N \in Nat, NEW w \in Iterates(U, F, x, N),
           NEW P, x \in P, \A u \in P : u \in U => F[u] \in P
    PROVE  \A n \in 0 .. N : w[n] \in P
<1>1. /\ w \in [0 .. N -> U] /\ w[0] = x
      /\ \A n \in 1 .. N : w[n] = F[w[n - 1]]
  BY DEF Iterates
<1> DEFINE S == {n \in 0 .. N : w[n] \notin P}
<1>2. SUFFICES ASSUME S # {} PROVE FALSE
  OBVIOUS
<1>3. PICK m \in S : \A k \in S : m <= k
  <2>1. S \in SUBSET Nat
    OBVIOUS
  <2> QED BY <1>2, <2>1, Least
<1>4. m # 0
  BY <1>1
<1>5. m - 1 \in 0 .. N /\ m \in 1 .. N /\ m - 1 \notin S
  BY <1>3, <1>4
<1> QED BY <1>1, <1>3, <1>5

\* A step of F and one of G keep their states in relation R.
Together(U, F, V, G, R) == \A u \in U, t \in V : <<u, t>> \in R => <<F[u], G[t]>> \in R

LEMMA IteratesStayTogether ==
    ASSUME NEW U, NEW F, NEW x, NEW V, NEW G, NEW y, NEW N \in Nat, NEW w, NEW v, NEW R,
           w \in Iterates(U, F, x, N), v \in Iterates(V, G, y, N),
           <<x, y>> \in R, Together(U, F, V, G, R)
    PROVE  \A n \in 0 .. N : <<w[n], v[n]>> \in R
<1>1. /\ w \in [0 .. N -> U] /\ w[0] = x
      /\ \A n \in 1 .. N : w[n] = F[w[n - 1]]
      /\ v \in [0 .. N -> V] /\ v[0] = y
      /\ \A n \in 1 .. N : v[n] = G[v[n - 1]]
  BY DEF Iterates
<1> DEFINE S == {n \in 0 .. N : <<w[n], v[n]>> \notin R}
<1>2. SUFFICES ASSUME S # {} PROVE FALSE
  OBVIOUS
<1>3. PICK m \in S : \A k \in S : m <= k
  <2>1. S \in SUBSET Nat
    OBVIOUS
  <2> QED BY <1>2, <2>1, Least
<1>4. m # 0
  BY <1>1
<1>5. m - 1 \in 0 .. N /\ m \in 1 .. N /\ m - 1 \notin S
  BY <1>3, <1>4
<1>6. <<w[m - 1], v[m - 1]>> \in R /\ w[m - 1] \in U /\ v[m - 1] \in V
  BY <1>1, <1>5
<1>7. <<F[w[m - 1]], G[v[m - 1]]>> \in R
  BY <1>6 DEF Together
<1>8. <<w[m], v[m]>> \in R
  BY <1>1, <1>5, <1>7
<1> QED BY <1>3, <1>8

\* The sequence of what f makes of the elements of s.
Over(s, f) == [k \in DOMAIN s |-> f[s[k]]]

LEMMA OverSeq ==
    ASSUME NEW S, NEW T, NEW f \in [S -> T], NEW s \in Seq(S)
    PROVE  Over(s, f) \in Seq(T)
<1>1. DOMAIN s = 1 .. Len(s) /\ Len(s) \in Nat /\ s \in [1 .. Len(s) -> S]
  BY LenProperties
<1>2. Over(s, f) \in [1 .. Len(s) -> T]
  BY <1>1 DEF Over
<1> QED BY <1>1, <1>2, FunctionIsSeq

LEMMA OverLen ==
    ASSUME NEW S, NEW s \in Seq(S), NEW f
    PROVE  Len(Over(s, f)) = Len(s)
<1> DEFINE T == {f[x] : x \in S}
<1>1. DOMAIN s = 1 .. Len(s) /\ Len(s) \in Nat /\ s \in [1 .. Len(s) -> S]
  BY LenProperties
<1>2. Over(s, f) \in [1 .. Len(s) -> T]
  BY <1>1 DEF Over
<1> HIDE DEF T
<1>3. Over(s, f) \in Seq(T) /\ DOMAIN Over(s, f) = 1 .. Len(s)
  BY <1>1, <1>2, FunctionIsSeq
<1> QED BY <1>1, <1>3, LenProperties

\* Over as the sequence of the model: its codomain is what f makes of S.
LEMMA OverFunction ==
    ASSUME NEW S, NEW s \in Seq(S), NEW f
    PROVE  /\ Over(s, f) \in Seq({f[x] : x \in S})
           /\ Over(s, f) \in [1 .. Len(s) -> {f[x] : x \in S}]
           /\ DOMAIN s = 1 .. Len(s) /\ Len(s) \in Nat
<1> DEFINE T == {f[x] : x \in S}
<1>1. DOMAIN s = 1 .. Len(s) /\ Len(s) \in Nat /\ s \in [1 .. Len(s) -> S]
  BY LenProperties
<1>2. Over(s, f) \in [1 .. Len(s) -> T]
  BY <1>1 DEF Over
<1> HIDE DEF T
<1>3. Over(s, f) \in Seq(T)
  BY <1>1, <1>2, FunctionIsSeq
<1> QED BY <1>1, <1>2, <1>3 DEF T

LEMMA OverEmpty ==
    ASSUME NEW S, NEW s \in Seq(S), NEW f
    PROVE  Over(s, f) = <<>> <=> s = <<>>
<1> DEFINE T == {f[x] : x \in S}
<1>1. Over(s, f) \in Seq(T)
  BY OverFunction
<1> HIDE DEF T
<1>2. Len(Over(s, f)) = Len(s)
  BY OverLen
<1> QED BY <1>1, <1>2, EmptySeq

LEMMA OverHead ==
    ASSUME NEW S, NEW s \in Seq(S), s # <<>>, NEW f
    PROVE  Head(Over(s, f)) = f[Head(s)]
<1> DEFINE T == {f[x] : x \in S}
<1>1. DOMAIN s = 1 .. Len(s) /\ Len(s) \in Nat /\ Len(s) > 0
  BY LenProperties, EmptySeq
<1>2. Over(s, f)[1] = f[s[1]]
  BY <1>1 DEF Over
<1>3. Head(s) = s[1]
  BY HeadTailProperties
<1>4. Over(s, f) \in Seq(T)
  BY OverFunction
<1>5. Over(s, f) # <<>>
  BY OverEmpty
<1> HIDE DEF T
<1>6. Head(Over(s, f)) = Over(s, f)[1]
  BY <1>4, <1>5, HeadTailProperties
<1> QED BY <1>2, <1>3, <1>6

LEMMA OverTail ==
    ASSUME NEW S, NEW s \in Seq(S), s # <<>>, NEW f
    PROVE  Tail(Over(s, f)) = Over(Tail(s), f)
<1> DEFINE T  == {f[x] : x \in S}
           so == Over(s, f)
           ta == Tail(so)
<1>1. DOMAIN s = 1 .. Len(s) /\ Len(s) \in Nat /\ Len(s) > 0
  BY LenProperties, EmptySeq
<1>2. /\ Tail(s) \in Seq(S) /\ Len(Tail(s)) = Len(s) - 1
      /\ DOMAIN Tail(s) = 1 .. Len(s) - 1
      /\ \A k \in 1 .. Len(s) - 1 : Tail(s)[k] = s[k + 1]
  BY <1>1, HeadTailProperties, LenProperties
<1>3. so \in Seq(T) /\ so # <<>> /\ Len(so) = Len(s)
  BY OverFunction, OverEmpty, OverLen
<1>4. \A k \in 1 .. Len(s) - 1 : so[k + 1] = f[s[k + 1]]
  BY <1>1 DEF Over
<1> HIDE DEF T, so
<1>5. ta \in Seq(T)
  BY <1>3, HeadTailProperties
<1>6. Len(ta) = Len(s) - 1
  BY <1>3, HeadTailProperties
<1>7. \A k \in 1 .. Len(s) - 1 : ta[k] = so[k + 1]
  BY <1>3, HeadTailProperties
<1> HIDE DEF ta
<1>8. ta \in [1 .. Len(s) - 1 -> T]
  BY <1>5, <1>6, LenProperties
<1>9. Over(Tail(s), f) = [k \in 1 .. Len(s) - 1 |-> f[Tail(s)[k]]]
  BY <1>2 DEF Over
<1>10. ta = Over(Tail(s), f)
  BY <1>2, <1>4, <1>7, <1>8, <1>9
<1> QED BY <1>10 DEF ta, so

LEMMA OverConcat ==
    ASSUME NEW S, NEW s \in Seq(S), NEW r \in Seq(S), NEW f
    PROVE  Over(s \o r, f) = Over(s, f) \o Over(r, f)
<1> DEFINE T    == {f[x] : x \in S}
           so   == Over(s, f)
           ro   == Over(r, f)
           both == so \o ro
<1>1. /\ DOMAIN s = 1 .. Len(s) /\ Len(s) \in Nat
      /\ DOMAIN r = 1 .. Len(r) /\ Len(r) \in Nat
  BY LenProperties
<1>2. /\ DOMAIN (s \o r) = 1 .. Len(s) + Len(r)
      /\ \A k \in 1 .. Len(s) + Len(r) :
            (s \o r)[k] = IF k <= Len(s) THEN s[k] ELSE r[k - Len(s)]
  BY ConcatProperties, LenProperties
<1>3. so \in Seq(T) /\ ro \in Seq(T)
  BY OverFunction
<1>4. Len(so) = Len(s) /\ Len(ro) = Len(r)
  BY OverLen
<1>5. /\ \A k \in 1 .. Len(s) : so[k] = f[s[k]]
      /\ \A k \in 1 .. Len(r) : ro[k] = f[r[k]]
  BY <1>1 DEF Over
<1> HIDE DEF T, so, ro
<1>6. both \in Seq(T)
  BY <1>3, ConcatProperties
<1>7. Len(both) = Len(so) + Len(ro)
  BY <1>3, ConcatProperties
<1>8. \A k \in 1 .. Len(so) + Len(ro) :
            both[k] = IF k <= Len(so) THEN so[k] ELSE ro[k - Len(so)]
  BY <1>3, ConcatProperties
<1> HIDE DEF both
<1>9. both \in [1 .. Len(s) + Len(r) -> T]
  BY <1>4, <1>6, <1>7, LenProperties
<1>10. Over(s \o r, f) = [k \in 1 .. Len(s) + Len(r) |-> f[(s \o r)[k]]]
  BY <1>2 DEF Over
<1>11. ASSUME NEW k \in 1 .. Len(s) + Len(r)
       PROVE  both[k] = f[(s \o r)[k]]
  <2>1. CASE k <= Len(s)
    BY <1>1, <1>2, <1>4, <1>5, <1>8, <2>1
  <2>2. CASE ~ (k <= Len(s))
    <3>1. k - Len(s) \in 1 .. Len(r)
      BY <1>1, <2>2
    <3>2. both[k] = ro[k - Len(s)] /\ (s \o r)[k] = r[k - Len(s)]
      BY <1>2, <1>4, <1>8, <2>2
    <3> QED BY <1>5, <3>1, <3>2
  <2> QED BY <2>1, <2>2
<1>12. both = Over(s \o r, f)
  BY <1>9, <1>10, <1>11
<1> QED BY <1>12 DEF both, so, ro

LEMMA OverAppend ==
    ASSUME NEW S, NEW s \in Seq(S), NEW e \in S, NEW f
    PROVE  Over(Append(s, e), f) = Append(Over(s, f), f[e])
<1> DEFINE T    == {f[x] : x \in S}
           so   == Over(s, f)
           more == Append(so, f[e])
<1>1. DOMAIN s = 1 .. Len(s) /\ Len(s) \in Nat
  BY LenProperties
<1>2. /\ DOMAIN Append(s, e) = 1 .. Len(s) + 1
      /\ Append(s, e)[Len(s) + 1] = e
      /\ \A k \in 1 .. Len(s) : Append(s, e)[k] = s[k]
  BY AppendProperties, LenProperties
<1>3. so \in Seq(T) /\ f[e] \in T /\ Len(so) = Len(s)
  BY OverFunction, OverLen
<1>4. \A k \in 1 .. Len(s) : so[k] = f[s[k]]
  BY <1>1 DEF Over
<1> HIDE DEF T, so
<1>5. more \in Seq(T)
  BY <1>3, AppendProperties
<1>6. Len(more) = Len(so) + 1
  BY <1>3, AppendProperties
<1>7. more[Len(so) + 1] = f[e]
  BY <1>3, AppendProperties
<1>8. \A k \in 1 .. Len(so) : more[k] = so[k]
  BY <1>3, AppendProperties
<1> HIDE DEF more
<1>9. more \in [1 .. Len(s) + 1 -> T]
  BY <1>3, <1>5, <1>6, LenProperties
<1>10. Over(Append(s, e), f) = [k \in 1 .. Len(s) + 1 |-> f[Append(s, e)[k]]]
  BY <1>2 DEF Over
<1>11. ASSUME NEW k \in 1 .. Len(s) + 1
       PROVE  more[k] = f[Append(s, e)[k]]
  <2>1. k \in 1 .. Len(s) \/ k = Len(s) + 1
    BY <1>1
  <2> QED BY <1>2, <1>3, <1>4, <1>7, <1>8, <2>1
<1>12. more = Over(Append(s, e), f)
  BY <1>9, <1>10, <1>11
<1> QED BY <1>12 DEF more, so

-----------------------------------------------------------------------------
\* The same slots with other pages in them.
RefMap(moved) == [r \in Ref |-> IF r.type = "page" THEN PageRef(moved[r.at]) ELSE r]

LEMMA RefMapType ==
    ASSUME NEW moved \in [Frames -> Frames]
    PROVE  /\ RefMap(moved) \in [Ref -> Ref]
           /\ \A r \in Ref : /\ RefMap(moved)[r].type = r.type
                             /\ r.type = "generation" => RefMap(moved)[r] = r
                             /\ r.type # "generation" => /\ r.type = "page" /\ r.at \in Frames
                                                         /\ RefMap(moved)[r].at = moved[r.at]
BY DEF RefMap, Ref, PageRef

LEMMA RelinkIs ==
    ASSUME NEW gs \in GensType, NEW moved \in [Frames -> Frames], NEW i \in Nodes, gs[i] # Null
    PROVE  /\ Relink(gs, moved)[i] # Null
           /\ Relink(gs, moved)[i].gen = gs[i].gen
           /\ Relink(gs, moved)[i].c = Over(gs[i].c, RefMap(moved))
<1> DEFINE new == Relink(gs, moved)
           one == [k \in DOMAIN gs[i].c |->
                IF gs[i].c[k].type = "page" THEN PageRef(moved[gs[i].c[k].at])
                                            ELSE gs[i].c[k]]
<1>1. gs[i] \in Generation /\ gs[i].c \in Seq(Ref) /\ new[i] # Null
  BY RelinkType DEF GensType, Generation
<1>2. new[i] = [gs[i] EXCEPT !.c = one]
  BY DEF Relink
<1>3. one = Over(gs[i].c, RefMap(moved))
  <2>1. \A k \in DOMAIN gs[i].c : gs[i].c[k] \in Ref
    BY <1>1, ElementOfSeq, LenProperties
  <2> QED BY <2>1 DEF Over, RefMap
<1> HIDE DEF one, new
<1>4. new[i].gen = gs[i].gen /\ new[i].c = one
  BY <1>1, <1>2 DEF Generation
<1> QED BY <1>1, <1>3, <1>4 DEF new

LEMMA RelinkClosed ==
    ASSUME NEW gs, Closed(gs), NEW moved \in [Frames -> Frames]
    PROVE  Closed(Relink(gs, moved))
<1> DEFINE new == Relink(gs, moved)
<1>1. gs \in GensType /\ new \in GensType /\ \A i \in Nodes : new[i] = Null <=> gs[i] = Null
  BY RelinkType DEF Closed
<1>2. ASSUME NEW i \in Nodes, new[i] # Null, NEW k \in DOMAIN new[i].c,
             new[i].c[k].type = "generation"
      PROVE  new[new[i].c[k].at] # Null
  <2>1. gs[i] # Null /\ gs[i].c \in Seq(Ref)
    BY <1>1, <1>2 DEF GensType, Generation
  <2>2. new[i].c = Over(gs[i].c, RefMap(moved))
    BY <1>1, <2>1, RelinkIs
  <2>3. k \in DOMAIN gs[i].c /\ new[i].c[k] = RefMap(moved)[gs[i].c[k]] /\ gs[i].c[k] \in Ref
    BY <1>2, <2>1, <2>2, ElementOfSeq, LenProperties DEF Over
  <2>4. gs[i].c[k] = new[i].c[k]
    BY <1>2, <2>3, RefMapType
  <2>5. gs[new[i].c[k].at] # Null /\ new[i].c[k].at \in Nodes
    BY <1>2, <2>1, <2>3, <2>4 DEF Closed, Ref
  <2> QED BY <1>1, <2>5
<1> HIDE DEF new
<1> QED BY <1>1, <1>2 DEF Closed, new

\* What one walk has come to in the old tree and another in the new one.
Alike(moved) ==
    {uv \in WalkState \X WalkState :
        /\ uv[1].met \in Seq(Frames)
        /\ uv[2].todo = Over(uv[1].todo, RefMap(moved))
        /\ uv[2].met = Over(uv[1].met, moved)}

LEMMA AlikeIs ==
    ASSUME NEW moved, NEW u \in WalkState, NEW v \in WalkState
    PROVE  <<u, v>> \in Alike(moved) <=> /\ u.met \in Seq(Frames)
                                        /\ v.todo = Over(u.todo, RefMap(moved))
                                        /\ v.met = Over(u.met, moved)
BY DEF Alike

LEMMA RelinkVisit ==
    ASSUME NEW gs, Closed(gs), NEW moved \in [Frames -> Frames], NEW max,
           NEW u \in Walking(gs), NEW v \in Walking(Relink(gs, moved)), <<u, v>> \in Alike(moved)
    PROVE  <<Visit(gs, max, "page")[u], Visit(Relink(gs, moved), max, "page")[v]>> \in Alike(moved)
<1> DEFINE new  == Relink(gs, moved)
           map  == RefMap(moved)
           u1   == Visit(gs, max, "page")[u]
           v1   == Visit(new, max, "page")[v]
           ref  == Head(u.todo)
           rest == Tail(u.todo)
<1>0. u1 \in WalkState /\ v1 \in WalkState
  BY VisitStays, RelinkClosed DEF Walking
<1>1. /\ u \in WalkState /\ v \in WalkState
      /\ u.todo \in Seq(Ref) /\ u.met \in Seq(Frames)
      /\ v.todo = Over(u.todo, map) /\ v.met = Over(u.met, moved)
  <2>1. u \in WalkState /\ v \in WalkState
    BY DEF Walking
  <2> QED BY <2>1, AlikeIs DEF WalkState
<1>2. map \in [Ref -> Ref]
  BY RefMapType
<1>u. /\ u.todo = <<>> => u1 = u
      /\ u.todo # <<>> /\ ref.type = "generation" /\ gs[ref.at].gen > max =>
            u1 = [todo |-> rest, met |-> u.met]
      /\ u.todo # <<>> /\ ref.type = "generation" /\ ~ (gs[ref.at].gen > max) =>
            u1 = [todo |-> gs[ref.at].c \o rest, met |-> u.met]
      /\ u.todo # <<>> /\ ref.type = "page" =>
            u1 = [todo |-> <<>> \o rest, met |-> Append(u.met, ref.at)]
  BY <1>1 DEF Visit
<1>v. /\ v.todo = <<>> => v1 = v
      /\ v.todo # <<>> /\ Head(v.todo).type = "generation" /\ new[Head(v.todo).at].gen > max =>
            v1 = [todo |-> Tail(v.todo), met |-> v.met]
      /\ v.todo # <<>> /\ Head(v.todo).type = "generation" /\ ~ (new[Head(v.todo).at].gen > max) =>
            v1 = [todo |-> new[Head(v.todo).at].c \o Tail(v.todo), met |-> v.met]
      /\ v.todo # <<>> /\ Head(v.todo).type = "page" =>
            v1 = [todo |-> <<>> \o Tail(v.todo), met |-> Append(v.met, Head(v.todo).at)]
  BY <1>1 DEF Visit
<1> HIDE DEF u1, v1
<1>3. CASE u.todo = <<>>
  <2>1. v.todo = <<>>
    BY <1>1, <1>3, OverEmpty
  <2>2. u1 = u /\ v1 = v
    BY <1>3, <1>u, <1>v, <2>1
  <2> QED BY <2>2 DEF u1, v1
<1>4. CASE u.todo # <<>>
  <2>1. /\ v.todo # <<>> /\ Head(v.todo) = map[ref] /\ Tail(v.todo) = Over(rest, map)
    <3> HIDE DEF map
    <3>1. v.todo # <<>>
      BY <1>1, <1>4, OverEmpty
    <3>2. Head(v.todo) = map[ref]
      BY <1>1, <1>4, OverHead
    <3>3. Tail(v.todo) = Over(rest, map)
      BY <1>1, <1>4, OverTail
    <3> QED BY <3>1, <3>2, <3>3
  <2>2. ref \in Ref /\ rest \in Seq(Ref) /\ ref = u.todo[1] /\ 1 \in DOMAIN u.todo
    BY <1>1, <1>4, HeadTailProperties, LenProperties, EmptySeq
  <2> HIDE DEF ref, rest, map, new
  <2>3. CASE ref.type = "generation"
    <3>1. map[ref] = ref /\ ref.at \in Nodes /\ gs[ref.at] # Null
      BY <2>2, <2>3, RefMapType DEF map, Walking, Ref
    <3>2. /\ new[ref.at].gen = gs[ref.at].gen /\ new[ref.at].c = Over(gs[ref.at].c, map)
          /\ gs[ref.at].c \in Seq(Ref)
      BY <3>1, RelinkIs DEF new, map, Closed, GensType, Generation
    <3>3. CASE gs[ref.at].gen > max
      <4>1. u1 = [todo |-> rest, met |-> u.met]
        BY <1>4, <1>u, <2>3, <3>3
      <4>2. v1 = [todo |-> Tail(v.todo), met |-> v.met]
        BY <1>v, <2>1, <2>3, <3>1, <3>2, <3>3
      <4>3. v1.todo = Over(u1.todo, map) /\ v1.met = Over(u1.met, moved) /\ u1.met \in Seq(Frames)
        BY <1>1, <2>1, <4>1, <4>2
      <4> QED BY <1>0, <4>3, AlikeIs DEF map, u1, v1, new
    <3>4. CASE ~ (gs[ref.at].gen > max)
      <4>1. u1 = [todo |-> gs[ref.at].c \o rest, met |-> u.met]
        BY <1>4, <1>u, <2>3, <3>4
      <4>2. v1 = [todo |-> new[ref.at].c \o Tail(v.todo), met |-> v.met]
        BY <1>v, <2>1, <2>3, <3>1, <3>2, <3>4
      <4>3. Over(gs[ref.at].c \o rest, map) = Over(gs[ref.at].c, map) \o Over(rest, map)
        <5> DEFINE below == gs[ref.at].c
        <5>1. below \in Seq(Ref) /\ rest \in Seq(Ref)
          BY <2>2, <3>2
        <5> HIDE DEF below
        <5>2. Over(below \o rest, map) = Over(below, map) \o Over(rest, map)
          BY <5>1, OverConcat
        <5> QED BY <5>2 DEF below
      <4>4. v1.todo = Over(u1.todo, map) /\ v1.met = Over(u1.met, moved) /\ u1.met \in Seq(Frames)
        BY <1>1, <2>1, <3>2, <4>1, <4>2, <4>3
      <4> QED BY <1>0, <4>4, AlikeIs DEF map, u1, v1, new
    <3> QED BY <3>3, <3>4
  <2>4. CASE ref.type # "generation"
    <3>1. ref.type = "page" /\ ref.at \in Frames /\ map[ref].type = "page" /\ map[ref].at = moved[ref.at]
      <4>1. \A r \in Ref : /\ map[r].type = r.type
                           /\ r.type # "generation" => /\ r.type = "page" /\ r.at \in Frames
                                                       /\ map[r].at = moved[r.at]
        BY RefMapType DEF map
      <4>2. ref \in Ref
        BY <2>2
      <4> QED BY <2>4, <4>1, <4>2
    <3>2. u1 = [todo |-> <<>> \o rest, met |-> Append(u.met, ref.at)]
      BY <1>4, <1>u, <3>1
    <3>3. v1 = [todo |-> <<>> \o Tail(v.todo), met |-> Append(v.met, moved[ref.at])]
      BY <1>v, <2>1, <3>1
    <3>4. <<>> \o rest = rest /\ <<>> \o Over(rest, map) = Over(rest, map)
      <4>1. Over(rest, map) \in Seq(Ref)
        BY <1>2, <2>2, OverSeq
      <4> QED BY <2>2, <4>1, ConcatEmptySeq
    <3>5. /\ Over(Append(u.met, ref.at), moved) = Append(Over(u.met, moved), moved[ref.at])
          /\ Append(u.met, ref.at) \in Seq(Frames)
      <4>1. Over(Append(u.met, ref.at), moved) = Append(Over(u.met, moved), moved[ref.at])
        <5> DEFINE met == u.met
                   at  == ref.at
        <5>1. met \in Seq(Frames) /\ at \in Frames
          BY <1>1, <3>1
        <5> HIDE DEF met, at
        <5>2. Over(Append(met, at), moved) = Append(Over(met, moved), moved[at])
          BY <5>1, OverAppend
        <5> QED BY <5>2 DEF met, at
      <4>2. Append(u.met, ref.at) \in Seq(Frames)
        BY <1>1, <3>1, AppendProperties
      <4> QED BY <4>1, <4>2
    <3>6. v1.todo = Over(u1.todo, map) /\ v1.met = Over(u1.met, moved) /\ u1.met \in Seq(Frames)
      BY <1>1, <2>1, <3>2, <3>3, <3>4, <3>5
    <3> QED BY <1>0, <3>6, AlikeIs DEF map, u1, v1, new
  <2> QED BY <2>3, <2>4
<1> QED BY <1>3, <1>4

\* A walk of the relinked tree meets the pages the others were moved to.
LEMMA RelinkWalk ==
    ASSUME NEW gs, Closed(gs), NEW moved \in [Frames -> Frames], NEW max,
           NEW i \in Nodes, gs[i] # Null
    PROVE  /\ Walk(gs, i, max, "page") \in Seq(Frames)
           /\ Walk(Relink(gs, moved), i, max, "page") = Over(Walk(gs, i, max, "page"), moved)
<1> DEFINE new == Relink(gs, moved)
           x   == [todo |-> <<GenRef(i)>>, met |-> <<>>]
<1>1. Closed(new) /\ new[i] # Null
  BY RelinkClosed, RelinkType DEF Closed
<1> HIDE DEF new
<1>2. PICK u \in Walks(gs, i, max, "page") : Walk(gs, i, max, "page") = u[Visits].met
  BY WalkIs
<1>3. PICK v \in Walks(new, i, max, "page") : Walk(new, i, max, "page") = v[Visits].met
  BY <1>1, WalkIs
<1>4. <<x, x>> \in Alike(moved)
  <2>1. <<GenRef(i)>> \in Seq(Ref) /\ <<>> \in Seq(Nat) /\ <<>> \in Seq(Frames) /\ GenRef(i) \in Ref
    BY DEF GenRef, Ref
  <2>2. RefMap(moved) \in [Ref -> Ref] /\ RefMap(moved)[GenRef(i)] = GenRef(i)
    BY <2>1, RefMapType DEF GenRef
  <2>3. Over(<<GenRef(i)>>, RefMap(moved)) = <<GenRef(i)>>
    BY <2>2 DEF Over
  <2>4. Over(<<>>, moved) = <<>>
    BY <2>1, OverEmpty
  <2>5. x \in WalkState
    BY <2>1 DEF WalkState
  <2> QED BY <2>1, <2>3, <2>4, <2>5, AlikeIs
<1> HIDE DEF x
<1>5. \A n \in 0 .. Visits : <<u[n], v[n]>> \in Alike(moved)
  <2> DEFINE U == Walking(gs)
             V == Walking(new)
             F == Visit(gs, max, "page")
             G == Visit(new, max, "page")
             R == Alike(moved)
  <2>1. Together(U, F, V, G, R)
    BY RelinkVisit DEF new, Together
  <2>2. u \in Iterates(U, F, x, Visits)
    BY <1>2 DEF Walks, x
  <2>3. v \in Iterates(V, G, x, Visits)
    BY <1>3 DEF Walks, x
  <2>4. <<x, x>> \in R /\ Visits \in Nat
    BY <1>4, VisitsType
  <2> HIDE DEF U, V, F, G, R
  <2>5. \A n \in 0 .. Visits : <<u[n], v[n]>> \in R
    BY <2>1, <2>2, <2>3, <2>4, IteratesStayTogether, Zenon
  <2> QED BY <2>5 DEF R
<1>6. <<u[Visits], v[Visits]>> \in Alike(moved)
  BY <1>5, VisitsType
<1>7. u[Visits] \in WalkState /\ v[Visits] \in WalkState
  BY <1>2, <1>3, VisitsType DEF Walks, Iterates, Walking
<1>8. /\ u[Visits].met \in Seq(Frames)
      /\ v[Visits].met = Over(u[Visits].met, moved)
  BY <1>6, <1>7, AlikeIs
<1>9. /\ Walk(gs, i, max, "page") \in Seq(Frames)
      /\ Walk(new, i, max, "page") = Over(Walk(gs, i, max, "page"), moved)
  BY <1>2, <1>3, <1>8
<1> QED BY <1>9 DEF new

-----------------------------------------------------------------------------
(***************************************************************************)
(* The list of a checkout                                                  *)
(***************************************************************************)

LEMMA FramesAreNumbers ==
    ASSUME NEW s \in Seq(Frames)
    PROVE  s \in Seq(Nat)
<1>1. Len(s) \in Nat /\ s \in [1 .. Len(s) -> Frames]
  BY LenProperties
<1>2. s \in [1 .. Len(s) -> Nat]
  BY <1>1 DEF Frames
<1> QED BY <1>1, <1>2, FunctionIsSeq

LEMMA MinIsOne ==
    ASSUME NEW S \in SUBSET Nat, S # {}
    PROVE  Min(S) \in S
<1>1. \E n \in S : \A k \in S : n <= k
  BY Least
<1> QED BY <1>1 DEF Min

LEMMA MaxIsOne ==
    ASSUME NEW N \in Nat, NEW S \in SUBSET (1 .. N), S # {}
    PROVE  Max(S) \in S
<1> DEFINE T == {n \in 0 .. N : N - n \in S}
<1>1. T # {}
  <2>1. PICK k \in S : TRUE
    OBVIOUS
  <2>2. N - k \in 0 .. N /\ N - (N - k) = k
    BY <2>1
  <2> QED BY <2>1, <2>2
<1>2. PICK n \in T : \A k \in T : n <= k
  <2>1. T \in SUBSET Nat
    OBVIOUS
  <2> QED BY <1>1, <2>1, Least
<1>3. N - n \in S /\ \A k \in S : k <= N - n
  <2>1. ASSUME NEW k \in S PROVE k <= N - n
    <3>1. k \in 1 .. N /\ N - k \in 0 .. N /\ N - (N - k) = k
      OBVIOUS
    <3>2. n <= N - k
      BY <1>2, <3>1
    <3> QED BY <1>2, <3>1, <3>2
  <2> QED BY <1>2, <2>1
<1> QED BY <1>3 DEF Max

\* pages_up_to_gen of the pages met, the nodes of which are ps.
Firsts(met, ps) == {j \in DOMAIN met : \A i \in 1 .. j - 1 : ps[met[i]].real # ps[met[j]].real}
Others(met, ps, k) == {j \in DOMAIN met : ps[met[j]].real = ps[met[k]].real}
ListOf(met, ps) == [k \in Firsts(met, ps) |-> met[Max(Others(met, ps, k))]]

\* A page is listed at one place, which is where its real address is first met.
LEMMA ListedOnce ==
    ASSUME NEW met \in Seq(Frames), NEW ps, NEW k \in Firsts(met, ps)
    PROVE  /\ Max(Others(met, ps, k)) \in Others(met, ps, k)
           /\ ListOf(met, ps)[k] \in Frames
           /\ ps[ListOf(met, ps)[k]].real = ps[met[k]].real
           /\ \A m \in Firsts(met, ps) :
                 ps[ListOf(met, ps)[m]].real = ps[ListOf(met, ps)[k]].real => m = k
<1>1. DOMAIN met = 1 .. Len(met) /\ Len(met) \in Nat
  BY LenProperties
<1>2. ASSUME NEW m \in Firsts(met, ps)
      PROVE  /\ Max(Others(met, ps, m)) \in Others(met, ps, m)
             /\ ListOf(met, ps)[m] \in Frames
             /\ ps[ListOf(met, ps)[m]].real = ps[met[m]].real
  <2>1. m \in Others(met, ps, m) /\ Others(met, ps, m) \in SUBSET (1 .. Len(met))
    BY <1>1 DEF Firsts, Others
  <2>2. Max(Others(met, ps, m)) \in Others(met, ps, m)
    BY <1>1, <2>1, MaxIsOne
  <2>3. ListOf(met, ps)[m] = met[Max(Others(met, ps, m))]
    BY DEF ListOf
  <2> QED BY <1>1, <2>2, <2>3, ElementOfSeq DEF Others
<1>3. ASSUME NEW m \in Firsts(met, ps), ps[met[m]].real = ps[met[k]].real
      PROVE  m = k
  <2>1. m \in 1 .. Len(met) /\ k \in 1 .. Len(met)
    BY <1>1 DEF Firsts
  <2>2. ~ (m < k) /\ ~ (k < m)
    BY <1>3, <2>1 DEF Firsts
  <2> QED BY <2>1, <2>2
<1> QED BY <1>2, <1>3

\* The pages listed are those of the pages met, with their places exchanged as
\* their nodes are.
LEMMA ListMoved ==
    ASSUME NEW met \in Seq(Frames), NEW ps, NEW moved \in [Frames -> Frames], NEW ps2,
           \A q \in ToSet(met) : ps2[moved[q]].real = ps[q].real
    PROVE  /\ DOMAIN ListOf(Over(met, moved), ps2) = DOMAIN ListOf(met, ps)
           /\ \A k \in DOMAIN ListOf(met, ps) :
                 ListOf(Over(met, moved), ps2)[k] = moved[ListOf(met, ps)[k]]
<1> DEFINE met2 == Over(met, moved)
<1>1. DOMAIN met = 1 .. Len(met) /\ Len(met) \in Nat /\ DOMAIN met2 = DOMAIN met
  BY LenProperties DEF Over
<1>2. \A k \in DOMAIN met : met2[k] = moved[met[k]] /\ met[k] \in ToSet(met)
  BY <1>1 DEF Over, ToSet
<1>3. \A k \in DOMAIN met : ps2[met2[k]].real = ps[met[k]].real
  BY <1>2
<1> HIDE DEF met2
<1>4. Firsts(met2, ps2) = Firsts(met, ps)
  <2>1. \A j \in DOMAIN met : \A i \in 1 .. j - 1 : i \in DOMAIN met
    BY <1>1
  <2>2. \A j \in DOMAIN met, i \in DOMAIN met :
            ps2[met2[i]].real # ps2[met2[j]].real <=> ps[met[i]].real # ps[met[j]].real
    BY <1>3
  <2>3. \A j \in DOMAIN met : (\A i \in 1 .. j - 1 : ps2[met2[i]].real # ps2[met2[j]].real)
                              <=> (\A i \in 1 .. j - 1 : ps[met[i]].real # ps[met[j]].real)
    BY <2>1, <2>2
  <2> QED BY <1>1, <2>3 DEF Firsts
<1>5. ASSUME NEW k \in Firsts(met, ps)
      PROVE  Others(met2, ps2, k) = Others(met, ps, k)
  BY <1>1, <1>3 DEF Others, Firsts
<1>6. /\ DOMAIN ListOf(met2, ps2) = Firsts(met, ps) /\ DOMAIN ListOf(met, ps) = Firsts(met, ps)
      /\ \A k \in Firsts(met, ps) : ListOf(met2, ps2)[k] = met2[Max(Others(met, ps, k))]
      /\ \A k \in Firsts(met, ps) : ListOf(met, ps)[k] = met[Max(Others(met, ps, k))]
  BY <1>4, <1>5 DEF ListOf
<1>7. \A k \in Firsts(met, ps) : Max(Others(met, ps, k)) \in DOMAIN met
  BY ListedOnce DEF Others
<1>8. \A k \in Firsts(met, ps) : ListOf(met2, ps2)[k] = moved[ListOf(met, ps)[k]]
  BY <1>2, <1>6, <1>7
<1> QED BY <1>6, <1>8 DEF met2

\* What CheckoutAsListed is about.
Listed == PagesUpToGen(gens[target].gen)
ToMove == {k \in DOMAIN Listed : Displaced(Listed[k])}

LEMMA CheckoutListed ==
    ASSUME HeapInv, GensInOrder, CheckoutSwap
    PROVE  /\ DOMAIN Listed' = DOMAIN Listed
           /\ ToMove' = ToMove \ {Min(ToMove)}
           /\ \A k \in ToMove' : Listed'[k] = Listed[k]
<1> DEFINE p     == NextToMove
           home  == pages[p].real
           moved == Exchanged(p, home)
           g     == gens[target].gen
           met   == PagesIn(gens, root, g)
           list  == ListOf(met, pages)
           list2 == ListOf(Over(met, moved), pages')
<1>1. /\ target # Null /\ p \in AllPages
      /\ gens' = Relink(gens, moved)
      /\ pages' = [pages EXCEPT ![p] = pages[home], ![home] = pages[p]]
      /\ target' = target
  BY DEF CheckoutSwap
<1>2. Closed(gens) /\ target \in Nodes /\ gens[target] # Null /\ root \in Nodes /\ gens[root] # Null
  BY <1>1, HeapFacts DEF Closed, GensInOrder, InOrder, HeapInv, TypeOK, AllGens
<1>3. /\ p \in Frames /\ home \in Frames /\ pages[home].real = home
      /\ pages \in PagesType
  <2> HIDE DEF p
  <2> QED BY <1>1, HeapFacts DEF HeapInv, PagesHaveHomes, AllPages, Page
<1>4. moved \in [Frames -> Frames]
  <2> HIDE DEF p
  <2> QED BY <1>3 DEF Exchanged
<1>5. /\ moved[p] = home /\ moved[home] = p
      /\ \A q \in Frames : q # p /\ q # home => moved[q] = q
  <2> HIDE DEF p
  <2> QED BY <1>3 DEF Exchanged
<1>6. \A q \in Frames : pages'[moved[q]].real = pages[q].real
  <2> HIDE DEF p, moved
  <2> QED BY <1>1, <1>3, <1>5 DEF PagesType
<1>7. /\ met \in Seq(Frames)
      /\ PagesIn(gens', root, g) = Over(met, moved)
  <2> HIDE DEF p, moved, g
  <2> QED BY <1>1, <1>2, <1>4, RelinkWalk DEF PagesIn
<1>8. gens'[target'].gen = g
  <2> HIDE DEF p, moved
  <2> QED BY <1>1, <1>2, <1>4, RelinkIs DEF Closed
<1> HIDE DEF p, moved, g
<1>9. Listed = list
  <2>1. met \in Seq(Nat)
    BY <1>7, FramesAreNumbers
  <2> QED BY <2>1 DEF Listed, PagesUpToGen, SameReal, ListOf, Firsts, Others, g
<1>10. Listed' = list2
  <2>1. PagesIn(gens', root, g) \in Seq(Nat)
    BY <1>4, <1>7, OverSeq, FramesAreNumbers
  <2> QED BY <1>7, <1>8, <2>1 DEF Listed, PagesUpToGen, SameReal, ListOf, Firsts, Others
<1> HIDE DEF met, list, list2
<1>11. /\ DOMAIN list2 = DOMAIN list
       /\ \A k \in DOMAIN list : list2[k] = moved[list[k]]
  <2>1. ToSet(met) \subseteq Frames
    BY <1>7, ElementOfSeq, LenProperties DEF ToSet
  <2> QED BY <1>4, <1>6, <1>7, <2>1, ListMoved DEF list, list2
<1>12. /\ DOMAIN list = Firsts(met, pages)
       /\ \A k \in DOMAIN list : list[k] \in Frames
       /\ \A k, m \in DOMAIN list : pages[list[m]].real = pages[list[k]].real => m = k
       /\ DOMAIN list \in SUBSET Nat
  <2>1. DOMAIN list = Firsts(met, pages)
    BY DEF list, ListOf
  <2>2. DOMAIN list \in SUBSET Nat
    BY <1>7, <2>1, LenProperties DEF Firsts
  <2> QED BY <1>7, <2>1, <2>2, ListedOnce DEF list
<1>13. ToMove = {k \in DOMAIN list : pages[list[k]].real # list[k]}
  BY <1>9 DEF ToMove, Displaced
<1>14. ToMove' = {k \in DOMAIN list2 : pages'[list2[k]].real # list2[k]}
  BY <1>10 DEF ToMove, Displaced
<1> DEFINE m == Min(ToMove)
<1>15. m \in ToMove /\ p = list[m]
  <2>1. p # Null
    BY <1>3, NullAssumption DEF Frames
  <2>2. p = IF ToMove = {} THEN Null ELSE Listed[m]
    BY DEF p, NextToMove, FirstThat, ToMove, Listed
  <2>3. ToMove # {} /\ p = list[m]
    BY <1>9, <2>1, <2>2
  <2>4. ToMove \in SUBSET Nat
    BY <1>12, <1>13
  <2> QED BY <2>3, <2>4, MinIsOne
<1> HIDE DEF m
<1>16. m \in DOMAIN list /\ home # p
  BY <1>13, <1>15
<1>17. ASSUME NEW k \in DOMAIN list, k # m
       PROVE  list[k] # p /\ list[k] # home /\ list2[k] = list[k]
  <2>1. pages[list[k]].real # home
    BY <1>12, <1>15, <1>16, <1>17
  <2>2. list[k] # p /\ list[k] # home
    BY <1>3, <2>1
  <2> QED BY <1>5, <1>11, <1>12, <2>2
<1>18. list2[m] = home /\ pages'[home].real = home
  BY <1>3, <1>5, <1>6, <1>11, <1>15, <1>16
<1>19. ASSUME NEW k \in DOMAIN list, k # m
       PROVE  pages'[list2[k]].real = pages[list[k]].real
  BY <1>6, <1>11, <1>12
<1>20. ToMove' = ToMove \ {m}
  BY <1>11, <1>13, <1>14, <1>17, <1>18, <1>19
<1>21. \A k \in ToMove' : list2[k] = list[k]
  BY <1>13, <1>17, <1>20
<1> QED BY <1>9, <1>10, <1>11, <1>20, <1>21 DEF m

\* No step but an exchange of snap_checkout is taken between its first and its
\* last.
LEMMA CheckoutSteps ==
    HeapInv /\ GensInOrder /\ [Next]_heapVars /\ target # Null /\ target' # Null =>
        CheckoutSwap \/ UNCHANGED heapVars
<1> SUFFICES ASSUME HeapInv, GensInOrder, [Next]_heapVars, target # Null, target' # Null
             PROVE  CheckoutSwap \/ UNCHANGED heapVars
  OBVIOUS
<1>1. ~ SnapInit
  BY DEF SnapInit, CreateDb, OpenDb
<1>2. ~ BeginMut /\ ~ Commit /\ ~ Exit /\ ~ BeginDies /\ ~ CommitDies /\ ~ Peek
  BY DEF BeginMut, Commit, Exit, BeginDies, CommitDies, Peek, Gone
<1>3. \A f \in Frames : ~ Write(f) /\ ~ TrapDies(f)
  BY DEF Write, PlainWrite, TrappedWrite, TrapFails, TrapDies
<1>4. \A size, q : ~ MallocDies(size) /\ ~ Malloc(size, q)
  BY DEF MallocDies, Malloc, MallocFits, MallocGrows
<1>5. ~ MallocAborts /\ ~ NullDeref /\ ~ CheckoutFails /\ ~ CheckoutEnd
  BY DEF MallocAborts, NullDeref, CheckoutFails, CheckoutEnd
<1>6. \A g : ~ CheckoutSame(g) /\ ~ CheckoutStart(g)
  BY DEF CheckoutSame, CheckoutStart
<1>7. ~ PeekFirst
  BY DEF PeekFirst, NewDb, HeapInv, TypeOK, AllGens
<1> QED BY <1>1, <1>2, <1>3, <1>4, <1>5, <1>6, <1>7 DEF Next

-----------------------------------------------------------------------------
(***************************************************************************)
(* The tree                                                                *)
(***************************************************************************)

\* The elements of a sequence none of which is in it twice.
LEMMA HeadAside ==
    ASSUME NEW S, NEW s \in Seq(S), s # <<>>, IsInjective(s)
    PROVE  /\ Head(s) \in ToSet(s)
           /\ ToSet(Tail(s)) = ToSet(s) \ {Head(s)}
           /\ IsInjective(Tail(s))
<1> DEFINE r == Tail(s)
<1>1. /\ DOMAIN s = 1 .. Len(s) /\ Len(s) \in Nat /\ Len(s) > 0 /\ Head(s) = s[1]
  BY LenProperties, EmptySeq, HeadTailProperties
<1>2. /\ DOMAIN r = 1 .. Len(s) - 1
      /\ \A k \in 1 .. Len(s) - 1 : r[k] = s[k + 1]
  BY <1>1, HeadTailProperties, LenProperties
<1> HIDE DEF r
<1>3. \A k \in 1 .. Len(s) - 1 : k + 1 \in 1 .. Len(s) /\ k + 1 # 1
  BY <1>1
<1>4. \A k \in 1 .. Len(s) : k # 1 => k - 1 \in 1 .. Len(s) - 1 /\ (k - 1) + 1 = k
  BY <1>1
<1>5. ToSet(r) \subseteq ToSet(s) \ {s[1]}
  BY <1>1, <1>2, <1>3 DEF ToSet, IsInjective
<1>6. ASSUME NEW x \in ToSet(s), x # s[1] PROVE x \in ToSet(r)
  <2>1. PICK k \in 1 .. Len(s) : x = s[k]
    BY <1>1 DEF ToSet
  <2>2. k - 1 \in 1 .. Len(s) - 1 /\ r[k - 1] = x
    BY <1>2, <1>4, <1>6, <2>1
  <2> QED BY <1>2, <2>2 DEF ToSet
<1>7. IsInjective(r)
  <2> SUFFICES ASSUME NEW k \in DOMAIN r, NEW m \in DOMAIN r, r[k] = r[m] PROVE k = m
    BY DEF IsInjective
  <2>1. s[k + 1] = s[m + 1] /\ k + 1 \in DOMAIN s /\ m + 1 \in DOMAIN s
    BY <1>1, <1>2, <1>3
  <2>2. k + 1 = m + 1
    BY <2>1 DEF IsInjective
  <2> QED BY <1>1, <1>2, <2>2
<1>8. s[1] \in ToSet(s)
  BY <1>1 DEF ToSet
<1> QED BY <1>1, <1>5, <1>6, <1>7, <1>8 DEF r

LEMMA BothApart ==
    ASSUME NEW S, NEW s \in Seq(S), NEW r \in Seq(S)
    PROVE  /\ ToSet(s \o r) = ToSet(s) \cup ToSet(r)
           /\ IsInjective(s) /\ IsInjective(r) /\ ToSet(s) \cap ToSet(r) = {} =>
                 IsInjective(s \o r)
<1> DEFINE b == s \o r
<1>1. /\ DOMAIN s = 1 .. Len(s) /\ Len(s) \in Nat
      /\ DOMAIN r = 1 .. Len(r) /\ Len(r) \in Nat
      /\ DOMAIN b = 1 .. Len(s) + Len(r)
      /\ \A k \in 1 .. Len(s) + Len(r) : b[k] = IF k <= Len(s) THEN s[k] ELSE r[k - Len(s)]
  BY ConcatProperties, LenProperties
<1> HIDE DEF b
<1>2. /\ \A k \in DOMAIN s : k \in DOMAIN b /\ b[k] = s[k]
      /\ \A k \in DOMAIN r : k + Len(s) \in DOMAIN b /\ b[k + Len(s)] = r[k]
  <2>1. \A k \in DOMAIN s : k \in DOMAIN b /\ b[k] = s[k]
    BY <1>1
  <2>2. ASSUME NEW k \in DOMAIN r PROVE k + Len(s) \in DOMAIN b /\ b[k + Len(s)] = r[k]
    <3>1. k + Len(s) \in 1 .. Len(s) + Len(r) /\ ~ (k + Len(s) <= Len(s)) /\ (k + Len(s)) - Len(s) = k
      BY <1>1
    <3> QED BY <1>1, <3>1
  <2> QED BY <2>1, <2>2
<1>3. ASSUME NEW k \in DOMAIN b
      PROVE  \/ k \in DOMAIN s /\ b[k] = s[k] /\ k <= Len(s)
             \/ k - Len(s) \in DOMAIN r /\ b[k] = r[k - Len(s)] /\ ~ (k <= Len(s))
  BY <1>1
<1>4. ToSet(b) \subseteq ToSet(s) \cup ToSet(r)
  BY <1>3 DEF ToSet
<1>5. ToSet(s) \cup ToSet(r) \subseteq ToSet(b)
  BY <1>2 DEF ToSet
<1>6. ASSUME IsInjective(s), IsInjective(r), ToSet(s) \cap ToSet(r) = {}
      PROVE  IsInjective(b)
  <2> SUFFICES ASSUME NEW k \in DOMAIN b, NEW m \in DOMAIN b, b[k] = b[m] PROVE k = m
    BY DEF IsInjective
  <2>1. CASE k \in DOMAIN s /\ b[k] = s[k] /\ m \in DOMAIN s /\ b[m] = s[m]
    BY <1>6, <2>1 DEF IsInjective
  <2>2. CASE /\ k - Len(s) \in DOMAIN r /\ b[k] = r[k - Len(s)]
             /\ m - Len(s) \in DOMAIN r /\ b[m] = r[m - Len(s)]
    <3>1. k - Len(s) = m - Len(s)
      BY <1>6, <2>2 DEF IsInjective
    <3> QED BY <1>1, <3>1
  <2>3. ASSUME NEW i \in DOMAIN s, NEW j \in DOMAIN r PROVE s[i] # r[j]
    <3>1. s[i] \in ToSet(s) /\ r[j] \in ToSet(r)
      BY DEF ToSet
    <3> QED BY <1>6, <3>1
  <2> QED BY <1>3, <2>1, <2>2, <2>3
<1> QED BY <1>4, <1>5, <1>6 DEF b

LEMMA OneMore ==
    ASSUME NEW S, NEW s \in Seq(S), NEW e \in S
    PROVE  /\ ToSet(Append(s, e)) = ToSet(s) \cup {e}
           /\ IsInjective(s) /\ e \notin ToSet(s) => IsInjective(Append(s, e))
<1> DEFINE b == Append(s, e)
<1>1. /\ DOMAIN s = 1 .. Len(s) /\ Len(s) \in Nat
      /\ DOMAIN b = 1 .. Len(s) + 1 /\ b[Len(s) + 1] = e
      /\ \A k \in 1 .. Len(s) : b[k] = s[k]
  BY AppendProperties, LenProperties
<1> HIDE DEF b
<1>2. \A k \in DOMAIN b : k \in DOMAIN s \/ k = Len(s) + 1
  BY <1>1
<1>3. ToSet(b) = ToSet(s) \cup {e}
  BY <1>1, <1>2 DEF ToSet
<1>4. ASSUME IsInjective(s), e \notin ToSet(s) PROVE IsInjective(b)
  <2> SUFFICES ASSUME NEW k \in DOMAIN b, NEW m \in DOMAIN b, b[k] = b[m] PROVE k = m
    BY DEF IsInjective
  <2>1. \A j \in DOMAIN s : s[j] # e
    BY <1>4 DEF ToSet
  <2> QED BY <1>1, <1>2, <1>4, <2>1 DEF IsInjective
<1> QED BY <1>3, <1>4 DEF b

\* What the generations in gs hold, and what there is when the pages are P.
Children(gs, i) == ToSet(gs[i].c)
Made(gs) == {i \in Nodes : gs[i] # Null}
All(gs, P) == {PageRef(f) : f \in P} \cup {GenRef(i) : i \in Made(gs)}

\* No slot points to what was not made or to the root, and no two slots to the
\* same node: so much survives a process that dies anywhere.
Form(gs, P) ==
    /\ \A i \in Made(gs) : Len(gs[i].c) <= GENERATION_CHILDREN /\ IsInjective(gs[i].c)
    /\ \A i, j \in Made(gs) : \A r \in Children(gs, i) : r \in Children(gs, j) => i = j
    /\ \A i \in Made(gs) : Children(gs, i) \subseteq All(gs, P) \ {GenRef(root)}

\* Everything is held, and no part of the tree is cut off from its root.
Whole(gs, P) ==
    /\ \A f \in P : \E i \in Made(gs) : PageRef(f) \in Children(gs, i)
    /\ \A S \in SUBSET (Made(gs) \ {root}) : S # {} =>
          \E i \in Made(gs) \ S : \E j \in S : GenRef(j) \in Children(gs, i)

LEMMA RefsDiffer ==
    /\ \A a, b : GenRef(a) = GenRef(b) => a = b
    /\ \A a, b : PageRef(a) = PageRef(b) => a = b
    /\ \A a, b : GenRef(a) # PageRef(b)
    /\ \A a : GenRef(a).type = "generation" /\ GenRef(a).at = a
    /\ \A a : PageRef(a).type = "page" /\ PageRef(a).at = a
<1>1. /\ \A a : GenRef(a).type = "generation" /\ GenRef(a).at = a
      /\ \A a : PageRef(a).type = "page" /\ PageRef(a).at = a
  BY DEF GenRef, PageRef
<1>2. "page" # "generation"
  OBVIOUS
<1> QED BY <1>1, <1>2

LEMMA AllIs ==
    ASSUME NEW gs \in GensType, NEW P \in SUBSET Frames
    PROVE  /\ All(gs, P) \subseteq Ref
           /\ \A r \in All(gs, P) :
                 \/ r.type = "generation" /\ r.at \in Made(gs) /\ r = GenRef(r.at)
                 \/ r.type = "page" /\ r.at \in P /\ r = PageRef(r.at)
<1>1. \A f \in P : PageRef(f) \in Ref
  BY DEF PageRef, Ref
<1>2. \A i \in Made(gs) : GenRef(i) \in Ref
  BY DEF GenRef, Ref, Made
<1>3. All(gs, P) \subseteq Ref
  BY <1>1, <1>2 DEF All
<1>4. ASSUME NEW r \in All(gs, P)
      PROVE  \/ r.type = "generation" /\ r.at \in Made(gs) /\ r = GenRef(r.at)
             \/ r.type = "page" /\ r.at \in P /\ r = PageRef(r.at)
  <2>1. CASE \E f \in P : r = PageRef(f)
    BY <2>1, RefsDiffer
  <2>2. CASE \E i \in Made(gs) : r = GenRef(i)
    BY <2>2, RefsDiffer
  <2> QED BY <2>1, <2>2 DEF All
<1> QED BY <1>3, <1>4

\* A walk that has called back for V: what it has still to visit is what V
\* points to beyond V, and nothing is called back for twice.
Seen(gs, P, type, w, V) ==
    /\ V \in SUBSET All(gs, P)
    /\ IsInjective(w.todo) /\ ToSet(w.todo) \subseteq All(gs, P) \ V
    /\ GenRef(root) \in V \cup ToSet(w.todo)
    /\ \A i \in Made(gs) : GenRef(i) \in V => Children(gs, i) \subseteq V \cup ToSet(w.todo)
    /\ \A i \in Made(gs) : \A r \in Children(gs, i) :
          r \in V \cup ToSet(w.todo) => GenRef(i) \in V
    /\ Len(w.met) = Cardinality({r \in V : r.type = type})

\* The call back for ref.
LEMMA SeenStep ==
    ASSUME NEW gs, Closed(gs), NEW P \in SUBSET Frames, Form(gs, P), IsFiniteSet(All(gs, P)),
           NEW type, NEW w \in Walking(gs), NEW V, Seen(gs, P, type, w, V), w.todo # <<>>
    PROVE  /\ Head(w.todo) \in All(gs, P) \ V
           /\ Seen(gs, P, type, Visit(gs, MaxGen, type)[w], V \cup {Head(w.todo)})
<1> DEFINE ref   == Head(w.todo)
           rest  == Tail(w.todo)
           todo  == ToSet(w.todo)
           below == IF ref.type = "generation" THEN gs[ref.at].c ELSE <<>>
           u     == Visit(gs, MaxGen, type)[w]
           V2    == V \cup {ref}
           all   == All(gs, P)
<1>1. w \in WalkState /\ w.todo \in Seq(Ref) /\ w.met \in Seq(Nat)
  BY DEF Walking, WalkState
<1>2. /\ ref \in Ref /\ rest \in Seq(Ref)
      /\ ref \in todo /\ ToSet(rest) = todo \ {ref} /\ IsInjective(rest)
  <2>1. ref \in Ref /\ rest \in Seq(Ref)
    BY <1>1, HeadTailProperties
  <2>2. IsInjective(w.todo)
    BY DEF Seen
  <2>3. ref \in todo /\ ToSet(rest) = todo \ {ref} /\ IsInjective(rest)
    BY <1>1, <2>2, HeadAside
  <2> QED BY <2>1, <2>3
<1>3. /\ V \subseteq all /\ todo \subseteq all \ V
      /\ GenRef(root) \in V \cup todo
      /\ \A i \in Made(gs) : GenRef(i) \in V => Children(gs, i) \subseteq V \cup todo
      /\ \A i \in Made(gs) : \A r \in Children(gs, i) : r \in V \cup todo => GenRef(i) \in V
      /\ Len(w.met) = Cardinality({r \in V : r.type = type})
  BY DEF Seen
<1>4. ref \in all \ V
  BY <1>2, <1>3
<1>5. gs \in GensType
  BY DEF Closed
<1>6. \/ ref.type = "generation" /\ ref.at \in Made(gs) /\ ref = GenRef(ref.at)
      \/ ref.type = "page" /\ ref.at \in P /\ ref = PageRef(ref.at)
  BY <1>4, <1>5, AllIs
<1>7. u = [todo |-> below \o rest,
           met  |-> IF ref.type = type THEN Append(w.met, ref.at) ELSE w.met]
  <2>1. ref.type = "generation" => ~ (gs[ref.at].gen > MaxGen)
    BY <1>5, <1>6 DEF Made, GensType, Generation
  <2> QED BY <1>1, <2>1 DEF Visit
<1> HIDE DEF ref, rest, todo, u, all
<1>8. /\ below \in Seq(Ref) /\ IsInjective(below)
      /\ ref.type = "generation" => ToSet(below) = Children(gs, ref.at)
      /\ ref.type # "generation" => ToSet(below) = {}
  <2>1. CASE ref.type = "generation"
    <3>1. gs[ref.at].c \in Seq(Ref)
      BY <1>5, <1>6, <2>1 DEF Made, GensType, Generation
    <3> QED BY <1>6, <2>1, <3>1 DEF Form, Children
  <2>2. CASE ref.type # "generation"
    <3>1. <<>> \in Seq(Ref) /\ IsInjective(<<>>) /\ ToSet(<<>>) = {}
      BY EmptySeq DEF IsInjective, ToSet
    <3> QED BY <2>2, <3>1
  <2> QED BY <2>1, <2>2
<1> HIDE DEF below
<1>9. ASSUME NEW r \in ToSet(below)
      PROVE  r \in all /\ r \notin V \cup todo /\ ref = GenRef(ref.at) /\ ref.at \in Made(gs)
             /\ r \in Children(gs, ref.at)
  <2>1. ref.type = "generation" /\ r \in Children(gs, ref.at) /\ ref.at \in Made(gs)
        /\ ref = GenRef(ref.at)
    BY <1>6, <1>8
  <2>2. r \in all
    BY <2>1 DEF Form, all
  <2>3. r \notin V \cup todo
    BY <1>3, <1>4, <2>1
  <2> QED BY <2>1, <2>2, <2>3
<1>10. /\ u.todo \in Seq(Ref) /\ ToSet(u.todo) = ToSet(below) \cup (todo \ {ref})
       /\ IsInjective(u.todo)
  <2>1. u.todo = below \o rest
    BY <1>7
  <2>2. ToSet(below) \cap ToSet(rest) = {}
    BY <1>2, <1>9
  <2>3. ToSet(below \o rest) = ToSet(below) \cup ToSet(rest)
    BY <1>2, <1>8, BothApart
  <2>4. IsInjective(below \o rest)
    BY <1>2, <1>8, <2>2, BothApart
  <2>5. below \o rest \in Seq(Ref)
    BY <1>2, <1>8, ConcatProperties
  <2> QED BY <1>2, <2>1, <2>3, <2>4, <2>5
<1>11. V2 \cup ToSet(u.todo) = V \cup todo \cup ToSet(below)
  BY <1>2, <1>10
<1>12. V2 \subseteq all /\ ToSet(u.todo) \subseteq all \ V2
  BY <1>2, <1>3, <1>4, <1>9, <1>10
<1>13. GenRef(root) \in V2 \cup ToSet(u.todo)
  BY <1>3, <1>11
<1>14. ASSUME NEW i \in Made(gs), GenRef(i) \in V2
       PROVE  Children(gs, i) \subseteq V2 \cup ToSet(u.todo)
  <2>1. CASE GenRef(i) \in V
    BY <1>3, <1>11, <2>1
  <2>2. CASE GenRef(i) = ref
    <3>1. ref.type = "generation" /\ ref.at = i
      BY <2>2, RefsDiffer
    <3> QED BY <1>8, <1>11, <3>1
  <2> QED BY <1>14, <2>1, <2>2
<1>15. ASSUME NEW i \in Made(gs), NEW r \in Children(gs, i), r \in V2 \cup ToSet(u.todo)
       PROVE  GenRef(i) \in V2
  <2>1. CASE r \in V \cup todo
    BY <1>3, <2>1
  <2>2. CASE r \in ToSet(below)
    <3>1. ref = GenRef(ref.at) /\ ref.at \in Made(gs) /\ r \in Children(gs, ref.at)
      BY <1>9, <2>2
    <3>2. ref.at = i
      BY <3>1 DEF Form
    <3> QED BY <3>1, <3>2
  <2> QED BY <1>11, <1>15, <2>1, <2>2
<1>16. Len(u.met) = Cardinality({r \in V2 : r.type = type})
  <2> DEFINE old == {r \in V : r.type = type}
  <2>1. IsFiniteSet(old) /\ Cardinality(old) \in Nat /\ ref \notin old
    <3>1. old \in SUBSET all
      BY <1>3
    <3>2. IsFiniteSet(old)
      <4> HIDE DEF old
      <4> QED BY <3>1, FS_Subset DEF all
    <3> QED BY <1>4, <3>2, FS_CardinalityType
  <2>2. CASE ref.type = type
    <3>1. {r \in V2 : r.type = type} = old \cup {ref}
      BY <2>2
    <3>2. Cardinality(old \cup {ref}) = Cardinality(old) + 1
      <4> HIDE DEF old
      <4> QED BY <2>1, FS_AddElement
    <3>3. ref.at \in Nat
      BY <1>2 DEF Ref, Nodes, Frames
    <3>4. Len(Append(w.met, ref.at)) = Len(w.met) + 1
      BY <1>1, <3>3, AppendProperties
    <3>5. u.met = Append(w.met, ref.at)
      BY <1>7, <2>2
    <3> QED BY <1>3, <3>1, <3>2, <3>4, <3>5
  <2>3. CASE ref.type # type
    <3>1. {r \in V2 : r.type = type} = old
      BY <2>3
    <3>2. u.met = w.met
      BY <1>7, <2>3
    <3> QED BY <1>3, <3>1, <3>2
  <2> QED BY <2>2, <2>3
<1> HIDE DEF V2
<1>17. Seen(gs, P, type, u, V2)
  BY <1>10, <1>12, <1>13, <1>14, <1>15, <1>16 DEF Seen, all
<1> QED BY <1>4, <1>17 DEF u, V2, ref, all

\* There are no more nodes than slots, and the root.
LEMMA AllFit ==
    ASSUME NEW gs \in GensType, NEW P \in SUBSET Frames, Form(gs, P), Whole(gs, P)
    PROVE  IsFiniteSet(All(gs, P)) /\ Cardinality(All(gs, P)) <= Visits
<1> DEFINE slots == Nodes \X (1 .. GENERATION_CHILDREN)
           held  == [s \in slots |-> IF gs[s[1]] # Null /\ s[2] \in DOMAIN gs[s[1]].c
                                     THEN gs[s[1]].c[s[2]] ELSE GenRef(root)]
           refs  == {held[s] : s \in slots}
<1>1. IsFiniteSet(Nodes) /\ Cardinality(Nodes) = MaxNodes
  <2>1. 0 \in Int /\ MaxNodes - 1 \in Int /\ ~ (0 > MaxNodes - 1) /\ (MaxNodes - 1) - 0 + 1 = MaxNodes
    OBVIOUS
  <2> QED BY <2>1, FS_Interval DEF Nodes
<1>2. /\ IsFiniteSet(1 .. GENERATION_CHILDREN)
      /\ Cardinality(1 .. GENERATION_CHILDREN) = GENERATION_CHILDREN
  <2>1. /\ 1 \in Int /\ GENERATION_CHILDREN \in Int /\ ~ (1 > GENERATION_CHILDREN)
        /\ GENERATION_CHILDREN - 1 + 1 = GENERATION_CHILDREN
    OBVIOUS
  <2> QED BY <2>1, FS_Interval
<1>3. IsFiniteSet(slots) /\ Cardinality(slots) = MaxNodes * GENERATION_CHILDREN
  BY <1>1, <1>2, FS_Product
<1>4. IsFiniteSet(refs) /\ Cardinality(refs) <= Cardinality(slots)
  <2>1. held \in Surjection(slots, refs)
    <3> HIDE DEF slots
    <3> QED BY DEF Surjection
  <2> HIDE DEF held, refs, slots
  <2> QED BY <1>3, <2>1, FS_Surjection
<1>5. Cardinality(refs) \in Nat /\ Cardinality(slots) \in Nat
  <2> HIDE DEF slots, refs
  <2> QED BY <1>3, <1>4, FS_CardinalityType
<1>6. /\ IsFiniteSet(refs \cup {GenRef(root)})
      /\ Cardinality(refs \cup {GenRef(root)}) <= Cardinality(refs) + 1
      /\ Cardinality(refs \cup {GenRef(root)}) \in Nat
  <2> DEFINE more == refs \cup {GenRef(root)}
  <2> HIDE DEF refs
  <2>1. IsFiniteSet(more)
    BY <1>4, FS_AddElement
  <2>2. Cardinality(more) = IF GenRef(root) \in refs THEN Cardinality(refs) ELSE Cardinality(refs) + 1
    BY <1>4, FS_AddElement
  <2> HIDE DEF more
  <2>3. Cardinality(more) <= Cardinality(refs) + 1 /\ Cardinality(more) \in Nat
    BY <1>5, <2>2
  <2> QED BY <2>1, <2>3 DEF more
<1>7. ASSUME NEW i \in Made(gs), NEW r \in Children(gs, i) PROVE r \in refs
  <2>1. gs[i].c \in Seq(Ref) /\ i \in Nodes /\ gs[i] # Null
    BY DEF Made, GensType, Generation
  <2>2. PICK k \in DOMAIN gs[i].c : r = gs[i].c[k]
    BY DEF Children, ToSet
  <2>3. k \in 1 .. GENERATION_CHILDREN
    <3>1. DOMAIN gs[i].c = 1 .. Len(gs[i].c) /\ Len(gs[i].c) \in Nat
      BY <2>1, LenProperties
    <3>2. Len(gs[i].c) <= GENERATION_CHILDREN
      BY DEF Form
    <3> QED BY <3>1, <3>2
  <2>4. <<i, k>> \in slots /\ held[<<i, k>>] = r
    BY <2>1, <2>2, <2>3
  <2> HIDE DEF slots, held
  <2> QED BY <2>4
<1>8. All(gs, P) \subseteq refs \cup {GenRef(root)}
  <2> SUFFICES ASSUME NEW r \in All(gs, P), r # GenRef(root) PROVE r \in refs
    OBVIOUS
  <2> HIDE DEF refs
  <2>1. CASE \E f \in P : r = PageRef(f)
    BY <1>7, <2>1 DEF Whole
  <2>2. ASSUME NEW i \in Made(gs), r = GenRef(i) PROVE r \in refs
    <3>1. {i} \in SUBSET (Made(gs) \ {root}) /\ {i} # {}
      BY <2>2
    <3>2. PICK j \in Made(gs) : \E m \in {i} : GenRef(m) \in Children(gs, j)
      BY <3>1 DEF Whole
    <3> QED BY <1>7, <2>2, <3>2
  <2> QED BY <2>1, <2>2 DEF All
<1>9. IsFiniteSet(All(gs, P)) /\ Cardinality(All(gs, P)) <= Cardinality(refs \cup {GenRef(root)})
      /\ Cardinality(All(gs, P)) \in Nat
  <2> HIDE DEF refs
  <2> QED BY <1>6, <1>8, FS_Subset, FS_CardinalityType
<1>10. Visits = MaxNodes * GENERATION_CHILDREN + 1
  BY DEF Visits
<1> HIDE DEF refs, slots
<1>11. MaxNodes * GENERATION_CHILDREN \in Nat
  BY <1>3, <1>5
<1> DEFINE prod == MaxNodes * GENERATION_CHILDREN
<1> HIDE DEF prod
<1>12. /\ Visits = prod + 1 /\ prod \in Nat /\ Cardinality(slots) = prod
       /\ Cardinality(refs) <= prod
  BY <1>3, <1>4, <1>10, <1>11 DEF prod
<1> QED BY <1>5, <1>6, <1>9, <1>12

\* A walk from the root of a whole tree, one call back after the other.
SeenUpTo(gs, P, type) ==
    {wn \in WalkState \X Nat :
        \E V \in SUBSET All(gs, P) :
            /\ Seen(gs, P, type, wn[1], V)
            /\ wn[1].todo # <<>> => Cardinality(V) = wn[2]}

\* It meets all the nodes there are.
LEMMA WalkMeetsAll ==
    ASSUME NEW gs, Closed(gs), NEW P \in SUBSET Frames, Form(gs, P), Whole(gs, P),
           gs[root] # Null, NEW type
    PROVE  Len(Walk(gs, root, MaxGen, type)) = Cardinality({r \in All(gs, P) : r.type = type})
<1> DEFINE all == All(gs, P)
           U   == Walking(gs)
           F   == Visit(gs, MaxGen, type)
           x   == [todo |-> <<GenRef(root)>>, met |-> <<>>]
           G   == [n \in Nat |-> n + 1]
           R   == SeenUpTo(gs, P, type)
           v   == [n \in 0 .. Visits |-> n]
<1>1. gs \in GensType /\ root \in Nodes /\ Visits \in Nat
  BY VisitsType DEF Closed, root, Nodes
<1>2. IsFiniteSet(all) /\ Cardinality(all) <= Visits /\ Cardinality(all) \in Nat
  BY <1>1, AllFit, FS_CardinalityType
<1>3. PICK w \in Walks(gs, root, MaxGen, type) : Walk(gs, root, MaxGen, type) = w[Visits].met
  BY <1>1, WalkIs
<1>4. w \in Iterates(U, F, x, Visits)
  BY <1>3 DEF Walks
<1>5. v \in Iterates(Nat, G, 0, Visits)
  <2>1. v \in [0 .. Visits -> Nat] /\ v[0] = 0
    BY <1>1
  <2>2. \A n \in 1 .. Visits : v[n] = n /\ v[n - 1] = n - 1 /\ n - 1 \in Nat /\ (n - 1) + 1 = n
    BY <1>1
  <2>3. \A n \in 1 .. Visits : v[n] = G[v[n - 1]]
    BY <2>2
  <2> HIDE DEF v, G
  <2> QED BY <2>1, <2>3 DEF Iterates
<1>6. <<x, 0>> \in R
  <2>1. <<GenRef(root)>> \in Seq(Ref) /\ <<>> \in Seq(Nat)
    BY <1>1 DEF GenRef, Ref
  <2>2. x \in WalkState
    BY <2>1 DEF WalkState
  <2>3. /\ IsInjective(x.todo) /\ ToSet(x.todo) = {GenRef(root)} /\ Len(x.met) = 0
    BY DEF IsInjective, ToSet
  <2>4. GenRef(root) \in all
    BY <1>1 DEF All, Made
  <2>5. \A i \in Made(gs) : \A r \in Children(gs, i) : r # GenRef(root)
    BY DEF Form
  <2>6. {r \in {} : r.type = type} = {} /\ Cardinality({}) = 0
    BY FS_EmptySet
  <2>7. Seen(gs, P, type, x, {})
    <3> HIDE DEF x
    <3> QED BY <2>3, <2>4, <2>5, <2>6 DEF Seen
  <2> HIDE DEF x
  <2> QED BY <2>2, <2>6, <2>7 DEF SeenUpTo
<1>7. Together(U, F, Nat, G, R)
  <2> SUFFICES ASSUME NEW a \in U, NEW n \in Nat, <<a, n>> \in R PROVE <<F[a], G[n]>> \in R
    BY DEF Together
  <2>1. PICK V \in SUBSET all : /\ Seen(gs, P, type, a, V)
                                /\ a.todo # <<>> => Cardinality(V) = n
    BY DEF SeenUpTo
  <2>2. F[a] \in WalkState /\ G[n] \in Nat /\ G[n] = n + 1
    BY VisitStays DEF Walking
  <2>3. CASE a.todo = <<>>
    <3>1. F[a] = a
      BY <2>3 DEF Visit, Walking
    <3> HIDE DEF F, G
    <3> QED BY <2>1, <2>2, <2>3, <3>1 DEF SeenUpTo
  <2>4. CASE a.todo # <<>>
    <3> DEFINE ref == Head(a.todo)
    <3>1. ref \in all \ V /\ Seen(gs, P, type, F[a], V \cup {ref})
      BY <1>2, <2>1, <2>4, SeenStep
    <3> HIDE DEF ref, F, G
    <3>2. Cardinality(V \cup {ref}) = n + 1
      <4>1. IsFiniteSet(V)
        BY <1>2, FS_Subset
      <4> QED BY <2>1, <2>4, <3>1, <4>1, FS_AddElement
    <3>3. V \cup {ref} \in SUBSET all
      BY <3>1
    <3> QED BY <2>2, <3>1, <3>2, <3>3 DEF SeenUpTo
  <2> QED BY <2>3, <2>4
<1>8. \A n \in 0 .. Visits : <<w[n], v[n]>> \in R
  <2> HIDE DEF U, F, G, R, v, x
  <2> QED BY <1>1, <1>4, <1>5, <1>6, <1>7, IteratesStayTogether, Zenon
<1>9. <<w[Visits], Visits>> \in R
  BY <1>1, <1>8
<1> DEFINE end == w[Visits]
<1> HIDE DEF end
<1>10. PICK V \in SUBSET all : /\ Seen(gs, P, type, end, V)
                               /\ end.todo # <<>> => Cardinality(V) = Visits
  BY <1>9 DEF SeenUpTo, end
<1>11. end \in Walking(gs)
  BY <1>1, <1>4 DEF Iterates, end
<1>12. end.todo = <<>>
  <2> SUFFICES ASSUME end.todo # <<>> PROVE FALSE
    OBVIOUS
  <2> DEFINE ref == Head(end.todo)
  <2>1. ref \in all \ V
    BY <1>2, <1>10, <1>11, SeenStep
  <2> HIDE DEF ref
  <2>2. IsFiniteSet(V) /\ Cardinality(V \cup {ref}) = Visits + 1
    <3>1. IsFiniteSet(V)
      BY <1>2, FS_Subset
    <3> QED BY <1>10, <2>1, <3>1, FS_AddElement
  <2>3. V \cup {ref} \in SUBSET all
    BY <2>1
  <2>4. Cardinality(V \cup {ref}) <= Cardinality(all)
    BY <1>2, <2>3, FS_Subset
  <2> QED BY <1>1, <1>2, <2>2, <2>4
<1>13. /\ GenRef(root) \in V
       /\ \A i \in Made(gs) : GenRef(i) \in V => Children(gs, i) \subseteq V
       /\ Len(end.met) = Cardinality({r \in V : r.type = type})
  <2>1. ToSet(end.todo) = {}
    BY <1>12 DEF ToSet
  <2> QED BY <1>10, <2>1 DEF Seen
<1>14. \A i \in Made(gs) : GenRef(i) \in V
  <2> DEFINE S == {i \in Made(gs) : GenRef(i) \notin V}
  <2> SUFFICES ASSUME S # {} PROVE FALSE
    OBVIOUS
  <2>1. S \in SUBSET (Made(gs) \ {root})
    BY <1>13
  <2>2. PICK i \in Made(gs) \ S : \E j \in S : GenRef(j) \in Children(gs, i)
    <3> HIDE DEF S
    <3> QED BY <2>1 DEF Whole
  <2> QED BY <1>13, <2>2
<1>15. \A f \in P : PageRef(f) \in V
  BY <1>13, <1>14 DEF Whole
<1>16. V = all
  BY <1>14, <1>15 DEF All
<1> QED BY <1>3, <1>13, <1>16 DEF end

\* More pages than are held.
LEMMA FormWidens ==
    ASSUME NEW gs, NEW P, NEW Q, P \subseteq Q, Form(gs, P)
    PROVE  Form(gs, Q)
<1>1. All(gs, P) \subseteq All(gs, Q)
  BY DEF All
<1> QED BY <1>1 DEF Form

\* More generations, that are held, and more pages, that are held.
LEMMA WholeGrows ==
    ASSUME NEW gs, NEW P, Whole(gs, P), NEW new, NEW Q,
           \A i \in Made(gs) : i \in Made(new) /\ Children(gs, i) \subseteq Children(new, i),
           \A j \in Made(new) \ Made(gs) : \E t \in Made(gs) : GenRef(j) \in Children(new, t),
           \A f \in Q \ P : \E t \in Made(new) : PageRef(f) \in Children(new, t)
    PROVE  Whole(new, Q)
<1>1. ASSUME NEW f \in Q PROVE \E i \in Made(new) : PageRef(f) \in Children(new, i)
  <2>1. CASE f \in P
    <3>1. PICK i \in Made(gs) : PageRef(f) \in Children(gs, i)
      BY <2>1 DEF Whole
    <3> QED BY <3>1
  <2> QED BY <2>1
<1>2. ASSUME NEW S \in SUBSET (Made(new) \ {root}), S # {}
      PROVE  \E i \in Made(new) \ S : \E j \in S : GenRef(j) \in Children(new, i)
  <2> DEFINE T == S \cap Made(gs)
  <2>1. CASE T # {}
    <3>1. T \in SUBSET (Made(gs) \ {root})
      OBVIOUS
    <3>2. PICK i \in Made(gs) \ T : \E j \in T : GenRef(j) \in Children(gs, i)
      <4> HIDE DEF T
      <4> QED BY <2>1, <3>1 DEF Whole
    <3> QED BY <3>2
  <2>2. CASE T = {}
    <3>1. PICK j \in S : TRUE
      BY <1>2
    <3>2. j \in Made(new) \ Made(gs)
      BY <2>2, <3>1
    <3>3. PICK t \in Made(gs) : GenRef(j) \in Children(new, t)
      BY <3>2
    <3> QED BY <2>2, <3>3
  <2> QED BY <2>1, <2>2
<1> QED BY <1>1, <1>2 DEF Whole

\* A node that no slot points to yet gets the slot found.
LEMMA AttachForm ==
    ASSUME NEW slot, slot.gens \in GensType, Found(slot), NEW ref \in Ref,
           NEW P, NEW Q, P \subseteq Q, Form(slot.gens, P),
           Len(slot.gens[slot.target].c) < GENERATION_CHILDREN,
           ref \in All(slot.gens, Q) \ {GenRef(root)},
           \A i \in Made(slot.gens) : ref \notin Children(slot.gens, i)
    PROVE  LET new == Attach(slot, ref)
           IN  /\ Form(new, Q)
               /\ Made(new) = Made(slot.gens)
               /\ \A i \in Made(slot.gens) : Children(slot.gens, i) \subseteq Children(new, i)
               /\ slot.target \in Made(slot.gens) /\ ref \in Children(new, slot.target)
<1> DEFINE t   == slot.target
           old == slot.gens
           new == Attach(slot, ref)
<1>1. t \in Nodes /\ t \in Made(old) /\ old[t] \in Generation /\ old[t].c \in Seq(Ref)
  BY DEF Found, GensType, Generation, Made
<1>2. new = [old EXCEPT ![t].c = Append(@, ref)]
  BY DEF Attach
<1>3. Made(new) = Made(old)
  BY AttachType DEF Made
<1>t. /\ old \in GensType /\ Form(old, P) /\ Len(old[t].c) < GENERATION_CHILDREN
      /\ ref \in All(old, Q) \ {GenRef(root)}
      /\ \A i \in Made(old) : ref \notin Children(old, i)
  OBVIOUS
<1> HIDE DEF t, old, new
<1>4. new[t] = [old[t] EXCEPT !.c = Append(@, ref)] /\ \A j \in Nodes \ {t} : new[j] = old[j]
  BY <1>1, <1>2, <1>t DEF GensType
<1>5. new[t].c = Append(old[t].c, ref)
  BY <1>1, <1>4 DEF Generation
<1>6. /\ Children(new, t) = Children(old, t) \cup {ref}
      /\ IsInjective(new[t].c) /\ Len(new[t].c) <= GENERATION_CHILDREN
  <2>1. IsInjective(old[t].c) /\ ref \notin ToSet(old[t].c)
    BY <1>1, <1>t DEF Form, Children
  <2>2. ToSet(Append(old[t].c, ref)) = ToSet(old[t].c) \cup {ref}
    BY <1>1, OneMore
  <2>3. IsInjective(Append(old[t].c, ref))
    BY <1>1, <2>1, OneMore
  <2>4. Len(Append(old[t].c, ref)) = Len(old[t].c) + 1 /\ Len(old[t].c) \in Nat
    BY <1>1, AppendProperties, LenProperties
  <2> QED BY <1>5, <1>t, <2>2, <2>3, <2>4 DEF Children
<1>7. \A i \in Made(old) : i # t => /\ Children(new, i) = Children(old, i)
                                    /\ new[i] = old[i]
  BY <1>4 DEF Children, Made
<1>8. All(new, Q) = All(old, Q) /\ All(old, P) \subseteq All(old, Q)
  BY <1>3 DEF All
<1>9. ASSUME NEW i \in Made(new)
      PROVE  /\ Len(new[i].c) <= GENERATION_CHILDREN /\ IsInjective(new[i].c)
             /\ Children(new, i) \subseteq All(new, Q) \ {GenRef(root)}
  BY <1>3, <1>6, <1>7, <1>8, <1>t DEF Form
<1>10. ASSUME NEW i \in Made(new), NEW j \in Made(new),
              NEW r \in Children(new, i), r \in Children(new, j)
       PROVE  i = j
  <2>1. r \in Children(old, i) /\ r \in Children(old, j) => i = j
    BY <1>3, <1>t DEF Form
  <2> QED BY <1>3, <1>6, <1>7, <1>10, <1>t, <2>1
<1>11. Form(new, Q)
  BY <1>9, <1>10 DEF Form
<1>12. \A i \in Made(old) : Children(old, i) \subseteq Children(new, i)
  BY <1>6, <1>7
<1> QED BY <1>1, <1>3, <1>6, <1>11, <1>12 DEF t, old, new

\* A new generation has no slot and is in none.
LEMMA NewNodeForm ==
    ASSUME NEW gs \in GensType, NEW P, Form(gs, P), NEW n \in Nodes, gs[n] = Null, NEW id \in 0 .. MaxGen
    PROVE  LET new == [gs EXCEPT ![n] = NewGen(id)]
           IN  /\ Form(new, P)
               /\ Made(new) = Made(gs) \cup {n}
               /\ \A i \in Made(gs) : Children(new, i) = Children(gs, i) /\ i # n
               /\ Children(new, n) = {}
<1> DEFINE new == [gs EXCEPT ![n] = NewGen(id)]
<1>1. NewGen(id) # Null /\ NewGen(id).c = <<>>
  <2>1. NewGen(id) \in Generation
    <3>1. <<>> \in Seq(Ref)
      BY EmptySeq
    <3> QED BY <3>1 DEF NewGen, Generation
  <2> QED BY <2>1 DEF NewGen
<1>2. new[n] = NewGen(id) /\ \A i \in Nodes : i # n => new[i] = gs[i]
  BY DEF GensType
<1> HIDE DEF new
<1>3. Made(new) = Made(gs) \cup {n}
  BY <1>1, <1>2 DEF Made
<1>4. \A i \in Made(gs) : Children(new, i) = Children(gs, i) /\ i # n /\ new[i] = gs[i]
  BY <1>2 DEF Children, Made
<1>5. Children(new, n) = {} /\ new[n].c = <<>> /\ Len(new[n].c) <= GENERATION_CHILDREN
      /\ IsInjective(new[n].c)
  <2>1. ToSet(<<>>) = {} /\ IsInjective(<<>>) /\ Len(<<>>) = 0
    BY DEF ToSet, IsInjective
  <2> QED BY <1>1, <1>2, <2>1 DEF Children
<1>6. All(gs, P) \subseteq All(new, P)
  BY <1>3 DEF All
<1>7. Form(new, P)
  <2>1. \A i \in Made(new) : /\ Len(new[i].c) <= GENERATION_CHILDREN /\ IsInjective(new[i].c)
                             /\ Children(new, i) \subseteq All(new, P) \ {GenRef(root)}
    BY <1>3, <1>4, <1>5, <1>6 DEF Form
  <2>2. \A i, j \in Made(new) : \A r \in Children(new, i) : r \in Children(new, j) => i = j
    <3> SUFFICES ASSUME NEW i \in Made(new), NEW j \in Made(new),
                        NEW r \in Children(new, i), r \in Children(new, j)
                 PROVE  i = j
      OBVIOUS
    <3>1. i \in Made(gs) /\ j \in Made(gs)
      BY <1>3, <1>5
    <3> QED BY <1>4, <3>1 DEF Form
  <2> QED BY <2>1, <2>2 DEF Form
<1> QED BY <1>3, <1>4, <1>5, <1>7 DEF new

\* The node that goes between a generation and its children.
LEMMA SplitForm ==
    ASSUME NEW gs \in GensType, NEW P, Form(gs, P), NEW i \in Made(gs),
           NEW n \in Nodes, gs[n] = Null, n # root
    PROVE  LET new == NewGenBetween(gs, i, n)
           IN  /\ Form(new, P) /\ (Whole(gs, P) => Whole(new, P))
               /\ Made(new) = Made(gs) \cup {n}
               /\ Len(new[i].c) = 1
<1> DEFINE new == NewGenBetween(gs, i, n)
           g   == [gs[i] EXCEPT !.c = <<GenRef(n)>>]
<1>1. i \in Nodes /\ gs[i] \in Generation /\ i # n
  BY DEF Made, GensType
<1>2. new = [gs EXCEPT ![n] = gs[i], ![i] = g]
  BY <1>1 DEF NewGenBetween, GensType
<1>3. g.c = <<GenRef(n)>> /\ g # Null
  <2>1. <<GenRef(n)>> \in Seq(Ref)
    BY DEF Ref, GenRef
  <2>2. g \in Generation
    BY <1>1, <2>1 DEF Generation
  <2> QED BY <1>1, <2>2 DEF Generation
<1> HIDE DEF g, new
<1>4. /\ new[n] = gs[i] /\ new[i] = g
      /\ \A j \in Nodes : j # n /\ j # i => new[j] = gs[j]
  BY <1>1, <1>2 DEF GensType
<1>5. Made(new) = Made(gs) \cup {n}
  BY <1>1, <1>3, <1>4 DEF Made
<1>6. /\ Children(new, i) = {GenRef(n)} /\ Len(new[i].c) = 1 /\ IsInjective(new[i].c)
  <2>1. ToSet(<<GenRef(n)>>) = {GenRef(n)} /\ Len(<<GenRef(n)>>) = 1
    BY DEF ToSet
  <2>2. IsInjective(<<GenRef(n)>>)
    BY DEF IsInjective
  <2> QED BY <1>3, <1>4, <2>1, <2>2 DEF Children
<1>7. Children(new, n) = Children(gs, i)
  BY <1>4 DEF Children
<1>8. \A j \in Made(gs) : j # n /\ (j # i => Children(new, j) = Children(gs, j) /\ new[j] = gs[j])
  BY <1>4 DEF Children, Made
<1>9. \A j \in Made(gs) : GenRef(n) \notin Children(gs, j)
  <2>1. GenRef(n) \notin All(gs, P)
    <3>1. n \notin Made(gs)
      BY DEF Made
    <3> QED BY <3>1, RefsDiffer DEF All
  <2> QED BY <2>1 DEF Form
<1>10. GenRef(n) # GenRef(root) /\ GenRef(n) \in All(new, P) /\ All(gs, P) \subseteq All(new, P)
  BY <1>5, RefsDiffer DEF All
<1>11. ASSUME NEW j \in Made(new)
       PROVE  /\ Len(new[j].c) <= GENERATION_CHILDREN /\ IsInjective(new[j].c)
              /\ Children(new, j) \subseteq All(new, P) \ {GenRef(root)}
  <2>1. CASE j = i
    <3>1. Len(new[j].c) <= GENERATION_CHILDREN
      <4>1. Len(new[i].c) = 1
        BY <1>6
      <4>2. 1 <= GENERATION_CHILDREN
        OBVIOUS
      <4> QED BY <2>1, <4>1, <4>2
    <3>2. IsInjective(new[j].c) /\ Children(new, j) = {GenRef(n)}
      BY <1>6, <2>1
    <3> QED BY <1>10, <3>1, <3>2
  <2>2. CASE j = n
    <3>1. /\ Len(gs[i].c) <= GENERATION_CHILDREN /\ IsInjective(gs[i].c)
          /\ Children(gs, i) \subseteq All(gs, P) \ {GenRef(root)}
      BY DEF Form
    <3>2. new[j] = gs[i] /\ Children(new, j) = Children(gs, i)
      BY <1>4, <1>7, <2>2
    <3> QED BY <1>10, <3>1, <3>2
  <2>3. CASE j # i /\ j # n
    <3>1. j \in Made(gs)
      BY <1>5, <2>3
    <3> QED BY <1>8, <1>10, <2>3, <3>1 DEF Form
  <2> QED BY <2>1, <2>2, <2>3
<1>12. ASSUME NEW j \in Made(new), NEW k \in Made(new), NEW r \in Children(new, j),
              r \in Children(new, k)
       PROVE  j = k
  <2>1. ASSUME NEW m \in Made(new), r \in Children(new, m)
        PROVE  \/ m = i /\ r = GenRef(n)
               \/ m = n /\ r \in Children(gs, i)
               \/ m \in Made(gs) /\ m # i /\ r \in Children(gs, m)
    BY <1>5, <1>6, <1>7, <1>8, <2>1
  <2>2. /\ \/ j = i /\ r = GenRef(n)
           \/ j = n /\ r \in Children(gs, i)
           \/ j \in Made(gs) /\ j # i /\ r \in Children(gs, j)
        /\ \/ k = i /\ r = GenRef(n)
           \/ k = n /\ r \in Children(gs, i)
           \/ k \in Made(gs) /\ k # i /\ r \in Children(gs, k)
    BY <1>12, <2>1
  <2> QED BY <1>9, <2>2 DEF Form
<1>13. Form(new, P)
  BY <1>11, <1>12 DEF Form
<1>14. ASSUME Whole(gs, P) PROVE Whole(new, P)
  <2>1. ASSUME NEW f \in P PROVE \E t \in Made(new) : PageRef(f) \in Children(new, t)
    <3>1. PICK t \in Made(gs) : PageRef(f) \in Children(gs, t)
      BY <1>14 DEF Whole
    <3>2. CASE t = i
      BY <1>5, <1>7, <3>1, <3>2
    <3>3. CASE t # i
      BY <1>5, <1>8, <3>1, <3>3
    <3> QED BY <3>2, <3>3
  <2>2. ASSUME NEW S \in SUBSET (Made(new) \ {root}), S # {}
        PROVE  \E t \in Made(new) \ S : \E j \in S : GenRef(j) \in Children(new, t)
    <3>1. CASE n \in S /\ i \notin S
      BY <1>5, <1>6, <3>1
    <3>2. CASE n \in S /\ i \in S
      <4> DEFINE T == S \ {n}
      <4>1. T \in SUBSET (Made(gs) \ {root}) /\ T # {} /\ i \in T
        BY <1>1, <1>5, <3>2
      <4> HIDE DEF T
      <4>2. PICK t \in Made(gs) \ T : \E j \in T : GenRef(j) \in Children(gs, t)
        BY <1>14, <4>1 DEF Whole
      <4>3. t # n /\ t # i /\ t \in Made(new) /\ Children(new, t) = Children(gs, t)
        BY <1>5, <1>8, <4>1
      <4> QED BY <4>2, <4>3 DEF T
    <3>3. CASE n \notin S
      <4>1. S \in SUBSET (Made(gs) \ {root})
        BY <1>5, <3>3
      <4>2. PICK t \in Made(gs) \ S : \E j \in S : GenRef(j) \in Children(gs, t)
        BY <1>14, <2>2, <4>1 DEF Whole
      <4>3. CASE t = i
        BY <1>5, <1>7, <3>3, <4>2, <4>3
      <4>4. CASE t # i
        BY <1>5, <1>8, <4>2, <4>4
      <4> QED BY <4>3, <4>4
    <3> QED BY <3>1, <3>2, <3>3
  <2> QED BY <2>1, <2>2 DEF Whole
<1> QED BY <1>5, <1>6, <1>13, <1>14 DEF new

\* The slot that first_free_slot finds is free.
LEMMA SlotIsFree ==
    ASSUME NEW gs, Closed(gs), NEW i \in Nodes, gs[i] # Null, FirstFreeSlot(gs, i) # Null
    PROVE  Len(gs[FirstFreeSlot(gs, i)].c) < GENERATION_CHILDREN
<1> DEFINE s == GensIn(gs, i)
           passing == {k \in DOMAIN s : Len(gs[s[k]].c) < GENERATION_CHILDREN}
<1>1. FirstFreeSlot(gs, i) = IF passing = {} THEN Null ELSE s[Min(passing)]
  BY DEF FirstFreeSlot, FirstThat
<1>2. s \in Seq(Nat)
  <2>1. PICK w \in Walks(gs, i, MaxGen, "generation") :
             Walk(gs, i, MaxGen, "generation") = w[Visits].met
    BY WalkIs
  <2>2. w[Visits] \in Walking(gs)
    BY VisitsType DEF Walks, Iterates
  <2> QED BY <2>1, <2>2 DEF GensIn, Walking, WalkState
<1>3. passing \subseteq Nat
  <2> HIDE DEF s
  <2> QED BY <1>2, LenProperties
<1>4. passing # {}
  BY <1>1
<1>5. Min(passing) \in passing
  <2> HIDE DEF passing
  <2> QED BY <1>3, <1>4, MinIsOne
<1> QED BY <1>1, <1>4, <1>5

\* The search for a free slot finds one and loses nothing.
LEMMA SlotBelowForm ==
    ASSUME gens \in GensType, lastGen \in Nodes, GensInOrder, NEW i \in AllGens,
           Found(SlotBelow(i)), NEW P, Form(gens, P)
    PROVE  LET slot == SlotBelow(i)
           IN  /\ Form(slot.gens, P) /\ (Whole(gens, P) => Whole(slot.gens, P))
               /\ Len(slot.gens[slot.target].c) < GENERATION_CHILDREN
<1> DEFINE slot  == SlotBelow(i)
           split == NewGenBetween(gens, i, lastGen + 1)
<1>1. /\ slot.gens \in GensType /\ InOrder(slot.gens, slot.lastGen, lastGenIndex)
      /\ \A j \in AllGens : slot.gens[j] # Null
  BY SlotBelowOrder, SlotBelowType
<1>2. Closed(slot.gens)
  <2> HIDE DEF slot
  <2> QED BY <1>1 DEF InOrder, Closed
<1>3. slot.target \in Nodes /\ slot.gens[slot.target] # Null /\ slot.lastGen \in Nodes
  BY DEF Found
<1>4. i \in Nodes /\ i \in Made(gens) /\ slot.gens[i] # Null
  BY <1>1 DEF AllGens, Made
<1>5. slot.target = FirstFreeSlot(slot.gens, i)
  BY DEF SlotBelow
<1>6. slot.target # Null
  BY <1>3 DEF Nodes
<1>7. Len(slot.gens[slot.target].c) < GENERATION_CHILDREN
  <2> HIDE DEF slot
  <2> QED BY <1>2, <1>4, <1>5, <1>6, SlotIsFree
<1>8. CASE FirstFreeSlot(gens, i) # Null
  <2>1. slot.gens = gens
    BY <1>8 DEF SlotBelow
  <2> QED BY <1>7, <2>1
<1>9. CASE FirstFreeSlot(gens, i) = Null
  <2>1. slot.gens = split /\ slot.lastGen = lastGen + 1
    BY <1>9 DEF SlotBelow
  <2>2. lastGen + 1 \in Nodes /\ gens[lastGen + 1] = Null /\ lastGen + 1 # root
    BY <1>3, <2>1 DEF GensInOrder, InOrder, Nodes, root
  <2>3. Form(split, P) /\ (Whole(gens, P) => Whole(split, P))
    <3> HIDE DEF slot
    <3> QED BY <1>4, <2>2, SplitForm, Zenon
  <2> QED BY <1>7, <2>1, <2>3
<1> QED BY <1>8, <1>9

\* Pages that are moved, no two to the same frame.
LEMMA OverApart ==
    ASSUME NEW S, NEW T, NEW f \in [S -> T], NEW s \in Seq(S), IsInjective(s),
           \A a, b \in ToSet(s) : f[a] = f[b] => a = b
    PROVE  IsInjective(Over(s, f))
<1>1. DOMAIN Over(s, f) = DOMAIN s /\ \A k \in DOMAIN s : Over(s, f)[k] = f[s[k]]
  BY DEF Over
<1>2. \A k \in DOMAIN s : s[k] \in ToSet(s)
  BY DEF ToSet
<1> QED BY <1>1, <1>2 DEF IsInjective

LEMMA RelinkForm ==
    ASSUME NEW gs \in GensType, NEW moved \in [Frames -> Frames],
           NEW P \in SUBSET Frames, NEW Q, Q = {moved[f] : f \in P}, Form(gs, P),
           \A a, b \in P : moved[a] = moved[b] => a = b
    PROVE  LET new == Relink(gs, moved)
           IN  /\ Form(new, Q) /\ (Whole(gs, P) => Whole(new, Q))
               /\ Made(new) = Made(gs)
               /\ \A i \in Made(gs) : Len(new[i].c) = Len(gs[i].c)
<1> DEFINE new == Relink(gs, moved)
           h   == RefMap(moved)
<1>1. Made(new) = Made(gs)
  BY RelinkType DEF Made
<1>2. h \in [Ref -> Ref]
  BY RefMapType
<1>3. /\ \A i \in Made(gs) : GenRef(i) \in Ref /\ h[GenRef(i)] = GenRef(i)
      /\ \A f \in P : PageRef(f) \in Ref /\ h[PageRef(f)] = PageRef(moved[f])
  <2>1. /\ \A i \in Made(gs) : GenRef(i) \in Ref
        /\ \A f \in P : PageRef(f) \in Ref
    BY DEF Made, GenRef, PageRef, Ref
  <2>2. \A i \in Made(gs) : h[GenRef(i)] = GenRef(i)
    BY <2>1, RefMapType, RefsDiffer
  <2>3. \A f \in P : h[PageRef(f)] = PageRef(moved[f])
    BY <2>1 DEF RefMap, PageRef
  <2> QED BY <2>1, <2>2, <2>3
<1>4. /\ All(gs, P) \subseteq Ref
      /\ \A r \in All(gs, P) : \/ \E i \in Made(gs) : r = GenRef(i)
                               \/ \E f \in P : r = PageRef(f)
  BY AllIs DEF All
<1>5. \A i \in Made(gs) : new[i].c = Over(gs[i].c, h) /\ gs[i].c \in Seq(Ref)
  BY RelinkIs DEF Made, GensType, Generation
<1> HIDE DEF new, h
<1>6. \A a, b \in All(gs, P) : h[a] = h[b] => a = b
  <2> SUFFICES ASSUME NEW a \in All(gs, P), NEW b \in All(gs, P), h[a] = h[b] PROVE a = b
    OBVIOUS
  <2>1. CASE \E i \in Made(gs) : a = GenRef(i)
    <3>1. PICK i \in Made(gs) : a = GenRef(i)
      BY <2>1
    <3>2. h[b] = GenRef(i)
      BY <1>3, <3>1
    <3>3. ~ \E f \in P : b = PageRef(f)
      BY <1>3, <3>2, RefsDiffer
    <3> QED BY <1>3, <1>4, <3>1, <3>2, <3>3
  <2>2. CASE \E f \in P : a = PageRef(f)
    <3>1. PICK f \in P : a = PageRef(f)
      BY <2>2
    <3>2. h[b] = PageRef(moved[f])
      BY <1>3, <3>1
    <3>3. PICK e \in P : b = PageRef(e)
      BY <1>3, <1>4, <3>2, RefsDiffer
    <3>4. moved[f] = moved[e]
      BY <1>3, <3>2, <3>3, RefsDiffer
    <3> QED BY <3>1, <3>3, <3>4
  <2> QED BY <1>4, <2>1, <2>2
<1>7. ASSUME NEW i \in Made(gs)
      PROVE  /\ Children(new, i) = {h[r] : r \in Children(gs, i)}
             /\ IsInjective(new[i].c) /\ Len(new[i].c) = Len(gs[i].c)
  <2>1. IsInjective(gs[i].c) /\ ToSet(gs[i].c) \subseteq All(gs, P)
    BY DEF Form, Children
  <2>2. \A a, b \in ToSet(gs[i].c) : h[a] = h[b] => a = b
    BY <1>6, <2>1
  <2>3. /\ IsInjective(Over(gs[i].c, h)) /\ Len(Over(gs[i].c, h)) = Len(gs[i].c)
        /\ ToSet(Over(gs[i].c, h)) = {h[r] : r \in ToSet(gs[i].c)}
    <3> DEFINE s == gs[i].c
    <3>1. s \in Seq(Ref) /\ IsInjective(s) /\ \A a, b \in ToSet(s) : h[a] = h[b] => a = b
      BY <1>5, <2>1, <2>2
    <3> HIDE DEF s
    <3>2. IsInjective(Over(s, h))
      BY <1>2, <3>1, OverApart
    <3>3. Len(Over(s, h)) = Len(s)
      BY <3>1, OverLen
    <3>4. ToSet(Over(s, h)) = {h[r] : r \in ToSet(s)}
      BY DEF Over, ToSet
    <3> QED BY <3>2, <3>3, <3>4 DEF s
  <2>4. new[i].c = Over(gs[i].c, h)
    BY <1>5
  <2>5. Children(new, i) = {h[r] : r \in Children(gs, i)}
    BY <2>3, <2>4 DEF Children
  <2> QED BY <2>3, <2>4, <2>5
<1>8. \A r \in All(gs, P) : /\ h[r] \in All(new, Q)
                            /\ h[r] = GenRef(root) => r = GenRef(root)
  BY <1>1, <1>3, <1>4, RefsDiffer DEF All
<1>9. \A i \in Made(gs) : /\ Len(gs[i].c) <= GENERATION_CHILDREN
                          /\ Children(gs, i) \subseteq All(gs, P) \ {GenRef(root)}
  BY DEF Form
<1>10. Form(new, Q)
  <2>1. ASSUME NEW i \in Made(new)
        PROVE  /\ Len(new[i].c) <= GENERATION_CHILDREN /\ IsInjective(new[i].c)
               /\ Children(new, i) \subseteq All(new, Q) \ {GenRef(root)}
    BY <1>1, <1>7, <1>8, <1>9
  <2>2. ASSUME NEW i \in Made(new), NEW j \in Made(new), NEW r \in Children(new, i),
               r \in Children(new, j)
        PROVE  i = j
    <3>1. PICK a \in Children(gs, i) : r = h[a]
      BY <1>1, <1>7
    <3>2. PICK b \in Children(gs, j) : r = h[b]
      BY <1>1, <1>7, <2>2
    <3>3. a = b
      BY <1>1, <1>6, <1>9, <3>1, <3>2
    <3> QED BY <1>1, <3>3 DEF Form
  <2> QED BY <2>1, <2>2 DEF Form
<1>11. ASSUME Whole(gs, P) PROVE Whole(new, Q)
  <2>1. ASSUME NEW q \in Q PROVE \E i \in Made(new) : PageRef(q) \in Children(new, i)
    <3>1. PICK f \in P : q = moved[f]
      OBVIOUS
    <3>2. PICK i \in Made(gs) : PageRef(f) \in Children(gs, i)
      BY <1>11 DEF Whole
    <3> QED BY <1>1, <1>3, <1>7, <3>1, <3>2
  <2>2. ASSUME NEW S \in SUBSET (Made(new) \ {root}), S # {}
        PROVE  \E i \in Made(new) \ S : \E j \in S : GenRef(j) \in Children(new, i)
    <3>1. PICK i \in Made(gs) \ S : \E j \in S : GenRef(j) \in Children(gs, i)
      BY <1>1, <1>11, <2>2 DEF Whole
    <3>2. PICK j \in S : GenRef(j) \in Children(gs, i)
      BY <3>1
    <3>3. GenRef(j) \in Children(new, i)
      BY <1>1, <1>3, <1>7, <3>2
    <3> QED BY <1>1, <3>3
  <2> QED BY <2>1, <2>2 DEF Whole
<1> QED BY <1>1, <1>7, <1>10, <1>11 DEF new

-----------------------------------------------------------------------------
\* Of the file as it is.
HeldOnce    == Form(gens, AllPages)
NothingLost == Whole(gens, AllPages)

\* Steps that change no slot and move no page.
LEMMA SlotsKept ==
    ASSUME HeldOnce, AllPages' = AllPages, AllGens' = AllGens,
           \A i \in AllGens : gens'[i].c = gens[i].c
    PROVE  HeldOnce' /\ (NothingLost => NothingLost')
<1> DEFINE new == gens'
<1>1. Made(new) = Made(gens) /\ \A i \in Made(gens) : new[i].c = gens[i].c
  BY DEF Made, AllGens
<1>2. \A P : All(new, P) = All(gens, P)
  BY <1>1 DEF All
<1> HIDE DEF new
<1>3. \A i \in Made(gens) : Children(new, i) = Children(gens, i)
  BY <1>1 DEF Children
<1>4. \A P : Form(gens, P) => Form(new, P)
  BY <1>1, <1>2, <1>3 DEF Form
<1>5. \A P : Whole(gens, P) => Whole(new, P)
  BY <1>1, <1>3 DEF Whole
<1>6. Form(new, AllPages') /\ (Whole(gens, AllPages) => Whole(new, AllPages'))
  BY <1>4, <1>5 DEF HeldOnce
<1> QED BY <1>6 DEF HeldOnce, NothingLost, new

\* A file with one generation and one page.
LEMMA NewDbTree == HeapInv /\ NewDb => HeldOnce' /\ NothingLost'
<1> SUFFICES ASSUME HeapInv, NewDb PROVE HeldOnce' /\ NothingLost'
  OBVIOUS
<1> DEFINE c    == <<PageRef(initialPage)>>
           gen  == [gen |-> 0, committed |-> TRUE, c |-> c]
           page == [real |-> initialPage, committed |-> TRUE, pages |-> 1, used |-> 0, val |-> 0]
           new  == gens'
           P    == AllPages'
<1>1. root \in Nodes /\ initialPage \in Frames
  BY HeapFacts
<1>2. /\ gens \in GensType /\ pages \in PagesType
      /\ \A i \in Nodes : gens[i] = Null
      /\ \A f \in Frames : pages[f] = Null
  BY HeapFacts DEF HeapInv, TypeOK, NewDb, AllGens, AllPages
<1>3. gen # Null /\ page # Null
  <2>1. c \in Seq(Ref)
    BY <1>1 DEF PageRef, Ref
  <2>2. gen \in Generation
    BY <2>1 DEF Generation
  <2>3. page \in Page
    BY <1>1 DEF Page
  <2> QED BY <2>2, <2>3
<1>4. gens' = [gens EXCEPT ![root] = gen] /\ pages' = [pages EXCEPT ![initialPage] = page]
  BY DEF NewDb
<1>5. gen.c = c
  OBVIOUS
<1> HIDE DEF gen, page
<1>6. Made(new) = {root} /\ new[root] = gen /\ AllPages' = {initialPage}
  BY <1>1, <1>2, <1>3, <1>4 DEF Made, AllPages, GensType, PagesType
<1>7. ToSet(c) = {PageRef(initialPage)} /\ IsInjective(c) /\ Len(c) = 1
  BY DEF ToSet, IsInjective
<1> HIDE DEF c, new, P
<1>8. Children(new, root) = {PageRef(initialPage)} /\ new[root].c = c
  BY <1>5, <1>6, <1>7 DEF Children
<1>9. Len(c) <= GENERATION_CHILDREN
  BY <1>7
<1>10. PageRef(initialPage) \in All(new, P) /\ PageRef(initialPage) # GenRef(root)
  BY <1>6, RefsDiffer DEF All, P
<1>11. Form(new, P)
  BY <1>6, <1>7, <1>8, <1>9, <1>10 DEF Form
<1>12. Whole(new, P)
  BY <1>6, <1>8 DEF Whole, P
<1> QED BY <1>11, <1>12 DEF HeldOnce, NothingLost, new, P

\* The slot a new node is put in, where the tree has been split for it or not.
LEMMA SlotInTree ==
    ASSUME HeapInv, GensInOrder, HeldOnce, NEW i \in AllGens, Found(SlotBelow(i))
    PROVE  LET slot == SlotBelow(i)
           IN  /\ slot.gens \in GensType /\ slot.lastGen \in Nodes
               /\ InOrder(slot.gens, slot.lastGen, lastGenIndex)
               /\ Form(slot.gens, AllPages) /\ (NothingLost => Whole(slot.gens, AllPages))
               /\ Len(slot.gens[slot.target].c) < GENERATION_CHILDREN
<1>1. gens \in GensType /\ lastGen \in Nodes
  BY HeapFacts DEF HeapInv, TypeOK
<1>2. Form(gens, AllPages) /\ (NothingLost => Whole(gens, AllPages))
  BY DEF HeldOnce, NothingLost
<1>3. /\ Form(SlotBelow(i).gens, AllPages)
      /\ Whole(gens, AllPages) => Whole(SlotBelow(i).gens, AllPages)
      /\ Len(SlotBelow(i).gens[SlotBelow(i).target].c) < GENERATION_CHILDREN
  BY <1>1, <1>2, SlotBelowForm, Zenon
<1> QED BY <1>1, <1>2, <1>3, SlotBelowOrder, Zenon

\* A new page that gets the slot found.
LEMMA PageHung ==
    ASSUME HeapInv, GensInOrder, HeldOnce, NEW i \in AllGens, Found(SlotBelow(i)),
           NEW f \in Frames, f \notin AllPages,
           gens' = Attach(SlotBelow(i), PageRef(f)), AllPages' = AllPages \cup {f}
    PROVE  HeldOnce' /\ (NothingLost => NothingLost')
<1> DEFINE slot == SlotBelow(i)
           old  == slot.gens
           new  == Attach(slot, PageRef(f))
           P    == AllPages
           Q    == AllPages \cup {f}
<1>1. /\ old \in GensType /\ Form(old, P) /\ (NothingLost => Whole(old, P))
      /\ Len(old[slot.target].c) < GENERATION_CHILDREN
  BY SlotInTree, Zenon
<1>2. PageRef(f) \in Ref /\ PageRef(f) \in All(old, Q) \ {GenRef(root)}
  BY RefsDiffer DEF PageRef, Ref, All
<1>3. \A j \in Made(old) : PageRef(f) \notin Children(old, j)
  <2>1. PageRef(f) \notin All(old, P)
    BY RefsDiffer DEF All
  <2> QED BY <1>1, <2>1 DEF Form
<1>4. Found(slot) /\ P \subseteq Q
  OBVIOUS
<1>5. gens' = new /\ AllPages' = Q
  OBVIOUS
<1> HIDE DEF slot, P, Q
<1>6. /\ Form(new, Q) /\ Made(new) = Made(old)
      /\ \A j \in Made(old) : Children(old, j) \subseteq Children(new, j)
      /\ slot.target \in Made(old) /\ PageRef(f) \in Children(new, slot.target)
  BY <1>1, <1>2, <1>3, <1>4, AttachForm, Zenon
<1> HIDE DEF new
<1>7. ASSUME NothingLost PROVE Whole(new, Q)
  <2>1. Whole(old, P)
    BY <1>1, <1>7
  <2>2. \A j \in Made(old) : j \in Made(new) /\ Children(old, j) \subseteq Children(new, j)
    BY <1>6
  <2>3. \A j \in Made(new) \ Made(old) : \E t \in Made(old) : GenRef(j) \in Children(new, t)
    BY <1>6
  <2>4. \A e \in Q \ P : \E t \in Made(new) : PageRef(e) \in Children(new, t)
    BY <1>6 DEF P, Q
  <2> QED BY <2>1, <2>2, <2>3, <2>4, WholeGrows
<1> QED BY <1>5, <1>6, <1>7 DEF HeldOnce, NothingLost

\* The generation that snap_begin_mut makes, before it has a slot.
LEMMA BegunForm ==
    ASSUME HeapInv, GensInOrder, HeldOnce, committed \in AllGens, lastGenIndex < MaxGen,
           Found(SlotBelow(committed)), SlotBelow(committed).lastGen + 1 \in Nodes
    PROVE  LET slot == SlotBelow(committed)
               next == slot.lastGen + 1
               made == [slot.gens EXCEPT ![next] = NewGen(lastGenIndex + 1)]
           IN  /\ Form(made, AllPages) /\ Made(made) = Made(slot.gens) \cup {next}
               /\ \A i \in Made(slot.gens) : Children(made, i) = Children(slot.gens, i) /\ i # next
               /\ Children(made, next) = {}
               /\ slot.gens[next] = Null /\ next # root
<1> DEFINE slot == SlotBelow(committed)
           next == slot.lastGen + 1
           old  == slot.gens
           made == [old EXCEPT ![next] = NewGen(lastGenIndex + 1)]
<1>1. /\ old \in GensType /\ slot.lastGen \in Nodes /\ InOrder(old, slot.lastGen, lastGenIndex)
      /\ Form(old, AllPages)
  BY SlotInTree, Zenon
<1>2. next \in Nodes /\ lastGenIndex + 1 \in 0 .. MaxGen
  BY DEF HeapInv, TypeOK
<1> HIDE DEF slot
<1>3. old[next] = Null /\ next # root
  BY <1>1, <1>2 DEF InOrder, Nodes, root
<1> HIDE DEF next
<1>4. /\ Form(made, AllPages) /\ Made(made) = Made(old) \cup {next}
      /\ \A i \in Made(old) : Children(made, i) = Children(old, i) /\ i # next
      /\ Children(made, next) = {}
  BY <1>1, <1>2, <1>3, NewNodeForm, Zenon
<1> QED BY <1>3, <1>4 DEF slot, next

LEMMA BeginMutTree ==
    HeapInv /\ GensInOrder /\ HeldOnce /\ BeginMut => HeldOnce' /\ (NothingLost => NothingLost')
<1> SUFFICES ASSUME HeapInv, GensInOrder, HeldOnce, BeginMut
             PROVE  HeldOnce' /\ (NothingLost => NothingLost')
  OBVIOUS
<1> DEFINE slot == SlotBelow(committed)
           next == slot.lastGen + 1
           old  == slot.gens
           made == [old EXCEPT ![next] = NewGen(lastGenIndex + 1)]
           with == [slot EXCEPT !.gens[next] = NewGen(lastGenIndex + 1)]
           new  == Attach(with, GenRef(next))
<1>1. /\ Found(slot) /\ next \in Nodes /\ committed \in AllGens /\ lastGenIndex < MaxGen
  BY DEF HeapInv, TypeOK, BeginMut
<1>2. /\ made \in GensType
      /\ \A j \in Nodes : old[j] # Null => made[j] # Null
  BY <1>1, NewGenType, Zenon
<1>3. with.gens = made /\ with.target = slot.target /\ with.lastGen = slot.lastGen
  BY DEF SlotBelow
<1>4. /\ old \in GensType /\ (NothingLost => Whole(old, AllPages))
      /\ Len(old[slot.target].c) < GENERATION_CHILDREN /\ Form(old, AllPages)
  BY <1>1, SlotInTree, Zenon
<1>5. /\ Form(made, AllPages) /\ Made(made) = Made(old) \cup {next}
      /\ \A i \in Made(old) : Children(made, i) = Children(old, i) /\ i # next
      /\ Children(made, next) = {}
      /\ old[next] = Null /\ next # root
  BY <1>1, BegunForm, Zenon
<1>6. gens' = new /\ pages' = pages /\ AllPages' = AllPages
  BY DEF BeginMut, AllPages
<1>7. \A j \in Nodes : j # next => made[j] = old[j]
  BY <1>4 DEF GensType
<1> HIDE DEF slot, next, made, with
<1>8. slot.target \in Made(old) /\ slot.target # next /\ slot.target \in Nodes
  BY <1>1, <1>5 DEF Found, Made
<1>9. Found(with) /\ Len(with.gens[with.target].c) < GENERATION_CHILDREN
  BY <1>1, <1>2, <1>3, <1>4, <1>7, <1>8 DEF Found
<1>10. GenRef(next) \in Ref /\ GenRef(next) \in All(made, AllPages) \ {GenRef(root)}
  BY <1>1, <1>5, RefsDiffer DEF GenRef, Ref, All
<1>11. \A i \in Made(made) : GenRef(next) \notin Children(made, i)
  <2>1. GenRef(next) \notin All(old, AllPages)
    BY <1>5, RefsDiffer DEF All, Made
  <2>2. \A i \in Made(old) : GenRef(next) \notin Children(old, i)
    BY <1>4, <2>1 DEF Form
  <2> QED BY <1>5, <2>2
<1>12. /\ Form(new, AllPages) /\ Made(new) = Made(made)
       /\ \A j \in Made(made) : Children(made, j) \subseteq Children(new, j)
       /\ GenRef(next) \in Children(new, slot.target)
  <2>1. AllPages \subseteq AllPages
    OBVIOUS
  <2>2. /\ with.gens \in GensType /\ Form(with.gens, AllPages)
        /\ GenRef(next) \in All(with.gens, AllPages) \ {GenRef(root)}
        /\ \A i \in Made(with.gens) : GenRef(next) \notin Children(with.gens, i)
    BY <1>2, <1>3, <1>5, <1>10, <1>11
  <2>3. /\ Form(new, AllPages) /\ Made(new) = Made(with.gens)
        /\ \A j \in Made(with.gens) : Children(with.gens, j) \subseteq Children(new, j)
        /\ GenRef(next) \in Children(new, with.target)
    BY <1>9, <1>10, <2>1, <2>2, AttachForm, Zenon
  <2> QED BY <1>3, <2>3
<1> HIDE DEF new
<1>13. ASSUME NothingLost PROVE Whole(new, AllPages)
  <2>1. Whole(old, AllPages)
    BY <1>4, <1>13
  <2>2. \A j \in Made(old) : j \in Made(new) /\ Children(old, j) \subseteq Children(new, j)
    BY <1>5, <1>12
  <2>3. \A j \in Made(new) \ Made(old) : \E t \in Made(old) : GenRef(j) \in Children(new, t)
    BY <1>5, <1>8, <1>12
  <2> QED BY <2>1, <2>2, <2>3, WholeGrows
<1> QED BY <1>6, <1>12, <1>13 DEF HeldOnce, NothingLost

LEMMA BeginDiesTree == HeapInv /\ GensInOrder /\ HeldOnce /\ BeginDies => HeldOnce'
<1> SUFFICES ASSUME HeapInv, GensInOrder, HeldOnce, BeginDies PROVE HeldOnce'
  OBVIOUS
<1> DEFINE slot == SlotBelow(committed)
           next == slot.lastGen + 1
           made == [slot.gens EXCEPT ![next] = NewGen(lastGenIndex + 1)]
<1>1. /\ Found(slot) /\ next \in Nodes /\ committed \in AllGens /\ lastGenIndex < MaxGen
  BY DEF HeapInv, TypeOK, BeginDies
<1>2. gens' = made /\ AllPages' = AllPages
  BY DEF BeginDies, AllPages
<1>3. Form(made, AllPages)
  BY <1>1, BegunForm, Zenon
<1> HIDE DEF made
<1> QED BY <1>2, <1>3 DEF HeldOnce

\* The tree once the copy has the place of page p, which is in no slot then.
LEMMA CopyInTree ==
    ASSUME HeapInv, GensInOrder, HeldOnce, NEW p \in AllPages, working \in AllGens,
           gens[root] # Null, Found(SlotBelow(working)), RoomFor(pages[p].pages)
    PROVE  LET slot   == SlotBelow(working)
               placed == CopyInPlace(slot, p)
               Q      == (AllPages \ {p}) \cup {FreshPage}
           IN  /\ Form(placed, Q) /\ (NothingLost => Whole(placed, Q))
               /\ Made(placed) = Made(slot.gens)
               /\ \A i \in Made(slot.gens) : Len(placed[i].c) = Len(slot.gens[i].c)
               /\ FreshPage \in Frames \ AllPages
<1> DEFINE slot  == SlotBelow(working)
           old   == slot.gens
           moved == [q \in Frames |-> IF q = p THEN FreshPage ELSE q]
           Q     == (AllPages \ {p}) \cup {FreshPage}
           new   == Relink(old, moved)
<1>1. FreshPage \in Frames \ AllPages
  BY HeapFacts, FreshPageIsFree DEF Page
<1>2. old \in GensType /\ Form(old, AllPages) /\ (NothingLost => Whole(old, AllPages))
  BY SlotInTree, Zenon
<1>3. moved \in [Frames -> Frames] /\ AllPages \in SUBSET Frames
  BY <1>1 DEF AllPages
<1>4. \A a, b \in AllPages : moved[a] = moved[b] => a = b
  BY <1>1, <1>3
<1>5. Q = {moved[f] : f \in AllPages}
  BY <1>1, <1>3
<1>6. CopyInPlace(slot, p) = new
  BY DEF CopyInPlace
<1> HIDE DEF moved, slot, Q
<1>7. /\ Form(new, Q) /\ (Whole(old, AllPages) => Whole(new, Q))
      /\ Made(new) = Made(old)
      /\ \A i \in Made(old) : Len(new[i].c) = Len(old[i].c)
  BY <1>2, <1>3, <1>4, <1>5, RelinkForm, Zenon
<1> QED BY <1>1, <1>2, <1>6, <1>7 DEF slot, Q

LEMMA TrappedWriteTree ==
    ASSUME HeapInv, GensInOrder, HeldOnce, NEW f \in Frames, TrappedWrite(f)
    PROVE  HeldOnce' /\ (NothingLost => NothingLost')
<1> DEFINE p      == FindPage(f)
           slot   == SlotBelow(working)
           placed == CopyInPlace(slot, p)
           copied == [slot EXCEPT !.gens = placed]
           new    == Attach(copied, PageRef(p))
           Q      == (AllPages \ {p}) \cup {FreshPage}
           P      == AllPages \cup {FreshPage}
<1>1. /\ p \in AllPages /\ Found(slot) /\ RoomFor(pages[p].pages)
      /\ gens' = new
      /\ pages' = [pages EXCEPT ![FreshPage] = CopyOf(p),
                                ![p] = [pages[p] EXCEPT !.committed = FALSE,
                                                        !.val = lastGenIndex]]
  BY DEF TrappedWrite, Trappable
<1>2. working \in AllGens \ {Null} /\ gens[root] # Null
  BY HeapFacts DEF TrappedWrite, Trappable, HeapInv, TypeOK, AllGens, Nodes
<1>3. /\ placed \in GensType
      /\ \A j \in Nodes : placed[j] = Null <=> slot.gens[j] = Null
  BY <1>1, <1>2, CopyInPlaceType, Zenon
<1>4. /\ Form(placed, Q) /\ (NothingLost => Whole(placed, Q))
      /\ Made(placed) = Made(slot.gens)
      /\ \A i \in Made(slot.gens) : Len(placed[i].c) = Len(slot.gens[i].c)
      /\ FreshPage \in Frames \ AllPages
  BY <1>1, <1>2, CopyInTree, Zenon
<1>5. Len(slot.gens[slot.target].c) < GENERATION_CHILDREN
  BY <1>1, <1>2, SlotInTree, Zenon
<1>6. copied.gens = placed /\ copied.target = slot.target /\ copied.lastGen = slot.lastGen
  BY DEF SlotBelow
<1> HIDE DEF p, slot, placed, copied
<1>7. Found(copied) /\ Len(copied.gens[copied.target].c) < GENERATION_CHILDREN
  BY <1>1, <1>3, <1>4, <1>5, <1>6 DEF Found, Made
<1>8. AllPages' = P
  <2>1. p \in Frames /\ pages[p] \in Page
    BY <1>1, HeapFacts
  <2>2. [pages[p] EXCEPT !.committed = FALSE, !.val = lastGenIndex] \in Page
    BY <2>1 DEF Page, HeapInv, TypeOK
  <2> QED BY <1>1, <1>4, <2>1, <2>2, HeapFacts DEF AllPages, PagesType, CopyOf
<1>9. /\ PageRef(p) \in Ref /\ PageRef(p) \in All(placed, P) \ {GenRef(root)}
      /\ \A i \in Made(placed) : PageRef(p) \notin Children(placed, i)
      /\ Q \subseteq P
  <2>1. PageRef(p) \in Ref
    BY <1>1, HeapFacts DEF PageRef, Ref
  <2>2. PageRef(p) \in All(placed, P) \ {GenRef(root)}
    BY <1>1, RefsDiffer DEF All
  <2>3. PageRef(p) \notin All(placed, Q)
    BY <1>1, <1>4, RefsDiffer DEF All
  <2> QED BY <1>1, <1>4, <2>1, <2>2, <2>3 DEF Form
<1> HIDE DEF Q, P
<1>10. /\ Form(new, P) /\ Made(new) = Made(placed)
       /\ \A j \in Made(placed) : Children(placed, j) \subseteq Children(new, j)
       /\ copied.target \in Made(placed) /\ PageRef(p) \in Children(new, copied.target)
  <2>1. /\ copied.gens \in GensType /\ Form(copied.gens, Q)
        /\ PageRef(p) \in All(copied.gens, P) \ {GenRef(root)}
        /\ \A i \in Made(copied.gens) : PageRef(p) \notin Children(copied.gens, i)
    BY <1>3, <1>4, <1>6, <1>9
  <2>2. /\ Form(new, P) /\ Made(new) = Made(copied.gens)
        /\ \A j \in Made(copied.gens) : Children(copied.gens, j) \subseteq Children(new, j)
        /\ copied.target \in Made(copied.gens) /\ PageRef(p) \in Children(new, copied.target)
    BY <1>7, <1>9, <2>1, AttachForm, Zenon
  <2> QED BY <1>6, <2>2
<1> HIDE DEF new
<1>11. ASSUME NothingLost PROVE Whole(new, P)
  <2>1. Whole(placed, Q)
    BY <1>4, <1>11
  <2>2. \A j \in Made(placed) : j \in Made(new) /\ Children(placed, j) \subseteq Children(new, j)
    BY <1>10
  <2>3. \A j \in Made(new) \ Made(placed) : \E t \in Made(placed) : GenRef(j) \in Children(new, t)
    BY <1>10
  <2>4. \A e \in P \ Q : \E t \in Made(new) : PageRef(e) \in Children(new, t)
    BY <1>10 DEF P, Q
  <2> QED BY <2>1, <2>2, <2>3, <2>4, WholeGrows
<1> QED BY <1>1, <1>8, <1>10, <1>11 DEF HeldOnce, NothingLost

\* A process that dies in handle_segv may leave the page copied in no slot.
LEMMA TrapDiesTree ==
    ASSUME HeapInv, GensInOrder, HeldOnce, NEW f \in Frames, TrapDies(f) PROVE HeldOnce'
<1> DEFINE p      == FindPage(f)
           slot   == SlotBelow(working)
           placed == CopyInPlace(slot, p)
           Q      == (AllPages \ {p}) \cup {FreshPage}
           P      == AllPages \cup {FreshPage}
<1>1. PICK done \in 1 .. 4 :
        /\ gens' = CASE done = 1 -> gens
                     [] done = 2 -> slot.gens
                     [] done > 2 -> placed
        /\ pages' = [pages EXCEPT ![FreshPage] = CopyOf(p), ![p].committed = done < 4]
  BY Zenon DEF TrapDies
<1>2. /\ p \in AllPages /\ Found(slot) /\ RoomFor(pages[p].pages)
  BY DEF TrapDies, Trappable
<1>3. working \in AllGens \ {Null} /\ gens[root] # Null
  BY HeapFacts DEF TrapDies, Trappable, HeapInv, TypeOK, AllGens, Nodes
<1>4. Form(placed, Q) /\ FreshPage \in Frames \ AllPages
  BY <1>2, <1>3, CopyInTree, Zenon
<1>5. Form(slot.gens, AllPages)
  BY <1>2, <1>3, SlotInTree, Zenon
<1>6. Form(gens, AllPages)
  BY DEF HeldOnce
<1> HIDE DEF p, slot, placed
<1>7. gens' = gens \/ gens' = slot.gens \/ gens' = placed
  <2>1. done = 1 \/ done = 2 \/ (done > 2 /\ done # 1 /\ done # 2)
    OBVIOUS
  <2> QED BY <1>1, <2>1
<1>8. AllPages' = P
  <2>1. p \in Frames /\ pages[p] \in Page /\ FreshPage # p
    BY <1>2, <1>4, HeapFacts
  <2>2. \A b \in BOOLEAN : [pages[p] EXCEPT !.committed = b] \in Page
    BY <2>1 DEF Page
  <2>3. (done < 4) \in BOOLEAN
    OBVIOUS
  <2>4. [pages[p] EXCEPT !.committed = done < 4] # Null
    BY <2>2, <2>3
  <2>5. pages' = [pages EXCEPT ![FreshPage] = CopyOf(p),
                               ![p] = [pages[p] EXCEPT !.committed = done < 4]]
    BY <1>1, <2>1, HeapFacts DEF PagesType
  <2> QED BY <1>2, <1>4, <2>1, <2>4, <2>5, HeapFacts DEF AllPages, PagesType, CopyOf
<1>9. AllPages \subseteq P /\ Q \subseteq P
  BY <1>2
<1> HIDE DEF P, Q
<1>10. Form(gens, P) /\ Form(slot.gens, P) /\ Form(placed, P)
  BY <1>4, <1>5, <1>6, <1>9, FormWidens
<1> QED BY <1>7, <1>8, <1>10 DEF HeldOnce

LEMMA MallocGrowsTree ==
    ASSUME HeapInv, GensInOrder, HeldOnce, NEW size \in Nat \ {0}, NEW p \in Frames,
           MallocGrows(size, p)
    PROVE  HeldOnce' /\ (NothingLost => NothingLost')
<1> DEFINE n   == (size \div Units) + 1
           new == [real |-> FreshPage, committed |-> FALSE, pages |-> n,
                   used |-> size, val |-> 0]
<1>1. /\ Found(SlotBelow(working)) /\ p = FreshPage /\ RoomFor(n)
      /\ pages' = [pages EXCEPT ![FreshPage] = new]
      /\ gens' = Attach(SlotBelow(working), PageRef(p))
  BY DEF MallocGrows
<1>2. working \in AllGens /\ gens[root] # Null
  BY HeapFacts DEF MallocGrows, HeapInv, TypeOK, AllGens, Nodes
<1>3. new \in Page
  BY <1>1, <1>2, GrownPage
<1>4. n \in Nat \ {0}
  <2>1. size \div Units \in Nat
    BY Z3
  <2> QED BY <2>1
<1> HIDE DEF n, new
<1>5. FreshPage \in Frames /\ FreshPage \notin AllPages
  BY <1>1, <1>2, <1>4, FreshPageIsFree
<1>6. AllPages' = AllPages \cup {p}
  BY <1>1, <1>3, <1>5, HeapFacts DEF AllPages, PagesType
<1> QED BY <1>1, <1>2, <1>5, <1>6, PageHung, Zenon

LEMMA MallocDiesTree ==
    ASSUME HeapInv, GensInOrder, HeldOnce, NEW size \in Nat \ {0}, MallocDies(size)
    PROVE  HeldOnce'
<1> DEFINE n   == (size \div Units) + 1
           new == [real |-> FreshPage, committed |-> FALSE, pages |-> n,
                   used |-> 0, val |-> 0]
           slot == SlotBelow(working)
<1>1. /\ Found(slot) /\ RoomFor(n)
      /\ pages' = [pages EXCEPT ![FreshPage] = new]
      /\ gens' = slot.gens
  BY DEF MallocDies
<1>2. working \in AllGens /\ gens[root] # Null
  BY HeapFacts DEF MallocDies, HeapInv, TypeOK, AllGens, Nodes
<1>3. new \in Page
  BY <1>1, <1>2, GrownPage
<1>4. n \in Nat \ {0}
  <2>1. size \div Units \in Nat
    BY Z3
  <2> QED BY <2>1
<1>5. Form(slot.gens, AllPages)
  BY <1>1, <1>2, SlotInTree, Zenon
<1> HIDE DEF n, new, slot
<1>6. FreshPage \in Frames /\ FreshPage \notin AllPages
  BY <1>1, <1>2, <1>4, FreshPageIsFree
<1>7. AllPages' = AllPages \cup {FreshPage}
  BY <1>1, <1>3, <1>6, HeapFacts DEF AllPages, PagesType
<1>8. Form(slot.gens, AllPages \cup {FreshPage})
  <2>1. AllPages \subseteq AllPages \cup {FreshPage}
    OBVIOUS
  <2> QED BY <1>5, <2>1, FormWidens
<1> QED BY <1>1, <1>7, <1>8 DEF HeldOnce

LEMMA FlagTree ==
    ASSUME HeapInv, HeldOnce, FlagCommitted
    PROVE  HeldOnce' /\ (NothingLost => NothingLost')
<1> DEFINE gs == AllGens \cap ToSet(GensIn(gens, working))
           ps == AllPages \cap ToSet(PagesIn(gens, working, MaxGen))
<1>1. /\ gens' = [i \in Nodes |-> IF i \in gs THEN [gens[i] EXCEPT !.committed = TRUE]
                                               ELSE gens[i]]
      /\ pages' = [f \in Frames |-> IF f \in ps THEN [pages[f] EXCEPT !.committed = TRUE]
                                                 ELSE pages[f]]
  BY DEF FlagCommitted
<1>2. gs \subseteq AllGens /\ ps \subseteq AllPages
  OBVIOUS
<1> HIDE DEF gs, ps
<1>3. \A i \in AllGens : /\ [gens[i] EXCEPT !.committed = TRUE] \in Generation
                         /\ [gens[i] EXCEPT !.committed = TRUE].c = gens[i].c
  BY HeapFacts DEF Generation
<1>4. \A f \in AllPages : [pages[f] EXCEPT !.committed = TRUE] \in Page
  BY HeapFacts DEF Page
<1>5. AllPages' = AllPages
  BY <1>1, <1>2, <1>4, HeapFacts DEF AllPages
<1>6. AllGens' = AllGens
  BY <1>1, <1>2, <1>3, HeapFacts DEF AllGens
<1>7. \A i \in AllGens : gens'[i].c = gens[i].c
  BY <1>1, <1>3, HeapFacts
<1> QED BY <1>5, <1>6, <1>7, SlotsKept

LEMMA CheckoutSwapTree ==
    HeapInv /\ HeldOnce /\ CheckoutSwap => HeldOnce' /\ (NothingLost => NothingLost')
<1> SUFFICES ASSUME HeapInv, HeldOnce, CheckoutSwap
             PROVE  HeldOnce' /\ (NothingLost => NothingLost')
  OBVIOUS
<1> DEFINE p     == NextToMove
           home  == pages[p].real
           moved == Exchanged(p, home)
           new   == Relink(gens, moved)
<1>1. /\ p \in AllPages /\ gens' = new
      /\ pages' = [pages EXCEPT ![p] = pages[home], ![home] = pages[p]]
  BY DEF CheckoutSwap
<1> HIDE DEF p
<1>2. /\ p \in Frames /\ home \in Frames /\ home \in AllPages
      /\ pages[p] \in Page /\ pages[home] \in Page
  BY <1>1, HeapFacts DEF HeapInv, PagesHaveHomes, AllPages
<1> HIDE DEF home
<1>3. AllPages' = AllPages
  BY <1>1, <1>2, HeapFacts DEF PagesType, AllPages
<1>4. moved \in [Frames -> Frames] /\ AllPages \in SUBSET Frames
  BY <1>2 DEF Exchanged, AllPages
<1>5. \A a, b \in AllPages : moved[a] = moved[b] => a = b
  BY <1>2, <1>4 DEF Exchanged
<1>6. AllPages = {moved[f] : f \in AllPages}
  <2>1. \A f \in Frames : moved[f] = IF f = p THEN home ELSE IF f = home THEN p ELSE f
    BY DEF Exchanged
  <2> HIDE DEF moved
  <2>2. moved[p] = home /\ moved[home] = p
    BY <1>2, <2>1
  <2>3. \A f \in AllPages : f # p /\ f # home => moved[f] = f
    BY <1>4, <2>1
  <2> QED BY <1>1, <1>2, <2>2, <2>3
<1>7. gens \in GensType /\ Form(gens, AllPages)
  BY HeapFacts DEF HeldOnce
<1> HIDE DEF moved
<1>8. Form(new, AllPages) /\ (Whole(gens, AllPages) => Whole(new, AllPages))
  BY <1>4, <1>5, <1>6, <1>7, RelinkForm, Zenon
<1> HIDE DEF new
<1> QED BY <1>1, <1>3, <1>8 DEF HeldOnce, NothingLost

\* The steps at which a process dies with a node made that no slot points to
\* yet, and the others.
Torn ==
    \/ \E f \in Frames : TrapDies(f)
    \/ \E size \in Nat \ {0} : MallocDies(size)
    \/ BeginDies

Unbroken ==
    \/ SnapInit \/ BeginMut \/ Commit \/ Exit
    \/ \E f \in Frames : Write(f)
    \/ \E size \in Nat \ {0}, p \in Frames : Malloc(size, p)
    \/ MallocAborts \/ NullDeref
    \/ \E g \in 0 .. MaxGen : CheckoutSame(g) \/ CheckoutStart(g)
    \/ CheckoutSwap \/ CheckoutFails \/ CheckoutEnd
    \/ CommitDies \/ Peek \/ PeekFirst

LEMMA UnbrokenStep ==
    HeapInv /\ GensInOrder /\ HeldOnce /\ [Unbroken]_heapVars
        => HeldOnce' /\ (NothingLost => NothingLost')
<1> SUFFICES ASSUME HeapInv, GensInOrder, HeldOnce, [Unbroken]_heapVars
             PROVE  HeldOnce' /\ (NothingLost => NothingLost')
  OBVIOUS
<1>1. ASSUME UNCHANGED gens, AllPages' = AllPages
      PROVE  HeldOnce' /\ (NothingLost => NothingLost')
  BY <1>1 DEF HeldOnce, NothingLost
<1>2. UNCHANGED pages => AllPages' = AllPages
  BY DEF AllPages
<1>3. CASE SnapInit \/ PeekFirst
  BY <1>1, <1>2, <1>3, NewDbTree DEF SnapInit, CreateDb, OpenDb, PeekFirst
<1>4. ASSUME NEW f \in Frames, Write(f) PROVE HeldOnce' /\ (NothingLost => NothingLost')
  <2>1. CASE PlainWrite(f)
    <3>1. PICK p \in AllPages : pages' = [pages EXCEPT ![p].val = lastGenIndex]
      BY <2>1 DEF PlainWrite
    <3>2. [pages[p] EXCEPT !.val = lastGenIndex] \in Page
      BY <3>1, HeapFacts DEF Page, HeapInv, TypeOK
    <3>3. AllPages' = AllPages
      BY <3>1, <3>2, HeapFacts DEF PagesType, AllPages
    <3> QED BY <1>1, <2>1, <3>3 DEF PlainWrite
  <2> QED BY <1>1, <1>2, <1>4, <2>1, TrappedWriteTree DEF Write, TrapFails, fileVars
<1>5. ASSUME NEW size \in Nat \ {0}, NEW p \in Frames, Malloc(size, p)
      PROVE  HeldOnce' /\ (NothingLost => NothingLost')
  <2>1. CASE MallocFits(size, p)
    <3>1. p \in AllPages /\ pages' = [pages EXCEPT ![p].used = @ + size]
      BY <2>1 DEF MallocFits
    <3>2. [pages[p] EXCEPT !.used = @ + size] \in Page
      BY <3>1, HeapFacts DEF Page
    <3>3. AllPages' = AllPages
      BY <3>1, <3>2, HeapFacts DEF PagesType, AllPages
    <3> QED BY <1>1, <2>1, <3>3 DEF MallocFits
  <2> QED BY <1>5, <2>1, MallocGrowsTree DEF Malloc
<1>6. CASE \/ MallocAborts \/ NullDeref \/ CheckoutFails \/ CheckoutEnd \/ Exit \/ Peek
           \/ UNCHANGED heapVars
  BY <1>1, <1>2, <1>6 DEF MallocAborts, NullDeref, CheckoutFails, CheckoutEnd, Exit, Peek,
                          fileVars, heapVars
<1>7. ASSUME NEW g, CheckoutSame(g) \/ CheckoutStart(g)
      PROVE  HeldOnce' /\ (NothingLost => NothingLost')
  BY <1>1, <1>2, <1>7 DEF CheckoutSame, CheckoutStart, fileVars, heapVars
<1>8. CASE Commit \/ CommitDies
  BY <1>8, FlagTree DEF Commit, CommitDies
<1> QED BY <1>3, <1>4, <1>5, <1>6, <1>7, <1>8, BeginMutTree, CheckoutSwapTree DEF Unbroken

LEMMA TreeStep == HeapInv /\ GensInOrder /\ HeldOnce /\ [Next]_heapVars => HeldOnce'
<1> SUFFICES ASSUME HeapInv, GensInOrder, HeldOnce, [Next]_heapVars PROVE HeldOnce'
  OBVIOUS
<1>1. CASE Torn
  BY <1>1, TrapDiesTree, MallocDiesTree, BeginDiesTree DEF Torn
<1>2. CASE [Unbroken]_heapVars
  BY <1>2, UnbrokenStep
<1> QED BY <1>1, <1>2 DEF Next, Torn, Unbroken

LEMMA InitTree == Init => HeldOnce /\ NothingLost
<1> SUFFICES ASSUME Init PROVE HeldOnce /\ NothingLost
  OBVIOUS
<1>1. Made(gens) = {} /\ AllPages = {}
  BY DEF Init, Made, AllPages
<1> QED BY <1>1 DEF HeldOnce, NothingLost, Form, Whole

\* What TreeOK says follows from what is inductive.
LEMMA TreeOKHolds ==
    ASSUME HeapInv, GensInOrder, HeldOnce, NothingLost PROVE TreeOK
<1> DEFINE P == AllPages
<1>1. gens \in GensType /\ P \in SUBSET Frames /\ Closed(gens)
  <2>1. gens \in GensType
    BY HeapFacts
  <2>2. Closed(gens)
    BY <2>1 DEF GensInOrder, InOrder, Closed
  <2> QED BY <2>1, <2>2 DEF AllPages
<1>2. Form(gens, P) /\ Whole(gens, P) /\ Made(gens) = AllGens
  BY DEF HeldOnce, NothingLost, Made, AllGens
<1>3. \A i \in AllGens : /\ Len(gens[i].c) <= GENERATION_CHILDREN /\ IsInjective(gens[i].c)
                         /\ DOMAIN gens[i].c = 1 .. Len(gens[i].c) /\ Len(gens[i].c) \in Nat
  <2>1. \A i \in AllGens : Len(gens[i].c) <= GENERATION_CHILDREN /\ IsInjective(gens[i].c)
    BY <1>2 DEF Form
  <2>2. \A i \in AllGens : gens[i].c \in Seq(Ref)
    BY HeapFacts DEF Generation
  <2> QED BY <2>1, <2>2, LenProperties
<1>4. ASSUME NEW s \in Slots
      PROVE  s = <<s[1], s[2]>> /\ s[1] \in AllGens /\ s[2] \in DOMAIN gens[s[1]].c
             /\ Held(s) = gens[s[1]].c[s[2]] /\ Held(s) \in Children(gens, s[1])
  BY DEF Slots, Held, Children, ToSet
<1>5. ASSUME NEW i \in AllGens, NEW r \in Children(gens, i) PROVE \E s \in Slots : Held(s) = r
  <2>1. PICK k \in DOMAIN gens[i].c : r = gens[i].c[k]
    BY DEF Children, ToSet
  <2>2. k \in 1 .. GENERATION_CHILDREN
    BY <1>3
  <2>3. <<i, k>> \in Slots /\ Held(<<i, k>>) = r
    BY <2>1, <2>2 DEF Slots, Held
  <2> QED BY <2>3
<1>6. ASSUME NEW s \in Slots, NEW t \in Slots, Held(s) = Held(t) PROVE s = t
  <2>1. s[1] = t[1]
    BY <1>2, <1>4, <1>6 DEF Form
  <2>2. s[2] = t[2]
    BY <1>3, <1>4, <1>6, <2>1 DEF IsInjective
  <2> QED BY <1>4, <2>1, <2>2
<1>7. {Held(s) : s \in Slots} = {PageRef(f) : f \in AllPages} \cup {GenRef(i) : i \in AllGens \ {root}}
  <2>1. ASSUME NEW s \in Slots
        PROVE  Held(s) \in {PageRef(f) : f \in AllPages} \cup {GenRef(i) : i \in AllGens \ {root}}
    <3>1. Held(s) \in All(gens, P) \ {GenRef(root)}
      BY <1>2, <1>4 DEF Form
    <3> QED BY <1>2, <3>1 DEF All
  <2>2. ASSUME NEW f \in AllPages PROVE \E s \in Slots : Held(s) = PageRef(f)
    <3>1. PICK i \in AllGens : PageRef(f) \in Children(gens, i)
      BY <1>2 DEF Whole
    <3> QED BY <1>5, <3>1
  <2>3. ASSUME NEW j \in AllGens \ {root} PROVE \E s \in Slots : Held(s) = GenRef(j)
    <3>1. {j} \in SUBSET (Made(gens) \ {root}) /\ {j} # {}
      BY <1>2
    <3>2. PICK i \in AllGens : \E m \in {j} : GenRef(m) \in Children(gens, i)
      BY <1>2, <3>1 DEF Whole
    <3> QED BY <1>5, <3>2
  <2> HIDE DEF P
  <2> QED BY <2>1, <2>2, <2>3
<1>8. ASSUME gens[root] # Null
      PROVE  /\ Len(GensIn(gens, root)) = Cardinality(AllGens)
             /\ Len(PagesIn(gens, root, MaxGen)) = Cardinality(AllPages)
  <2> DEFINE gr == {r \in All(gens, P) : r.type = "generation"}
             pr == {r \in All(gens, P) : r.type = "page"}
             gm == [i \in AllGens |-> GenRef(i)]
             pm == [f \in P |-> PageRef(f)]
  <2>1. Len(GensIn(gens, root)) = Cardinality(gr) /\ Len(PagesIn(gens, root, MaxGen)) = Cardinality(pr)
    BY <1>1, <1>2, <1>8, WalkMeetsAll DEF GensIn, PagesIn
  <2>2. gr = {GenRef(i) : i \in AllGens} /\ pr = {PageRef(f) : f \in P}
    BY <1>2, RefsDiffer DEF All
  <2>3. IsFiniteSet(AllGens) /\ IsFiniteSet(P)
    <3>1. AllGens \subseteq Nodes /\ P \subseteq Frames
      BY <1>1 DEF AllGens
    <3>2. IsFiniteSet(Nodes)
      BY FS_Interval DEF Nodes
    <3>3. IsFiniteSet(Frames)
      BY FS_Interval DEF Frames
    <3> HIDE DEF P
    <3> QED BY <3>1, <3>2, <3>3, FS_Subset
  <2> HIDE DEF gr, pr, P
  <2>4. gm \in Bijection(AllGens, gr)
    <3>1. gm \in [AllGens -> gr] /\ \A r \in gr : \E i \in AllGens : gm[i] = r
      BY <2>2
    <3>2. \A i, j \in AllGens : gm[i] = gm[j] => i = j
      BY RefsDiffer
    <3> QED BY <3>1, <3>2 DEF Bijection, Injection, Surjection, IsInjective
  <2>5. pm \in Bijection(P, pr)
    <3>1. pm \in [P -> pr] /\ \A r \in pr : \E f \in P : pm[f] = r
      BY <2>2
    <3>2. \A a, b \in P : pm[a] = pm[b] => a = b
      BY RefsDiffer
    <3> QED BY <3>1, <3>2 DEF Bijection, Injection, Surjection, IsInjective
  <2>6. Cardinality(gr) = Cardinality(AllGens)
    BY <2>3, <2>4, FS_Bijection DEF ExistsBijection
  <2>7. Cardinality(pr) = Cardinality(P)
    BY <2>3, <2>5, FS_Bijection DEF ExistsBijection
  <2> QED BY <2>1, <2>6, <2>7 DEF P
<1> QED BY <1>3, <1>6, <1>7, <1>8 DEF TreeOK
=============================================================================
