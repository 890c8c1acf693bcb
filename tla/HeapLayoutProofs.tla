--------------------------- MODULE HeapLayoutProofs ---------------------------
(***************************************************************************)
(* No two nodes of a heap file overlap, for every size of a physical page, *)
(* of a generation and of the pages asked for.                             *)
(***************************************************************************)
EXTENDS HeapLayout, TLAPS

USE LayoutAssumption

\* Nodes are laid out upwards: everything lies at or below the last generation
\* or the last page, and one of the two is wholly above the other.
Frontier ==
    /\ lastGen \in genNodes
    /\ \A a \in genNodes : a = lastGen \/ Leq(Plus(a, GenSize), lastGen)
    /\ \A p \in pageNodes : \/ p.at + p.pages <= lastPage
                            \/ p.at = lastPage /\ p.pages = lastPages
    /\ \/ Plus(lastGen, GenSize - 1).f < lastPage
       \/ lastPage + lastPages <= lastGen.f

\* Both stay within the heap, so that a new generation never needs more than
\* one new frame.
Bounds == /\ size > 3
          /\ lastPage + lastPages <= size
          /\ Plus(lastGen, GenSize).f < size

LayoutInv == TypeOK /\ NodesAreApart /\ NodesAreInside /\ Frontier /\ Bounds

-----------------------------------------------------------------------------
LEMMA PlusType ==
    ASSUME NEW a \in Addr, NEW n \in 0 .. 2 * GenSize
    PROVE  /\ Plus(a, n) \in Addr
           /\ a.f \in Nat /\ a.o \in 0 .. PAGE_SIZE - 1
           /\ Plus(a, n).f = IF a.o + n < PAGE_SIZE THEN a.f ELSE a.f + 1
           /\ Plus(a, n).o = IF a.o + n < PAGE_SIZE THEN a.o + n ELSE a.o + n - PAGE_SIZE
BY DEF Addr, Plus

\* The end of a generation and of the one after it, in numbers.
LEMMA EndOfLast ==
    ASSUME LayoutInv
    PROVE  /\ lastGen.f \in Nat /\ lastGen.o \in 0 .. PAGE_SIZE - 1
           /\ Plus(lastGen, GenSize - 1).f =
                 IF lastGen.o + GenSize - 1 < PAGE_SIZE THEN lastGen.f ELSE lastGen.f + 1
           /\ Plus(lastGen, GenSize).f =
                 IF lastGen.o + GenSize < PAGE_SIZE THEN lastGen.f ELSE lastGen.f + 1
           /\ Plus(lastGen, GenSize).o =
                 IF lastGen.o + GenSize < PAGE_SIZE THEN lastGen.o + GenSize
                                                    ELSE lastGen.o + GenSize - PAGE_SIZE
           /\ Plus(lastGen, 2 * GenSize).f =
                 IF lastGen.o + 2 * GenSize < PAGE_SIZE THEN lastGen.f ELSE lastGen.f + 1
<1>1. lastGen \in Addr
  BY DEF LayoutInv, TypeOK
<1>2. GenSize - 1 \in 0 .. 2 * GenSize /\ GenSize \in 0 .. 2 * GenSize
      /\ 2 * GenSize \in 0 .. 2 * GenSize
  OBVIOUS
<1> QED BY <1>1, <1>2, PlusType

LEMMA InitLayout == Init => LayoutInv
<1> SUFFICES ASSUME Init PROVE LayoutInv
  OBVIOUS
<1>1. StartOf(1) \in Addr /\ StartOf(1) = [f |-> 1, o |-> 0]
  BY DEF StartOf, Addr
<1>2. /\ Plus(StartOf(1), GenSize).f = 1
      /\ Plus(StartOf(1), GenSize - 1).f = 1
  BY <1>1 DEF Plus
<1>3. TypeOK
  BY <1>1 DEF Init, TypeOK
<1>4. NodesAreApart
  <2>1. \A a, b \in genNodes : a = b
    BY DEF Init
  <2>2. \A p, q \in pageNodes : p = q
    BY DEF Init
  <2>3. \A a \in genNodes, p \in pageNodes : GenFrames(a) \cap PageFrames(p) = {}
    <3>1. \A a \in genNodes : GenFrames(a) = {1}
      BY <1>1, <1>2 DEF Init, GenFrames
    <3>2. \A p \in pageNodes : PageFrames(p) = 2 .. 2
      BY DEF Init, PageFrames
    <3> QED BY <3>1, <3>2
  <2> QED BY <2>1, <2>2, <2>3 DEF NodesAreApart
<1>5. NodesAreInside
  BY <1>2 DEF Init, NodesAreInside
<1>6. Frontier /\ Bounds
  BY <1>1, <1>2 DEF Init, Frontier, Bounds
<1> QED BY <1>3, <1>4, <1>5, <1>6 DEF LayoutInv

\* The heap never shrinks, and grows far enough for an address in or right
\* behind it.
LEMMA GrownFacts ==
    ASSUME size \in Nat, size > 3, NEW a \in Addr
    PROVE  /\ Grown(a) \in Nat /\ Grown(a) >= size
           /\ a.f <= size => Inside(a, Grown(a))
BY DEF Grown, RoundUp, Addr, Inside

\* A new page lies behind everything there is.
LEMMA NextPageIsFree ==
    ASSUME LayoutInv
    PROVE  /\ NextPage \in Nat /\ NextPage <= size
           /\ NextPage >= lastPage + lastPages
           /\ \A a \in genNodes : Plus(a, GenSize - 1).f < NextPage
           /\ \A p \in pageNodes : p.at + p.pages <= NextPage
<1>1. /\ lastGen \in Addr /\ lastPage \in Nat /\ lastPages \in Nat /\ size \in Nat
      /\ genNodes \subseteq Addr
      /\ \A p \in pageNodes : p.at \in Nat /\ p.pages \in Nat \ {0}
  BY DEF LayoutInv, TypeOK
<1>2. /\ NextPage \in Nat /\ NextPage <= size /\ NextPage >= lastPage + lastPages
      /\ Plus(lastGen, GenSize - 1).f < NextPage
  <2>1. CASE Less(lastGen, StartOf(lastPage))
    BY <1>1, <2>1, EndOfLast DEF LayoutInv, Frontier, Bounds, NextPage, Less, StartOf
  <2>2. CASE ~Less(lastGen, StartOf(lastPage))
    BY <1>1, <2>2, EndOfLast
       DEF LayoutInv, Frontier, Bounds, NextPage, Less, StartOf, RoundUp
  <2> QED BY <2>1, <2>2
<1>3. ASSUME NEW a \in genNodes PROVE Plus(a, GenSize - 1).f < NextPage
  <2>1. CASE a = lastGen
    BY <1>2, <2>1
  <2>2. CASE Leq(Plus(a, GenSize), lastGen)
    BY <1>1, <1>2, <2>2 DEF Plus, Leq, Addr
  <2> QED BY <2>1, <2>2 DEF LayoutInv, Frontier
<1>4. ASSUME NEW p \in pageNodes PROVE p.at + p.pages <= NextPage
  BY <1>1, <1>2 DEF LayoutInv, Frontier
<1> QED BY <1>2, <1>3, <1>4

LEMMA NewPageStep ==
    ASSUME LayoutInv, NEW n \in PageSizes, NewPage(n)
    PROVE  LayoutInv'
<1> DEFINE end == StartOf(NextPage + n)
           new == [at |-> NextPage, pages |-> n]
<1>0. n \in Nat \ {0}
  OBVIOUS
<1>1. /\ lastPage' = NextPage /\ size' = Grown(end)
      /\ UNCHANGED <<lastGen, genNodes>>
      /\ \/ /\ NextPage + n < size'
            /\ lastPages' = n /\ pageNodes' = pageNodes \cup {new} /\ state' = "up"
         \/ lastPages' = 0 /\ UNCHANGED pageNodes /\ state' = "aborted"
  BY DEF NewPage, Inside, StartOf
<1>2. /\ lastGen \in Addr /\ size \in Nat /\ size > 3
      /\ genNodes \subseteq Addr
      /\ \A p \in pageNodes : p.at \in Nat /\ p.pages \in Nat \ {0}
  BY DEF LayoutInv, TypeOK, Bounds
<1>3. NextPage \in Nat /\ end \in Addr /\ size' \in Nat /\ size' >= size
  <2>1. NextPage \in Nat /\ end \in Addr
    BY <1>0, NextPageIsFree DEF StartOf, Addr
  <2> QED BY <1>1, <1>2, <2>1, GrownFacts
<1>4. TypeOK'
  BY <1>0, <1>1, <1>3 DEF LayoutInv, TypeOK
<1>5. NodesAreApart'
  <2>1. \A p \in pageNodes : PageFrames(p) \cap PageFrames(new) = {}
    BY <1>0, <1>2, <1>3, NextPageIsFree DEF PageFrames
  <2>2. \A a \in genNodes : GenFrames(a) \cap PageFrames(new) = {}
    <3> SUFFICES ASSUME NEW a \in genNodes, NEW f \in GenFrames(a)
                 PROVE  f \notin PageFrames(new)
      OBVIOUS
    <3>1. f \in Nat /\ f < NextPage
      BY <1>2, <1>3, NextPageIsFree DEF GenFrames, Plus, Addr
    <3> QED BY <1>0, <1>3, <3>1 DEF PageFrames
  <2> QED BY <1>1, <2>1, <2>2 DEF LayoutInv, NodesAreApart
<1>6. NodesAreInside'
  BY <1>0, <1>1, <1>2, <1>3 DEF LayoutInv, NodesAreInside, Plus, Addr
<1>7. Frontier'
  BY <1>0, <1>1, <1>2, <1>3, NextPageIsFree DEF LayoutInv, Frontier
<1>8. Bounds'
  BY <1>0, <1>1, <1>2, <1>3, NextPageIsFree DEF LayoutInv, Bounds, Plus, Addr
<1> QED BY <1>4, <1>5, <1>6, <1>7, <1>8 DEF LayoutInv

\* A new generation follows the others and shares no frame with a page.
LEMMA NextGenIsFree ==
    ASSUME LayoutInv
    PROVE  /\ NextGen \in Addr /\ Leq(Plus(lastGen, GenSize), NextGen)
           /\ Plus(NextGen, GenSize).f <= size
           /\ \A p \in pageNodes : GenFrames(NextGen) \cap PageFrames(p) = {}
           /\ \/ Plus(NextGen, GenSize - 1).f < lastPage
              \/ lastPage + lastPages <= NextGen.f
<1>1. /\ lastGen \in Addr /\ lastPage \in Nat /\ lastPages \in Nat /\ size \in Nat
      /\ genNodes \subseteq Addr
      /\ \A p \in pageNodes : p.at \in Nat /\ p.pages \in Nat \ {0}
      /\ lastGen \in genNodes
      /\ \A p \in pageNodes : \/ p.at + p.pages <= lastPage
                              \/ p.at = lastPage /\ p.pages = lastPages
  BY DEF LayoutInv, TypeOK, Frontier
<1>2. CASE Plus(lastGen, 2 * GenSize).f = lastGen.f
  <2>1. /\ NextGen = Plus(lastGen, GenSize)
        /\ NextGen.f = lastGen.f /\ NextGen \in Addr
        /\ Plus(NextGen, GenSize - 1).f = lastGen.f
        /\ Plus(NextGen, GenSize).f = lastGen.f
    BY <1>1, <1>2 DEF NextGen, Plus, Addr
  <2>2. GenFrames(NextGen) \subseteq GenFrames(lastGen)
    BY <2>1 DEF GenFrames
  <2>3. \A p \in pageNodes : GenFrames(NextGen) \cap PageFrames(p) = {}
    BY <1>1, <2>2 DEF LayoutInv, NodesAreApart
  <2> QED BY <1>1, <2>1, <2>3 DEF LayoutInv, Frontier, Bounds, Plus, Leq, Addr
<1>3. CASE Plus(lastGen, 2 * GenSize).f # lastGen.f /\ Less(StartOf(lastPage), lastGen)
  <2>1. NextGen = Plus(lastGen, GenSize) /\ NextGen \in Addr
    BY <1>1, <1>3 DEF NextGen, Plus, Addr
  <2>2. lastPage + lastPages <= lastGen.f /\ lastGen.f <= NextGen.f
    BY <1>1, <1>3, <2>1, EndOfLast DEF LayoutInv, Frontier, Less, StartOf
  <2>3. \A p \in pageNodes : GenFrames(NextGen) \cap PageFrames(p) = {}
    BY <1>1, <2>1, <2>2 DEF GenFrames, PageFrames, Plus, Addr
  <2> QED BY <1>1, <2>1, <2>2, <2>3 DEF LayoutInv, Bounds, Plus, Leq, Addr
<1>4. CASE Plus(lastGen, 2 * GenSize).f # lastGen.f /\ ~Less(StartOf(lastPage), lastGen)
  <2>1. NextGen = StartOf(lastPage + lastPages) /\ NextGen \in Addr
    BY <1>1, <1>4 DEF NextGen, StartOf, Addr
  <2>2. Plus(lastGen, GenSize - 1).f < lastPage
    BY <1>1, <1>4, EndOfLast DEF LayoutInv, Frontier, Less, StartOf
  <2>3. \A p \in pageNodes : GenFrames(NextGen) \cap PageFrames(p) = {}
    BY <1>1, <2>1 DEF GenFrames, PageFrames, Plus, StartOf, Addr
  <2> QED BY <1>1, <2>1, <2>2, <2>3 DEF LayoutInv, Bounds, Plus, Leq, StartOf, Addr
<1> QED BY <1>2, <1>3, <1>4

LEMMA NewGenStep == LayoutInv /\ NewGen => LayoutInv' /\ state' = state
<1> SUFFICES ASSUME LayoutInv, NewGen PROVE LayoutInv' /\ state' = state
  OBVIOUS
<1> DEFINE end == Plus(NextGen, GenSize)
<1>1. /\ lastGen \in Addr /\ size \in Nat /\ size > 3
      /\ genNodes \subseteq Addr /\ lastPage \in Nat /\ lastPages \in Nat
      /\ \A p \in pageNodes : p.at \in Nat /\ p.pages \in Nat \ {0}
      /\ \A a \in genNodes : a = lastGen \/ Leq(Plus(a, GenSize), lastGen)
  BY DEF LayoutInv, TypeOK, Bounds, Frontier
<1>2. NextGen \in Addr /\ end \in Addr /\ end.f <= size
  BY NextGenIsFree DEF Plus, Addr
<1>3. Inside(end, Grown(end)) /\ Grown(end) \in Nat /\ Grown(end) >= size
  BY <1>1, <1>2, GrownFacts
<1>4. /\ lastGen' = NextGen /\ size' = Grown(end) /\ end.f < size'
      /\ genNodes' = genNodes \cup {NextGen}
      /\ UNCHANGED <<state, lastPage, lastPages, pageNodes>>
  BY <1>3 DEF NewGen, Inside
<1> HIDE DEF end
<1>5. TypeOK'
  BY <1>2, <1>3, <1>4 DEF LayoutInv, TypeOK
<1>6. \A a \in genNodes : Leq(Plus(a, GenSize), NextGen)
  BY <1>1, <1>2, NextGenIsFree DEF Plus, Leq, Addr
<1>7. NodesAreApart'
  BY <1>4, <1>6, NextGenIsFree DEF LayoutInv, NodesAreApart
<1>8. NodesAreInside'
  <2>1. Plus(NextGen, GenSize - 1).f <= end.f
    BY <1>2 DEF end, Plus, Addr
  <2>2. \A a \in genNodes : Plus(a, GenSize - 1).f \in Nat
    <3> SUFFICES ASSUME NEW a \in genNodes PROVE Plus(a, GenSize - 1) \in Addr
      BY DEF Addr
    <3> QED BY <1>1, PlusType
  <2>3. Plus(NextGen, GenSize - 1).f \in Nat /\ end.f \in Nat
    BY <1>2 DEF Plus, Addr
  <2> QED BY <1>1, <1>3, <1>4, <2>1, <2>2, <2>3 DEF LayoutInv, NodesAreInside
<1>9. Frontier'
  BY <1>4, <1>6, NextGenIsFree DEF LayoutInv, Frontier
<1>10. Bounds'
  BY <1>1, <1>3, <1>4 DEF LayoutInv, Bounds, end
<1> QED BY <1>4, <1>5, <1>7, <1>8, <1>9, <1>10 DEF LayoutInv

LEMMA NextLayout == LayoutInv /\ [Next]_vars => LayoutInv'
<1> SUFFICES ASSUME LayoutInv, [Next]_vars PROVE LayoutInv'
  OBVIOUS
<1>1. CASE UNCHANGED <<size, lastGen, lastPage, lastPages, genNodes, pageNodes>>
           /\ state' \in {"up", "aborted"}
  BY <1>1 DEF LayoutInv, TypeOK, NodesAreApart, NodesAreInside,
              Frontier, Bounds
<1>2. CASE Reopen
  BY <1>1, <1>2 DEF Reopen
<1>3. CASE UNCHANGED vars
  BY <1>1, <1>3 DEF vars, LayoutInv, TypeOK
<1> QED BY <1>2, <1>3, NewPageStep, NewGenStep DEF Next

-----------------------------------------------------------------------------
\* Whatever pages and generations are made, in whatever order, across growth,
\* failed growth and restarts: no two nodes share memory.
THEOREM NodesNeverMeet == Spec => []NodesAreApart
<1>1. LayoutInv => NodesAreApart
  BY DEF LayoutInv
<1> QED BY <1>1, InitLayout, NextLayout, PTL DEF Spec

\* And none reaches beyond the end of the file.
THEOREM NodesStayInside == Spec => []NodesAreInside
<1>1. LayoutInv => NodesAreInside
  BY DEF LayoutInv
<1> QED BY <1>1, InitLayout, NextLayout, PTL DEF Spec
=============================================================================
