------------------------------ MODULE HeapLayout ------------------------------
(***************************************************************************)
(* Where the allocator (src/src/alloc.c) puts generations and pages in the *)
(* database file, and how the file grows.                                  *)
(*                                                                         *)
(* Both kinds of node are laid out upwards and are never moved or given    *)
(* back.  Generations are small and share a physical page with each other, *)
(* never with a page; pages are whole physical pages.  An address is a     *)
(* record of a frame (physical page) `f` and an offset `o` in it.          *)
(***************************************************************************)
EXTENDS Naturals

CONSTANTS PAGE_SIZE,        \* bytes of a physical page
          GenSize,          \* sizeof(struct generation)
          INITIAL_PAGES,    \* frames of a new heap
          PageSizes,        \* sizes of pages, in frames, that are asked for
          MaxFrames         \* bound: frames of the heap from which nodes are added

ASSUME LayoutAssumption ==
    /\ PAGE_SIZE \in Nat /\ GenSize \in Nat \ {0} /\ 2 * GenSize < PAGE_SIZE
    /\ INITIAL_PAGES \in Nat /\ INITIAL_PAGES > 3    \* alloc.h:13 and a free last frame
    /\ PageSizes \subseteq Nat \ {0}
    /\ MaxFrames \in Nat

VARIABLES size,             \* heap->size, in frames
          lastGen,          \* heap->last_gen, an address
          lastPage,         \* heap->last_page, a frame
          lastPages,        \* heap->last_page->pages
          genNodes,         \* addresses of all generations
          pageNodes,        \* all pages: first frame and number of frames
          state             \* "up", or "aborted" by the assert in maybe_grow_heap

vars == <<size, lastGen, lastPage, lastPages, genNodes, pageNodes, state>>

Addr == [f : Nat, o : 0 .. PAGE_SIZE - 1]

\* Pointer arithmetic: n bytes on, for n < PAGE_SIZE.
Plus(a, n) == IF a.o + n < PAGE_SIZE
              THEN [f |-> a.f, o |-> a.o + n]
              ELSE [f |-> a.f + 1, o |-> a.o + n - PAGE_SIZE]

\* a < b, a <= b
Less(a, b) == a.f < b.f \/ (a.f = b.f /\ a.o < b.o)
Leq(a, b)  == a.f < b.f \/ (a.f = b.f /\ a.o <= b.o)

StartOf(frame) == [f |-> frame, o |-> 0]

\* round_page_up
RoundUp(a) == IF a.o = 0 THEN a.f ELSE a.f + 1

-----------------------------------------------------------------------------
(***************************************************************************)
(* maybe_grow_heap, expand_heap_space                                      *)
(***************************************************************************)

\* The size of the heap, in frames, once address a was asked to be inside it.
\* min_expand is the distance of a from the end, rounded up to whole frames
\* here; it is whole already for a page, and less than the heap, so that the
\* heap is doubled, for a generation.
Grown(a) ==
    LET min == RoundUp(a) - size
    IN  IF a.f < size THEN size
        ELSE IF 2 * size - size < min * 2 THEN min * 2 ELSE 2 * size

\* Mutant of Inside: the assert is compiled out.
InsideUnchecked(a, newSize) == TRUE

\* assert(addr < map_start + size)
Inside(a, newSize) == a.f < newSize

-----------------------------------------------------------------------------
\* new_db: header, first generation and first page, a frame for each.
Init ==
    /\ size = INITIAL_PAGES
    /\ lastGen = StartOf(1)
    /\ lastPage = 2 /\ lastPages = 1
    /\ genNodes = {StartOf(1)}
    /\ pageNodes = {[at |-> 2, pages |-> 1]}
    /\ state = "up"

\* new_page
NextPage == IF Less(lastGen, StartOf(lastPage))
            THEN lastPage + lastPages
            ELSE RoundUp(Plus(lastGen, GenSize))

NewPage(n) ==
    LET end == StartOf(NextPage + n)
    IN  /\ state = "up" /\ size <= MaxFrames
        /\ lastPage' = NextPage
        /\ size' = Grown(end)
        /\ IF Inside(end, Grown(end))
           THEN /\ lastPages' = n
                /\ pageNodes' = pageNodes \cup {[at |-> NextPage, pages |-> n]}
                /\ UNCHANGED state
           ELSE /\ state' = "aborted"
                /\ lastPages' = 0           \* the file grew, and is all zero there
                /\ UNCHANGED pageNodes
        /\ UNCHANGED <<lastGen, genNodes>>

\* Mutant of NextGen: the page in the way is not looked for.
NextGenBlind == Plus(lastGen, GenSize)

\* new_gen: stay in the frame while two more generations end before its end,
\* go on over its end if no page was laid out since, and else start behind the
\* last page.
NextGen ==
    IF \/ Plus(lastGen, 2 * GenSize).f = lastGen.f
       \/ Less(StartOf(lastPage), lastGen)
    THEN Plus(lastGen, GenSize)
    ELSE StartOf(lastPage + lastPages)

NewGen ==
    LET end == Plus(NextGen, GenSize)
    IN  /\ state = "up" /\ size <= MaxFrames
        /\ lastGen' = NextGen
        /\ size' = Grown(end)
        /\ IF Inside(end, Grown(end))
           THEN /\ genNodes' = genNodes \cup {NextGen}
                /\ UNCHANGED state
           ELSE /\ state' = "aborted"
                /\ UNCHANGED genNodes
        /\ UNCHANGED <<lastPage, lastPages, pageNodes>>

\* The file is opened again by another process: the header, and so last_page,
\* is as the failed assert left it.
Reopen ==
    /\ state = "aborted"
    /\ state' = "up"
    /\ UNCHANGED <<size, lastGen, lastPage, lastPages, genNodes, pageNodes>>

Next == NewGen \/ Reopen \/ \E n \in PageSizes : NewPage(n)

Spec == Init /\ [][Next]_vars

-----------------------------------------------------------------------------
TypeOK ==
    /\ size \in Nat
    /\ lastGen \in Addr
    /\ lastPage \in Nat /\ lastPages \in Nat
    /\ genNodes \subseteq Addr
    /\ pageNodes \subseteq [at : Nat, pages : Nat \ {0}]
    /\ state \in {"up", "aborted"}

\* The frames a generation at a lies in.
GenFrames(a) == {a.f, Plus(a, GenSize - 1).f}

PageFrames(p) == p.at .. p.at + p.pages - 1

\* "once we have an object in any part of a page we own the entire page"
\* (alloc.c:946): no generation is written over another one, and no frame of a
\* page, which may become read only, holds a generation or another page.
NodesAreApart ==
    /\ \A a, b \in genNodes : a = b \/ Leq(Plus(a, GenSize), b) \/ Leq(Plus(b, GenSize), a)
    /\ \A p, q \in pageNodes : p = q \/ PageFrames(p) \cap PageFrames(q) = {}
    /\ \A a \in genNodes, p \in pageNodes : GenFrames(a) \cap PageFrames(p) = {}

\* Every node lies inside the heap, and every page ends before the last frame:
\* the last entry of the protection map is never read only, merge_in_map never
\* has to take a frame from it without one following, and mremap always finds
\* it whole.
NodesAreInside == /\ \A p \in pageNodes : p.at + p.pages < size
                  /\ \A a \in genNodes : Plus(a, GenSize - 1).f < size

\* "increases the heap size to include that address" (alloc.c:828): the assert
\* behind it does not fail.
GrowsEnough == state # "aborted"
=============================================================================
