------------------------------ MODULE SnapHeap ------------------------------
(***************************************************************************)
(* The versioned heap of an evaler (src/src/alloc.c): a database file that *)
(* is mapped shared into the process, holds a tree of generations and the  *)
(* pages they own, and keeps old versions of pages by copying a page when  *)
(* a write to it faults.                                                   *)
(*                                                                         *)
(* A page lives at a frame (its first physical page).  The program reaches *)
(* it at its real address, `real`; a copy of an old version lies elsewhere *)
(* and remembers the real address it must be moved back to.  What a page   *)
(* holds is abstracted to `used`, the units its segments take, and `val`,  *)
(* the last write to it.                                                   *)
(*                                                                         *)
(* The file survives the process, which may die between two stores of an   *)
(* operation: everything but `proc`, `target`, `table` and `prot` is state *)
(* of the file.  Frame 0 holds the header, frame 1 the *)
(* generations; where they spill over is the subject of HeapLayout.        *)
(***************************************************************************)
EXTENDS ProtMap

CONSTANTS GENERATION_CHILDREN,  \* slots in a generation
          MaxNodes,             \* bound: generation nodes in the file
          MaxGen,               \* bound: generation ids handed out
          Units,                \* what one physical page has room for
          Null                  \* the null pointer

ASSUME SnapAssumption ==
    /\ GENERATION_CHILDREN \in Nat \ {0, 1}
    /\ MaxNodes \in Nat \ {0}
    /\ MaxGen \in Nat
    /\ Units \in Nat \ {0}
    /\ NumFrames > 3

VARIABLES proc,             \* the evaler process: "down", "up" or "aborted"
          gens,             \* generation nodes, Null where none was made yet
          pages,            \* frame -> the page that starts there, or Null
          working,          \* heap->working
          committed,        \* heap->committed
          lastGen,          \* heap->last_gen
          lastPage,         \* heap->last_page
          lastGenIndex,     \* heap->last_gen_index
          target            \* the node a checkout is moving to, Null if none

fileVars == <<gens, pages, working, committed, lastGen, lastPage, lastGenIndex>>
heapVars == <<proc, fileVars, target, mapVars>>

Nodes == 0 .. MaxNodes - 1
root  == 0
initialPage == 2

\* struct node *: what a slot of a generation points to.
GenRef(i)  == [type |-> "generation", at |-> i]
PageRef(f) == [type |-> "page", at |-> f]
Ref == [type : {"generation"}, at : Nodes] \cup [type : {"page"}, at : Frames]

Generation == [gen : 0 .. MaxGen, committed : BOOLEAN, c : Seq(Ref)]
Page == [real : Frames, committed : BOOLEAN, pages : Nat \ {0}, used : Nat, val : 0 .. MaxGen]

ASSUME NullAssumption == Null \notin Nat \cup Generation \cup Page

\* The nodes there are.
AllGens  == {i \in Nodes : gens[i] # Null}
AllPages == {f \in Frames : pages[f] # Null}

-----------------------------------------------------------------------------
(***************************************************************************)
(* Walking the tree                                                        *)
(***************************************************************************)

\* walk_nodes calls back for the node it starts from and for what each slot of
\* a generation holds, so often at most.
Visits == MaxNodes * GENERATION_CHILDREN + 1

\* The nodes a walk has still to visit, and those of the wanted type it has met.
WalkState == [todo : Seq(Ref), met : Seq(Nat)]

\* One call back: a generation with an id above max is skipped with all it holds.
Visit(gs, max, type) ==
    [w \in WalkState |->
        LET ref   == Head(w.todo)
            below == IF ref.type = "generation" THEN gs[ref.at].c ELSE <<>>
        IN  IF w.todo = <<>> THEN w
            ELSE IF ref.type = "generation" /\ gs[ref.at].gen > max
            THEN [todo |-> Tail(w.todo), met |-> w.met]
            ELSE [todo |-> below \o Tail(w.todo),
                  met  |-> IF ref.type = type THEN Append(w.met, ref.at) ELSE w.met]]

\* walk_nodes: the nodes of one type, generation i and all below it, in the
\* order the callbacks see them.
Walk(gs, i, max, type) ==
    LET walk[n \in 0 .. Visits] ==
          IF n = 0 THEN [todo |-> <<GenRef(i)>>, met |-> <<>>]
                   ELSE Visit(gs, max, type)[walk[n - 1]]
    IN  walk[Visits].met

GensIn(gs, i)       == Walk(gs, i, MaxGen, "generation")
PagesIn(gs, i, max) == Walk(gs, i, max, "page")

\* The first element of s that passes Test, Null if none does.
FirstThat(s, Test(_)) == LET passing == {k \in DOMAIN s : Test(s[k])}
                         IN  IF passing = {} THEN Null ELSE s[Min(passing)]

\* first_free_slot: the first generation at or below i with a free slot.  The
\* slots of a generation fill up from the left and never become free singly.
FirstFreeSlot(gs, i) ==
    FirstThat(GensIn(gs, i), LAMBDA g : Len(gs[g].c) < GENERATION_CHILDREN)

\* find_page: the page that covers frame f.
Covers(p, f) == p <= f /\ f < p + pages[p].pages
FindPage(f) == FirstThat(PagesIn(gens, root, MaxGen), LAMBDA p : Covers(p, f))

\* first_page_fit, page_can_fit
FirstPageFit(gs, i, size) ==
    FirstThat(PagesIn(gs, i, MaxGen),
              LAMBDA p : pages[p].used + size <= Units * pages[p].pages)

\* Mutants of NewGenBetween: the last child is not moved to the new node; the
\* new node has the newest id, not its parent's.
NewGenBetweenShort(gs, parent, child) ==
    [gs EXCEPT ![child] = [gs[parent] EXCEPT !.c = Front(@)], ![parent].c = <<GenRef(child)>>]
NewGenBetweenYoung(gs, parent, child) ==
    [gs EXCEPT ![child] = [gs[parent] EXCEPT !.gen = lastGenIndex],
               ![parent].c = <<GenRef(child)>>]

\* new_gen_between: the new node takes all the children of its parent.
NewGenBetween(gs, parent, child) ==
    [gs EXCEPT ![child] = gs[parent], ![parent].c = <<GenRef(child)>>]

\* The search for a slot at or below i, which makes room when there is none.
SlotBelow(i) ==
    LET free  == FirstFreeSlot(gens, i)
        split == NewGenBetween(gens, i, lastGen + 1)
    IN  IF free # Null
        THEN [gens |-> gens, lastGen |-> lastGen, target |-> free]
        ELSE [gens |-> split, lastGen |-> lastGen + 1, target |-> FirstFreeSlot(split, i)]

\* assert(slot.target != NULL)
Found(slot) == /\ slot.lastGen \in Nodes
               /\ slot.target \in Nodes /\ slot.gens[slot.target] # Null

\* Put ref in the free slot found; `slot.target` is the generation it is in.
Attach(slot, ref) == [slot.gens EXCEPT ![slot.target].c = Append(@, ref)]

\* Mutant of Relink: no slot is changed.
RelinkNone(gs, moved) == gs

\* Every slot that holds the page at f now holds the page at moved[f].
Relink(gs, moved) ==
    [i \in Nodes |->
        IF gs[i] = Null THEN Null
        ELSE [gs[i] EXCEPT !.c = [k \in DOMAIN gs[i].c |->
                IF gs[i].c[k].type = "page" THEN PageRef(moved[gs[i].c[k].at])
                                            ELSE gs[i].c[k]]]]

\* Mutant of MapOfPage: one frame too many.
MapOfPageLonger(w, p) == [w |-> w, start |-> p, len |-> pages[p].pages + 1]

\* The frames of page p, as a map to merge in.
MapOfPage(w, p) == [w |-> w, start |-> p, len |-> pages[p].pages]

\* Mutant of ReadOnlyMaps: only the pages below the committed generation.
ReadOnlyMapsBelow(gs) ==
    LET add(maps, p) == IF pages[p].committed /\ pages[p].real = p
                        THEN Append(maps, MapOfPage(FALSE, p)) ELSE maps
    IN  FoldLeft(add, <<>>, PagesIn(gs, committed, MaxGen))

\* pages_in_gen: the committed pages that are at their real address.
ReadOnlyMaps(gs) ==
    LET add(maps, p) == IF pages[p].committed /\ pages[p].real = p
                        THEN Append(maps, MapOfPage(FALSE, p)) ELSE maps
    IN  FoldLeft(add, <<>>, PagesIn(gs, root, MaxGen))

\* Do two places in a list of pages belong to one real address?
SameReal(met, j, k) == pages[met[j]].real = pages[met[k]].real

\* Mutant of PagesUpToGen: the first page met for an address is kept.
PagesUpToGenFirst(g) ==
    LET first[met \in Seq(Nat)] ==
          [k \in {j \in DOMAIN met : \A i \in 1 .. j - 1 : ~SameReal(met, i, j)} |-> met[k]]
    IN  first[PagesIn(gens, root, g)]

\* pages_up_to_gen: of the pages in generations up to id g, the one met last for
\* each real address, at the place in the walk where the address is first met.
PagesUpToGen(g) ==
    LET latest[met \in Seq(Nat)] ==
          [k \in {j \in DOMAIN met : \A i \in 1 .. j - 1 : ~SameReal(met, i, j)} |->
              met[Max({j \in DOMAIN met : SameReal(met, j, k)})]]
    IN  latest[PagesIn(gens, root, g)]

\* Mutant of FreshPage: the size of the last page is forgotten.
FreshPageNext == lastPage + 1

\* new_page: pages are laid out one after the other.  The last frame of the
\* heap stays free, as maybe_grow_heap sees to it.
FreshPage == lastPage + pages[lastPage].pages
RoomFor(n) == FreshPage + n < NumFrames

\* Mutants of CopyOf: the copy is one frame long, or its own real address.
CopyOfOne(p)  == [pages[p] EXCEPT !.pages = 1]
CopyOfHome(p) == [pages[p] EXCEPT !.real = FreshPage]

\* page_copy: everything, the real address and the flags included.
CopyOf(p) == pages[p]

\* new_gen
NewGen(id) == [gen |-> id, committed |-> FALSE, c |-> <<>>]

\* merge_in_table(maps), and the end of the process if an assert in it fails.
MergeMaps(maps) ==
    LET m == Merged(maps)
    IN  /\ table' = m.table /\ prot' = m.prot
        /\ proc' = IF m.table = Aborted THEN "aborted" ELSE "up"

-----------------------------------------------------------------------------
(***************************************************************************)
(* Opening the file                                                        *)
(***************************************************************************)

\* No file yet and no process.
Init ==
    /\ proc = "down"
    /\ gens = [i \in Nodes |-> Null]
    /\ pages = [f \in Frames |-> Null]
    /\ working = Null /\ committed = Null
    /\ lastGen = root /\ lastPage = initialPage /\ lastGenIndex = 0
    /\ target = Null
    /\ MapInit

\* new_db: the first generation is committed, the heap is not.
NewDb ==
    /\ gens[root] = Null
    /\ gens' = [gens EXCEPT ![root] =
                   [gen |-> 0, committed |-> TRUE, c |-> <<PageRef(initialPage)>>]]
    /\ pages' = [pages EXCEPT ![initialPage] =
                   [real |-> initialPage, committed |-> TRUE, pages |-> 1,
                    used |-> 0, val |-> 0]]
    /\ working' = root
    /\ committed' = Null
    /\ lastGen' = root /\ lastPage' = initialPage /\ lastGenIndex' = 0

\* snap_init where there is no file.
CreateDb ==
    /\ proc # "up"
    /\ NewDb
    /\ proc' = "up"
    /\ target' = Null
    /\ Remap

\* snap_init on an existing file: an uncommitted heap is "rolled back".
OpenDb ==
    /\ proc # "up" /\ gens[root] # Null
    /\ proc' = "up"
    /\ working' = committed
    /\ target' = Null
    /\ Remap
    /\ UNCHANGED <<gens, pages, committed, lastGen, lastPage, lastGenIndex>>

SnapInit == CreateDb \/ OpenDb

-----------------------------------------------------------------------------
(***************************************************************************)
(* A transaction                                                           *)
(***************************************************************************)

\* snap_begin_mut: a new generation below the committed one, and every page
\* that belongs to a committed generation made read only.
BeginMut ==
    LET slot == SlotBelow(committed)
        next == slot.lastGen + 1
        grown == Attach([slot EXCEPT !.gens[next] = NewGen(lastGenIndex + 1)], GenRef(next))
    IN  /\ proc = "up" /\ target = Null /\ committed # Null
        /\ lastGenIndex < MaxGen /\ next \in Nodes
        /\ Found(slot)
        /\ gens' = grown
        /\ lastGen' = next
        /\ lastGenIndex' = lastGenIndex + 1
        /\ working' = next
        /\ MergeMaps(ReadOnlyMaps(grown))
        /\ UNCHANGED <<pages, committed, lastPage, target>>

\* The store of a program to a frame it may write to: memory knows nothing of
\* the tree.  Its value stands for the transaction under way, the newest.
PlainWrite(f) ==
    /\ proc = "up" /\ target = Null /\ working # Null /\ prot[f]
    /\ \E p \in AllPages :
          /\ Covers(p, f)
          /\ pages' = [pages EXCEPT ![p].val = lastGenIndex]
    /\ UNCHANGED <<proc, gens, working, committed, lastGen, lastPage, lastGenIndex,
                   target, mapVars>>

\* What handle_segv asks of a fault at f before it changes anything.
Trappable(f) ==
    LET p == FindPage(f)
    IN  /\ working # committed
        /\ p \in AllPages /\ pages[p].committed
        /\ Merged(<<MapOfPage(TRUE, p)>>).table # Aborted

\* The tree after the page hit has been replaced by its copy.
CopyInPlace(slot, p) ==
    Relink(slot.gens, [q \in Frames |-> IF q = p THEN FreshPage ELSE q])

\* A write that faults: handle_segv copies the page, the copy takes its place
\* in the generation that owns it and the page moves to the working one; the
\* write is then repeated.
TrappedWrite(f) ==
    LET p    == FindPage(f)
        slot == SlotBelow(working)
    IN  /\ proc = "up" /\ target = Null /\ ~prot[f]
        /\ Trappable(f)
        /\ RoomFor(pages[p].pages)
        /\ Found(slot)
        /\ pages' = [pages EXCEPT ![FreshPage] = CopyOf(p),
                                  ![p] = [pages[p] EXCEPT !.committed = FALSE,
                                                          !.val = lastGenIndex]]
        /\ gens' = Attach([slot EXCEPT !.gens = CopyInPlace(slot, p)], PageRef(p))
        /\ lastGen' = slot.lastGen
        /\ lastPage' = FreshPage
        /\ MergeMaps(<<MapOfPage(TRUE, p)>>)
        /\ UNCHANGED <<working, committed, lastGenIndex, target>>

\* handle_segv gives up, with exit(2) or an assert.
TrapFails(f) ==
    /\ proc = "up" /\ target = Null /\ ~prot[f]
    /\ ~Trappable(f)
    /\ proc' = "aborted"
    /\ UNCHANGED <<fileVars, target, mapVars>>

\* A store by the interpreter, and the store by which snap_free marks a
\* segment as unused: both write to the page they hit.
Write(f) == PlainWrite(f) \/ TrappedWrite(f) \/ TrapFails(f)

\* snap_malloc of `size` units, where page p of the working generation fits.
MallocFits(size, p) ==
    /\ proc = "up" /\ target = Null /\ working # committed
    /\ p \in AllPages /\ p = FirstPageFit(gens, working, size)
    /\ pages' = [pages EXCEPT ![p].used = @ + size]
    /\ UNCHANGED <<proc, gens, working, committed, lastGen, lastPage, lastGenIndex,
                   target, mapVars>>

\* snap_malloc where no page of the working generation fits: a new page p.
MallocGrows(size, p) ==
    LET slot == SlotBelow(working)
    IN  /\ proc = "up" /\ target = Null /\ working # committed
        /\ p = FreshPage
        /\ FirstPageFit(gens, working, size) = Null
        /\ RoomFor((size \div Units) + 1)
        /\ Found(slot)
        /\ pages' = [pages EXCEPT ![p] =
                        [real |-> p, committed |-> FALSE, pages |-> (size \div Units) + 1,
                         used |-> size, val |-> 0]]
        /\ gens' = Attach(slot, PageRef(p))
        /\ lastGen' = slot.lastGen
        /\ lastPage' = p
        /\ UNCHANGED <<proc, working, committed, lastGenIndex, target, mapVars>>

\* heap->committed is read through when there is no committed generation
\* (snap_checkout, snap_begin_mut and the driver before it), and heap->working
\* when there is no working one (snap_commit).
NullDeref ==
    /\ proc = "up" /\ target = Null /\ committed = Null
    /\ proc' = "aborted"
    /\ UNCHANGED <<fileVars, target, mapVars>>

\* The assert of _snap_malloc that a transaction is under way fails.
MallocAborts ==
    /\ proc = "up" /\ target = Null /\ working = committed
    /\ proc' = "aborted"
    /\ UNCHANGED <<fileVars, target, mapVars>>

Malloc(size, p) == MallocFits(size, p) \/ MallocGrows(size, p)

\* set_committed, for everything below the working generation.
FlagCommitted ==
    LET flaggedGens  == AllGens \cap ToSet(GensIn(gens, working))
        flaggedPages == AllPages \cap ToSet(PagesIn(gens, working, MaxGen))
    IN  /\ gens' = [i \in Nodes |-> IF i \in flaggedGens
                                    THEN [gens[i] EXCEPT !.committed = TRUE] ELSE gens[i]]
        /\ pages' = [f \in Frames |-> IF f \in flaggedPages
                                      THEN [pages[f] EXCEPT !.committed = TRUE] ELSE pages[f]]

\* snap_commit
Commit ==
    /\ proc = "up" /\ target = Null /\ working # Null
    /\ FlagCommitted
    /\ committed' = working
    /\ UNCHANGED <<proc, working, lastGen, lastPage, lastGenIndex, target, mapVars>>

-----------------------------------------------------------------------------
(***************************************************************************)
(* snap_checkout                                                           *)
(*                                                                         *)
(* The pages to move back are found first and moved one after the other,   *)
(* so that the process can die in between.  A page moved back is at home   *)
(* and the others are found where they were: the next page to move can be  *)
(* read off the tree again.                                                *)
(***************************************************************************)

\* first_gen_for_id
NodeOf(g) == FirstThat(GensIn(gens, root), LAMBDA i : gens[i].gen = g)

\* The first of the pages listed that is not at its real address.
Displaced(p) == pages[p].real # p
NextToMove == FirstThat(PagesUpToGen(gens[target].gen), Displaced)

\* find_parent: is page p in a generation?
HasParent(p) == p \in ToSet(PagesIn(gens, root, MaxGen))

\* Nothing to do: generation g is the committed one.
CheckoutSame(g) ==
    /\ proc = "up" /\ target = Null /\ committed # Null
    /\ working = committed /\ gens[committed].gen = g
    /\ UNCHANGED heapVars

CheckoutStart(g) ==
    /\ proc = "up" /\ target = Null /\ committed # Null
    /\ working = committed /\ gens[committed].gen # g
    /\ NodeOf(g) \in AllGens
    /\ target' = NodeOf(g)
    /\ UNCHANGED <<proc, fileVars, mapVars>>

\* Mutant of Exchanged: the slots keep their pages.
ExchangedNot(p, home) == [q \in Frames |-> q]

Exchanged(p, home) == [q \in Frames |-> IF q = p THEN home ELSE IF q = home THEN p ELSE q]

\* One page moved back: its slot and the slot of the page at its real address
\* are exchanged, then page_swap exchanges what the two pages hold.
CheckoutSwap ==
    LET p    == NextToMove
        home == pages[p].real
    IN  /\ proc = "up" /\ target # Null
        /\ p \in AllPages /\ HasParent(home)
        /\ gens' = Relink(gens, Exchanged(p, home))
        /\ pages' = [pages EXCEPT ![p] = pages[home], ![home] = pages[p]]
        /\ MergeMaps(<<MapOfPage(TRUE, p), MapOfPage(TRUE, home)>>)
        /\ UNCHANGED <<working, committed, lastGen, lastPage, lastGenIndex, target>>

\* The page at the real address is in no generation: assert(rel2.parent != NULL).
CheckoutFails ==
    /\ proc = "up" /\ target # Null
    /\ NextToMove # Null /\ ~HasParent(pages[NextToMove].real)
    /\ proc' = "aborted" /\ target' = Null
    /\ UNCHANGED <<fileVars, mapVars>>

CheckoutEnd ==
    /\ proc = "up" /\ target # Null
    /\ NextToMove = Null
    /\ committed' = target
    /\ working' = target
    /\ target' = Null
    /\ UNCHANGED <<proc, gens, pages, lastGen, lastPage, lastGenIndex, mapVars>>

-----------------------------------------------------------------------------
(***************************************************************************)
(* The end of the process, and other processes                             *)
(***************************************************************************)

\* The process is gone and its mappings with it.
Gone == /\ proc = "up" /\ proc' = "down"
        /\ target' = Null
        /\ Remap

\* The process ends between two operations: the file keeps what was written.
Exit == Gone /\ UNCHANGED fileVars

\* It dies in handle_segv, `done` stores short of the end: the copy is made;
\* there is a slot for the page; the copy has the page's place; the page is
\* marked as uncommitted, but in no generation.
TrapDies(f) ==
    LET p    == FindPage(f)
        slot == SlotBelow(working)
    IN  /\ Gone /\ target = Null /\ ~prot[f]
        /\ Trappable(f)
        /\ RoomFor(pages[p].pages)
        /\ Found(slot)
        /\ \E done \in 1 .. 4 :
              /\ lastGen' = IF done = 1 THEN lastGen ELSE slot.lastGen
              /\ gens' = CASE done = 1 -> gens
                           [] done = 2 -> slot.gens
                           [] done > 2 -> CopyInPlace(slot, p)
              /\ pages' = [pages EXCEPT ![FreshPage] = CopyOf(p),
                                        ![p].committed = done < 4]
        /\ lastPage' = FreshPage
        /\ UNCHANGED <<working, committed, lastGenIndex>>

\* It dies in snap_malloc: the new page is in no generation yet.
MallocDies(size) ==
    LET slot == SlotBelow(working)
    IN  /\ Gone /\ target = Null /\ working # committed
        /\ FirstPageFit(gens, working, size) = Null
        /\ RoomFor((size \div Units) + 1)
        /\ Found(slot)
        /\ pages' = [pages EXCEPT ![FreshPage] =
                        [real |-> FreshPage, committed |-> FALSE,
                         pages |-> (size \div Units) + 1, used |-> 0, val |-> 0]]
        /\ lastPage' = FreshPage
        /\ gens' = slot.gens /\ lastGen' = slot.lastGen
        /\ UNCHANGED <<working, committed, lastGenIndex>>

\* It dies in snap_begin_mut: the new generation is in no other one yet.
BeginDies ==
    LET slot == SlotBelow(committed)
        next == slot.lastGen + 1
    IN  /\ Gone /\ target = Null /\ committed # Null
        /\ lastGenIndex < MaxGen /\ next \in Nodes
        /\ Found(slot)
        /\ gens' = [slot.gens EXCEPT ![next] = NewGen(lastGenIndex + 1)]
        /\ lastGen' = next
        /\ lastGenIndex' = lastGenIndex + 1
        /\ UNCHANGED <<pages, working, committed, lastPage>>

\* It dies in snap_commit: all the flags are set, heap->committed is not.
CommitDies ==
    /\ Gone /\ target = Null /\ working # Null
    /\ FlagCommitted
    /\ UNCHANGED <<working, committed, lastGen, lastPage, lastGenIndex>>

\* Another process (memgraph, the driver with --list) opens the file to read
\* it.  Its snap_init takes the transaction of this one for a dead process's
\* and "rolls it back".
Peek ==
    /\ proc = "up" /\ target = Null /\ working # committed
    /\ working' = committed
    /\ UNCHANGED <<proc, gens, pages, committed, lastGen, lastPage, lastGenIndex,
                   target, mapVars>>

\* If it is the first to open the file it creates it.
PeekFirst ==
    /\ proc # "up"
    /\ NewDb
    /\ UNCHANGED <<proc, target, mapVars>>

Next ==
    \/ SnapInit \/ BeginMut \/ Commit \/ Exit
    \/ \E f \in Frames : Write(f) \/ TrapDies(f)
    \/ \E size \in Nat \ {0} : MallocDies(size) \/ \E p \in Frames : Malloc(size, p)
    \/ MallocAborts \/ NullDeref
    \/ \E g \in 0 .. MaxGen : CheckoutSame(g) \/ CheckoutStart(g)
    \/ CheckoutSwap \/ CheckoutFails \/ CheckoutEnd
    \/ BeginDies \/ CommitDies \/ Peek \/ PeekFirst

Spec == Init /\ [][Next]_heapVars

-----------------------------------------------------------------------------
(***************************************************************************)
(* Invariants of the heap                                                  *)
(***************************************************************************)

\* The nodes of the file and the header's pointers are what the structs of
\* alloc.h say, and a pointer that is not null points to a node that was made.
TypeOK ==
    /\ proc \in {"down", "up", "aborted"}
    /\ gens \in [Nodes -> Generation \cup {Null}]
    /\ pages \in [Frames -> Page \cup {Null}]
    /\ working \in AllGens \cup {Null}
    /\ committed \in AllGens \cup {Null}
    /\ target \in AllGens \cup {Null}
    /\ lastGen \in Nodes
    /\ lastPage \in Frames
    /\ lastGenIndex \in 0 .. MaxGen
    /\ IF gens[root] = Null THEN AllGens = {} /\ AllPages = {} ELSE lastPage \in AllPages
    /\ committed # Null \/ target # Null => working # Null

\* Where a page says it belongs there is a page of the same size and the same
\* real address: what the three asserts of page_swap (alloc.c:892-894) need of
\* every page a checkout may move.
PagesHaveHomes ==
    \A f \in AllPages :
        LET home == pages[f].real
        IN  /\ home \in AllPages
            /\ pages[home].real = home
            /\ pages[home].pages = pages[f].pages

\* No two pages overlap, and all of them end where the next one will start or
\* before it.
PagesAreDisjoint ==
    \A f, q \in AllPages :
        /\ f + pages[f].pages <= lastPage + pages[lastPage].pages
        /\ q > f => q >= f + pages[f].pages

\* Every node made is in the tree exactly once: a page that a trap or a
\* checkout relinks is neither lost nor owned twice.
Slots == {s \in AllGens \X (1 .. GENERATION_CHILDREN) : s[2] \in DOMAIN gens[s[1]].c}
Held(s) == gens[s[1]].c[s[2]]

TreeOK ==
    /\ \A i \in AllGens : Len(gens[i].c) <= GENERATION_CHILDREN
    /\ \A s, t \in Slots : Held(s) = Held(t) => s = t
    /\ {Held(s) : s \in Slots} =
          {PageRef(f) : f \in AllPages} \cup {GenRef(i) : i \in AllGens \ {root}}
    /\ gens[root] # Null => /\ Len(GensIn(gens, root)) = Cardinality(AllGens)
                            /\ Len(PagesIn(gens, root, MaxGen)) = Cardinality(AllPages)
=============================================================================
