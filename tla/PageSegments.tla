----------------------------- MODULE PageSegments -----------------------------
(***************************************************************************)
(* What a page holds (src/src/alloc.c, from page_head_end on): a head with *)
(* one pointer per segment, growing upwards, and the segments themselves,  *)
(* growing downwards from the end of the page.                             *)
(*                                                                         *)
(* `pgs` are the pages of the working generation in the order first_page_  *)
(* fit meets them, `segs` all the segments in them.  Offsets count bytes   *)
(* from the start of the page.                                             *)
(***************************************************************************)
EXTENDS Integers, Sequences

CONSTANTS PAGE_SIZE,        \* bytes of a physical page
          PageHead,         \* sizeof(struct page)
          SegmentHead,      \* sizeof(struct segment)
          Pointer,          \* sizeof(void *)
          Requests,         \* sizes the interpreter asks for
          MaxPages          \* bound: pages of the generation

ASSUME SegmentsAssumption ==
    /\ PAGE_SIZE \in Nat /\ PageHead \in Nat /\ PageHead < PAGE_SIZE
    /\ SegmentHead \in Nat \ {0} /\ Pointer \in Nat
    /\ Requests \subseteq Nat \ {0}
    /\ MaxPages \in Nat

VARIABLES pgs,              \* <<[bytes, low, len], ...>>
          segs,             \* {[page, at, size, used], ...}
          asked,            \* size of the last request, 0 before the first
          state             \* "up", or "aborted" by the assert on fit.p

vars == <<pgs, segs, asked, state>>

\* `low` is where the lowest segment starts, `bytes` if there is none: one
\* more than page_data_start.
Page == [bytes : Nat, low : Nat, len : Nat]
Segment == [page : Nat \ {0}, at : Nat, size : Nat \ {0}, used : BOOLEAN]

HeadEnd(p) == PageHead + Pointer * p.len            \* page_head_end

\* Mutant of CanFit: the heads are forgotten.
CanFitHeadless(p, n) == p.low - 1 - (PageHead + Pointer * p.len) > n

\* page_can_fit compares the room as a pointer, which is unsigned: less than
\* no room would be a lot of it.
Room(p) == p.low - 1 - HeadEnd(p)
CanFit(p, n) == Room(p) < 0 \/ Room(p) > n + Pointer + SegmentHead

\* first_page_fit
FirstFit(ps, i, n) == /\ i \in DOMAIN ps /\ CanFit(ps[i], n)
                      /\ \A j \in DOMAIN ps : j < i => ~CanFit(ps[j], n)

\* Mutant of FreshPage: one frame whatever n is.
FreshPageOne(n) == [bytes |-> PAGE_SIZE, low |-> PAGE_SIZE, len |-> 0]

\* new_page((size / PAGE_SIZE) + 1)
FreshPage(n) == LET bytes == PAGE_SIZE * ((n \div PAGE_SIZE) + 1)
                IN  [bytes |-> bytes, low |-> bytes, len |-> 0]

\* page_new_segment
SegmentIn(ps, i, n) == [page |-> i, at |-> ps[i].low - (n + SegmentHead),
                        size |-> n, used |-> TRUE]

\* `left` are the segments that stay as they are.
PutSegment(ps, i, n, left) ==
    /\ pgs'  = [ps EXCEPT ![i].low = @ - (n + SegmentHead), ![i].len = @ + 1]
    /\ segs' = left \cup {SegmentIn(ps, i, n)}

-----------------------------------------------------------------------------
Init == pgs = <<>> /\ segs = {} /\ asked = 0 /\ state = "up"

\* _snap_malloc: into the first page that fits, into a new page, or nowhere.
MallocInPage(n, i, left) ==
    /\ state = "up"
    /\ FirstFit(pgs, i, n)
    /\ PutSegment(pgs, i, n, left)
    /\ asked' = n /\ UNCHANGED state

MallocInNewPage(n, left) ==
    LET grown == Append(pgs, FreshPage(n))
    IN  /\ state = "up" /\ Len(pgs) < MaxPages
        /\ \A i \in DOMAIN pgs : ~CanFit(pgs[i], n)
        /\ asked' = n
        /\ IF CanFit(FreshPage(n), n)
           THEN PutSegment(grown, Len(grown), n, left) /\ UNCHANGED state
           ELSE pgs' = grown /\ state' = "aborted" /\ UNCHANGED segs

Malloc(n, left) == (\E i \in DOMAIN pgs : MallocInPage(n, i, left)) \/ MallocInNewPage(n, left)

\* Mutant of Freed: the segment is taken out of the page.
FreedForGood(s) == segs \ {s}

\* _snap_free: the segment is only marked, its room is never given out again.
Freed(s) == (segs \ {s}) \cup {[s EXCEPT !.used = FALSE]}

Free(s) ==
    /\ state = "up" /\ s.used
    /\ segs' = Freed(s)
    /\ UNCHANGED <<pgs, asked, state>>

\* snap_realloc to another size: a new segment, and the old one is freed.  (A
\* null pointer makes it a snap_malloc, size 0 a snap_free.)
Realloc(s, n) == s.used /\ Malloc(n, Freed(s))

Next == \/ \E n \in Requests : Malloc(n, segs) \/ \E s \in segs : Realloc(s, n)
        \/ \E s \in segs : Free(s)

Spec == Init /\ [][Next]_vars

-----------------------------------------------------------------------------
TypeOK ==
    /\ pgs \in Seq(Page)
    /\ segs \subseteq Segment
    /\ \A s \in segs : s.page \in DOMAIN pgs
    /\ asked \in Nat
    /\ state \in {"up", "aborted"}

\* Head and segments of a page never meet, and neither do two segments, used
\* or freed: a store through one pointer changes no other object and no
\* pointer of the head, which page_copy and page_swap relocate.
SegmentsAreApart ==
    /\ \A i \in DOMAIN pgs : HeadEnd(pgs[i]) < pgs[i].low /\ pgs[i].low <= pgs[i].bytes
    /\ \A s \in segs : /\ s.at >= pgs[s.page].low
                       /\ s.at + SegmentHead + s.size <= pgs[s.page].bytes
    /\ \A s, t \in segs : s.page = t.page /\ s # t =>
                              \/ s.at + SegmentHead + s.size <= t.at
                              \/ t.at + SegmentHead + t.size <= s.at

\* No pointer the interpreter holds is pulled from under it: a segment stays
\* where it is, and is only ever marked.
SegmentsStay ==
    [][\A s \in segs : \/ s \in segs'
                       \/ s.used /\ [s EXCEPT !.used = FALSE] \in segs']_segs

\* What page the new page should have been: the only sizes a page of its own
\* is too small for are those that leave less than the heads at its end.
OnlyTightSizesAbort ==
    state = "aborted" =>
        (asked % PAGE_SIZE) + PageHead + Pointer + SegmentHead + 1 >= PAGE_SIZE

\* assert(fit.p != NULL) behind the new page (alloc.c:1464) does not fail.
NewPageFits == state # "aborted"
=============================================================================
