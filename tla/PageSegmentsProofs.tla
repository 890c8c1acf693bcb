-------------------------- MODULE PageSegmentsProofs --------------------------
(***************************************************************************)
(* Head and segments of a page never meet, for every size of a page, of    *)
(* the structs and of the requests.                                        *)
(***************************************************************************)
EXTENDS PageSegments, SequenceTheorems, TLAPS

USE SegmentsAssumption

\* TypeOK and SegmentsAreApart of any pages and segments.
Typed(ps, ss) == /\ ps \in Seq(Page) /\ ss \subseteq Segment
                 /\ \A s \in ss : s.page \in DOMAIN ps

HeadsClear(ps) == \A i \in DOMAIN ps : HeadEnd(ps[i]) < ps[i].low /\ ps[i].low <= ps[i].bytes

Within(ps, s) == /\ s.at >= ps[s.page].low
                 /\ s.at + SegmentHead + s.size <= ps[s.page].bytes

Apart(s, t) == s.page = t.page /\ s # t => \/ s.at + SegmentHead + s.size <= t.at
                                           \/ t.at + SegmentHead + t.size <= s.at

Laid(ps, ss) == /\ Typed(ps, ss) /\ HeadsClear(ps)
                /\ \A s \in ss : Within(ps, s)
                /\ \A s, t \in ss : Apart(s, t)

SegInv == Laid(pgs, segs) /\ asked \in Nat /\ state \in {"up", "aborted"}

\* The room left in a page whose head is clear is not negative: the unsigned
\* comparison of page_can_fit is the one that was meant.  A new segment leaves
\* the head, one pointer longer, clear.
LEMMA RoomIsLeft ==
    ASSUME NEW p \in Page, NEW n \in Nat \ {0}, HeadEnd(p) < p.low, CanFit(p, n)
    PROVE  /\ p.low - (n + SegmentHead) \in Nat
           /\ HeadEnd([p EXCEPT !.low = @ - (n + SegmentHead), !.len = @ + 1])
                 < p.low - (n + SegmentHead)
<1> DEFINE h == HeadEnd(p)
           q == [p EXCEPT !.low = @ - (n + SegmentHead), !.len = @ + 1]
<1>1. p.low \in Nat /\ p.len \in Nat
  BY DEF Page
<1>2. Pointer * p.len \in Nat /\ Pointer * (p.len + 1) = Pointer * p.len + Pointer
  BY <1>1
<1>3. h \in Nat /\ HeadEnd(q) = h + Pointer
  BY <1>1, <1>2 DEF HeadEnd, Page
<1> HIDE DEF h, q
<1>4. p.low - 1 - h > n + Pointer + SegmentHead
  BY <1>1, <1>3 DEF CanFit, Room, h
<1> QED BY <1>1, <1>3, <1>4 DEF q, h

\* page_new_segment keeps everything in its place.
LEMMA PutLaid ==
    ASSUME NEW ps, NEW left, NEW i \in DOMAIN ps, NEW n \in Nat \ {0},
           Laid(ps, left), CanFit(ps[i], n), PutSegment(ps, i, n, left)
    PROVE  Laid(pgs', segs')
<1> DEFINE p == ps[i]
           new == SegmentIn(ps, i, n)
           q == [p EXCEPT !.low = @ - (n + SegmentHead), !.len = @ + 1]
<1>1. /\ ps \in Seq(Page) /\ left \subseteq Segment /\ p \in Page
      /\ \A s \in left : s.page \in DOMAIN ps
      /\ HeadEnd(p) < p.low /\ p.low <= p.bytes
  BY DEF Laid, Typed, HeadsClear
<1>2. pgs' = [ps EXCEPT ![i] = q] /\ segs' = left \cup {new}
  BY <1>1 DEF PutSegment
<1>3. new = [page |-> i, at |-> p.low - (n + SegmentHead), size |-> n, used |-> TRUE]
  BY DEF SegmentIn
<1>4. CanFit(p, n)
  OBVIOUS
<1>5. \A j \in DOMAIN ps : HeadEnd(ps[j]) < ps[j].low /\ ps[j].low <= ps[j].bytes
  BY DEF Laid, HeadsClear
<1>6. /\ \A s \in left : Within(ps, s)
      /\ \A s, t \in left : Apart(s, t)
  BY DEF Laid
<1>7. p = ps[i]
  OBVIOUS
<1> HIDE DEF p, new
<1>8. p.low - (n + SegmentHead) \in Nat /\ HeadEnd(q) < p.low - (n + SegmentHead)
  BY <1>1, <1>4, RoomIsLeft
<1>9. /\ q \in Page /\ q.low = p.low - (n + SegmentHead) /\ q.bytes = p.bytes
      /\ q.low + SegmentHead + n = p.low
  <2>1. p.low \in Nat /\ p.len \in Nat /\ p.bytes \in Nat
    BY <1>1 DEF Page
  <2> DEFINE low == p.low - (n + SegmentHead)
             len == p.len + 1
  <2>2. low \in Nat /\ len \in Nat
    BY <1>8, <2>1
  <2>3. q = [p EXCEPT !.low = low, !.len = len]
    OBVIOUS
  <2> HIDE DEF q, low, len
  <2>4. q \in Page /\ q.low = low /\ q.bytes = p.bytes
    BY <1>1, <2>2, <2>3 DEF Page
  <2>5. low = p.low - (n + SegmentHead)
    BY DEF low
  <2> QED BY <2>1, <2>4, <2>5
<1>10. HeadEnd(q) < q.low /\ q.low <= q.bytes /\ q.low <= p.low
  <2>1. p.low \in Nat /\ p.bytes \in Nat
    BY <1>1 DEF Page
  <2> HIDE DEF q
  <2>2. q.low <= p.low
    BY <1>9, <2>1
  <2> QED BY <1>1, <1>8, <1>9, <2>1, <2>2
<1> HIDE DEF q
<1>11. /\ DOMAIN ps = 1 .. Len(ps) /\ Len(ps) \in Nat /\ i \in Nat \ {0}
       /\ pgs' \in Seq(Page) /\ DOMAIN pgs' = DOMAIN ps
       /\ pgs'[i] = q /\ \A j \in DOMAIN ps : j # i => pgs'[j] = ps[j]
  <2>1. DOMAIN ps = 1 .. Len(ps) /\ Len(ps) \in Nat
    BY <1>1, LenProperties
  <2> QED BY <1>1, <1>2, <1>9, <2>1, ExceptSeq
<1>12. /\ new \in Segment /\ new.page = i /\ new.at = q.low /\ new.size = n
       /\ new.at + SegmentHead + new.size = p.low
  BY <1>3, <1>9, <1>11 DEF Segment, Page
<1>13. Typed(pgs', segs')
  BY <1>1, <1>2, <1>11, <1>12 DEF Typed
<1>14. HeadsClear(pgs')
  BY <1>5, <1>10, <1>11 DEF HeadsClear
<1>15. ASSUME NEW s \in left
       PROVE  Within(pgs', s) /\ Apart(s, new) /\ Apart(new, s)
  <2>1. s \in Segment /\ s.page \in DOMAIN ps /\ Within(ps, s)
    BY <1>1, <1>6
  <2>2. CASE s.page = i
    BY <1>1, <1>7, <1>9, <1>10, <1>11, <1>12, <2>1, <2>2 DEF Within, Apart, Segment, Page
  <2>3. CASE s.page # i
    BY <1>11, <1>12, <2>1, <2>3 DEF Within, Apart
  <2> QED BY <2>2, <2>3
<1>16. Within(pgs', new)
  BY <1>1, <1>9, <1>11, <1>12 DEF Within, Page
<1>17. Apart(new, new)
  BY DEF Apart
<1>18. \A s \in segs' : Within(pgs', s)
  BY <1>2, <1>15, <1>16
<1>19. \A s, t \in segs' : Apart(s, t)
  BY <1>2, <1>6, <1>15, <1>17
<1> QED BY <1>13, <1>14, <1>18, <1>19 DEF Laid

\* A page added for a request is empty, and so is what it adds.
LEMMA FreshLaid ==
    ASSUME NEW ps, NEW ss, NEW n \in Nat \ {0}, Laid(ps, ss)
    PROVE  /\ Laid(Append(ps, FreshPage(n)), ss)
           /\ Len(Append(ps, FreshPage(n))) \in DOMAIN Append(ps, FreshPage(n))
           /\ Append(ps, FreshPage(n))[Len(Append(ps, FreshPage(n)))] = FreshPage(n)
<1> DEFINE k == n \div PAGE_SIZE
           p == FreshPage(n)
           grown == Append(ps, p)
<1>1. k \in Nat
  BY Z3
<1> HIDE DEF k
<1>2. PAGE_SIZE * (k + 1) \in Nat /\ PAGE_SIZE * (k + 1) >= PAGE_SIZE
  <2>1. PAGE_SIZE * k \in Nat /\ PAGE_SIZE * (k + 1) = PAGE_SIZE * k + PAGE_SIZE
    BY <1>1
  <2> QED BY <2>1
<1>3. p = [bytes |-> PAGE_SIZE * (k + 1), low |-> PAGE_SIZE * (k + 1), len |-> 0]
  BY DEF FreshPage, k
<1>4. p \in Page /\ HeadEnd(p) < p.low /\ p.low <= p.bytes
  BY <1>2, <1>3 DEF Page, HeadEnd
<1> HIDE DEF p
<1>5. ps \in Seq(Page) /\ ss \subseteq Segment /\ \A s \in ss : s.page \in DOMAIN ps
  BY DEF Laid, Typed
<1>6. /\ grown \in Seq(Page) /\ Len(ps) \in Nat /\ DOMAIN ps = 1 .. Len(ps)
      /\ DOMAIN grown = 1 .. Len(ps) + 1 /\ Len(grown) = Len(ps) + 1
      /\ \A j \in DOMAIN ps : grown[j] = ps[j]
      /\ grown[Len(ps) + 1] = p
  BY <1>4, <1>5, AppendProperties, LenProperties
<1> HIDE DEF grown
<1>7. Typed(grown, ss)
  BY <1>5, <1>6 DEF Typed
<1>8. HeadsClear(grown)
  BY <1>4, <1>6 DEF Laid, HeadsClear
<1>9. \A s \in ss : Within(grown, s)
  BY <1>5, <1>6 DEF Laid, Within
<1>10. Laid(grown, ss)
  BY <1>7, <1>8, <1>9 DEF Laid
<1> QED BY <1>6, <1>10 DEF grown, p

\* Marking a segment moves nothing.
LEMMA FreedLaid ==
    ASSUME Laid(pgs, segs), NEW s \in segs
    PROVE  Laid(pgs, Freed(s))
<1> DEFINE marked == [s EXCEPT !.used = FALSE]
<1>1. /\ marked \in Segment /\ marked.page = s.page
      /\ marked.at = s.at /\ marked.size = s.size
  BY DEF Laid, Typed, Segment
<1>2. Freed(s) = (segs \ {s}) \cup {marked}
  BY DEF Freed
<1> HIDE DEF marked
<1>3. Typed(pgs, Freed(s))
  BY <1>1, <1>2 DEF Laid, Typed
<1>4. \A t \in Freed(s) : Within(pgs, t)
  BY <1>1, <1>2 DEF Laid, Within
<1>5. \A t \in segs \ {s} : Apart(t, marked) /\ Apart(marked, t)
  BY <1>1 DEF Laid, Apart
<1>6. Apart(marked, marked)
  BY DEF Apart
<1>7. \A t, u \in Freed(s) : Apart(t, u)
  BY <1>2, <1>5, <1>6 DEF Laid
<1> QED BY <1>3, <1>4, <1>7 DEF Laid

-----------------------------------------------------------------------------
LEMMA MallocStep ==
    ASSUME NEW n \in Requests, NEW left, SegInv, Laid(pgs, left), Malloc(n, left)
    PROVE  Laid(pgs', segs') /\ asked' \in Nat /\ state' \in {"up", "aborted"}
<1>0. n \in Nat \ {0}
  OBVIOUS
<1>1. asked' \in Nat /\ state' \in {"up", "aborted"}
  BY <1>0 DEF Malloc, MallocInPage, MallocInNewPage, SegInv
<1>2. ASSUME NEW i \in DOMAIN pgs, MallocInPage(n, i, left)
      PROVE  Laid(pgs', segs')
  BY <1>0, <1>2, PutLaid DEF MallocInPage, FirstFit
<1>3. ASSUME MallocInNewPage(n, left) PROVE Laid(pgs', segs')
  <2> DEFINE grown == Append(pgs, FreshPage(n))
  <2>1. /\ Laid(grown, left) /\ Laid(grown, segs)
        /\ Len(grown) \in DOMAIN grown /\ grown[Len(grown)] = FreshPage(n)
    BY <1>0, FreshLaid DEF SegInv
  <2>2. \/ CanFit(FreshPage(n), n) /\ PutSegment(grown, Len(grown), n, left)
        \/ pgs' = grown /\ UNCHANGED segs
    BY <1>3 DEF MallocInNewPage
  <2> HIDE DEF grown
  <2>3. CASE CanFit(FreshPage(n), n) /\ PutSegment(grown, Len(grown), n, left)
    BY <1>0, <2>1, <2>3, PutLaid
  <2> QED BY <2>1, <2>2, <2>3
<1> QED BY <1>1, <1>2, <1>3 DEF Malloc

LEMMA SegStep == SegInv /\ [Next]_vars => SegInv'
<1> SUFFICES ASSUME SegInv, [Next]_vars PROVE SegInv'
  OBVIOUS
<1>1. ASSUME NEW n \in Requests, Malloc(n, segs) PROVE SegInv'
  BY <1>1, MallocStep DEF SegInv
<1>2. ASSUME NEW n \in Requests, NEW s \in segs, Realloc(s, n) PROVE SegInv'
  BY <1>2, FreedLaid, MallocStep DEF SegInv, Realloc
<1>3. ASSUME NEW s \in segs, Free(s) PROVE SegInv'
  BY <1>3, FreedLaid DEF SegInv, Free
<1>4. CASE UNCHANGED vars
  BY <1>4 DEF vars, SegInv
<1> QED BY <1>1, <1>2, <1>3, <1>4 DEF Next

\* Whatever is allocated, freed and reallocated in whatever order, no two
\* segments overlap and none overlaps the head of its page.
THEOREM SegmentsNeverMeet == Spec => [](TypeOK /\ SegmentsAreApart)
<1>1. Init => SegInv
  BY EmptySeq DEF Init, SegInv, Laid, Typed, HeadsClear
<1>2. SegInv => TypeOK /\ SegmentsAreApart
  BY DEF SegInv, Laid, Typed, HeadsClear, Within, Apart, TypeOK, SegmentsAreApart
<1> QED BY <1>1, <1>2, SegStep, PTL DEF Spec

-----------------------------------------------------------------------------
\* What a page of its own has room for, in bytes.
LEMMA FreshPageTooSmall ==
    ASSUME NEW n \in Nat \ {0}, ~CanFit(FreshPage(n), n)
    PROVE  (n % PAGE_SIZE) + PageHead + Pointer + SegmentHead + 1 >= PAGE_SIZE
<1> DEFINE k == n \div PAGE_SIZE
           bytes == PAGE_SIZE * (k + 1)
<1>1. k \in Nat /\ n = PAGE_SIZE * k + (n % PAGE_SIZE) /\ n % PAGE_SIZE \in Nat
  BY Z3
<1> HIDE DEF k
<1>2. PAGE_SIZE * k \in Nat /\ bytes = PAGE_SIZE * k + PAGE_SIZE
  BY <1>1
<1>3. FreshPage(n) = [bytes |-> bytes, low |-> bytes, len |-> 0]
  BY DEF FreshPage, k
<1> HIDE DEF bytes
<1>4. Room(FreshPage(n)) = bytes - 1 - PageHead
  BY <1>2, <1>3 DEF Room, HeadEnd
<1> QED BY <1>1, <1>2, <1>4 DEF CanFit

\* Where the assert fails, it is the last request that has failed, and on a page
\* made for it.
AbortedOnFresh == state = "aborted" => asked \in Requests /\ ~CanFit(FreshPage(asked), asked)

LEMMA AbortStep == AbortedOnFresh /\ [Next]_vars => AbortedOnFresh'
<1> SUFFICES ASSUME AbortedOnFresh, [Next]_vars PROVE AbortedOnFresh'
  OBVIOUS
<1>1. ASSUME NEW n \in Requests, NEW left, Malloc(n, left) PROVE AbortedOnFresh'
  <2>1. ASSUME NEW i \in DOMAIN pgs, MallocInPage(n, i, left) PROVE AbortedOnFresh'
    BY <2>1 DEF MallocInPage, AbortedOnFresh
  <2>2. ASSUME MallocInNewPage(n, left) PROVE AbortedOnFresh'
    BY <2>2 DEF MallocInNewPage, AbortedOnFresh, CanFit, Room, HeadEnd, FreshPage
  <2> QED BY <1>1, <2>1, <2>2 DEF Malloc
<1>2. ASSUME NEW s \in segs, Free(s) PROVE AbortedOnFresh'
  BY <1>2 DEF Free, AbortedOnFresh
<1>3. CASE UNCHANGED vars
  BY <1>3 DEF vars, AbortedOnFresh, CanFit, Room, HeadEnd, FreshPage
<1> QED BY <1>1, <1>2, <1>3 DEF Next, Realloc

\* An allocation fails only of sizes that leave the heads of a page less than
\* their room at the end of the last frame.
THEOREM AbortsAreTight == Spec => []OnlyTightSizesAbort
<1>1. Init => AbortedOnFresh
  BY DEF Init, AbortedOnFresh
<1>2. AbortedOnFresh => OnlyTightSizesAbort
  BY FreshPageTooSmall DEF AbortedOnFresh, OnlyTightSizesAbort
<1> QED BY <1>1, <1>2, AbortStep, PTL DEF Spec

\* Nothing is ever moved or taken out of a page: a segment is as it was, or is
\* one in use that is marked.
THEOREM SegmentsStayInPlace == Spec => SegmentsStay
<1> DEFINE Stays(s) == s \in segs' \/ (s.used /\ [s EXCEPT !.used = FALSE] \in segs')
<1>1. [Next]_vars => [\A s \in segs : \/ s \in segs'
                                      \/ s.used /\ [s EXCEPT !.used = FALSE] \in segs']_segs
  <2> SUFFICES ASSUME Next, NEW s \in segs PROVE Stays(s)
    BY DEF vars
  <2>1. ASSUME NEW n \in Requests, NEW left, Malloc(n, left) PROVE left \subseteq segs' \/ segs' = segs
    BY <2>1 DEF Malloc, MallocInPage, MallocInNewPage, PutSegment
  <2>2. ASSUME NEW n \in Requests, Malloc(n, segs) PROVE Stays(s)
    BY <2>1, <2>2
  <2>3. ASSUME NEW t \in segs, t.used, Freed(t) \subseteq segs' PROVE Stays(s)
    BY <2>3 DEF Freed
  <2>4. ASSUME NEW n \in Requests, NEW t \in segs, Realloc(t, n) PROVE Stays(s)
    BY <2>1, <2>3, <2>4 DEF Realloc
  <2>5. ASSUME NEW t \in segs, Free(t) PROVE Stays(s)
    BY <2>3, <2>5 DEF Free
  <2> QED BY <2>2, <2>4, <2>5 DEF Next
<1> QED BY <1>1, PTL DEF Spec, SegmentsStay
=============================================================================
