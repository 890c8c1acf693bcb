------------------------------- MODULE ProtMap -------------------------------
(***************************************************************************)
(* The page-protection map of the allocator (src/src/alloc.c).             *)
(*                                                                         *)
(* The evaler maps its database file once and then keeps, in user space, a *)
(* table of the protections it has asked the kernel for, so that a read    *)
(* only run of pages costs one mprotect call.  `table` is that table       *)
(* (rstate.active_map), `prot` is what the kernel has really been told.    *)
(* Addresses are physical page ("frame") numbers: every map starts and     *)
(* ends on a page boundary.                                                *)
(***************************************************************************)
EXTENDS Naturals, Sequences, SequencesExt

CONSTANT NumFrames          \* heap->size in physical pages

ASSUME NumFramesAssumption == NumFrames \in Nat \ {0}

VARIABLES table,            \* rstate.active_map: a sequence of maps
          prot              \* frame -> may it be written without a fault?

mapVars == <<table, prot>>

Frames == 0 .. NumFrames - 1

\* struct map: `w` says whether the `len` frames from `start` on are writable.
MapEntry == [w : BOOLEAN, start : Frames, len : 0 .. NumFrames]

EndOf(m) == m.start + m.len

\* What a failed assert leaves: no table at all, the process is gone.
Aborted == <<>>

-----------------------------------------------------------------------------
(***************************************************************************)
(* merge_in_map                                                            *)
(***************************************************************************)

\* The table with entries i..j replaced by the entries of s.
Splice(t, i, j, s) == SubSeq(t, 1, i - 1) \o s \o SubSeq(t, j + 1, Len(t))

\* overlaps(): the entries that share a frame with m.
Overlaps(t, m) == {i \in DOMAIN t : m.start < EndOf(t[i]) /\ t[i].start < EndOf(m)}

\* Mutant of Cull: the end of the first hit is not moved to that of the last.
CullShort(t, hits) ==
    LET lo   == Min(hits)
        hi   == Max(hits)
        upto == IF t[lo].w # t[hi].w THEN hi - 1 ELSE hi
    IN  [at |-> lo, two |-> t[lo].w # t[hi].w, table |-> Splice(t, lo, upto, <<t[lo]>>)]

\* The culling loop.  The first entry hit absorbs the second as long as there
\* are more than two, or two of the same protection; nothing is mprotected for
\* it.  What is left is one hit, or two of different protections.
Cull(t, hits) ==
    LET lo   == Min(hits)
        hi   == Max(hits)
        upto == IF t[lo].w # t[hi].w THEN hi - 1 ELSE hi
    IN  [at |-> lo, two |-> t[lo].w # t[hi].w,
         table |-> Splice(t, lo, upto, <<[t[lo] EXCEPT !.len = EndOf(t[upto]) - t[lo].start]>>)]

\* One hit of the other protection that m covers exactly, that starts where m
\* starts, that ends where m ends, or that contains m.
MergeOne(t, i, m) ==
    LET hit    == t[i]
        before == t[i - 1]
        after  == t[i + 1]
    IN  CASE hit.start = m.start /\ hit.len = m.len ->
               IF i > 1 /\ i < Len(t) /\ before.w = after.w
               THEN Splice(t, i - 1, i + 1,
                           <<[before EXCEPT !.len = @ + after.len + hit.len]>>)
               ELSE Aborted
          [] hit.start = m.start /\ hit.len # m.len ->
               IF i > 1
               THEN Splice(t, i - 1, i,
                           <<[before EXCEPT !.len = @ + m.len],
                             [hit EXCEPT !.start = EndOf(m), !.len = @ - m.len]>>)
               ELSE Aborted
          [] hit.start # m.start /\ EndOf(hit) = EndOf(m) ->
               IF i < Len(t)
               THEN Splice(t, i, i + 1,
                           <<[hit EXCEPT !.len = @ - m.len],
                             [after EXCEPT !.start = @ - m.len, !.len = @ + m.len]>>)
               ELSE Splice(t, i, i, <<[hit EXCEPT !.len = @ - m.len], m>>)
          [] OTHER ->
               Splice(t, i, i,
                      <<[hit EXCEPT !.len = m.start - hit.start], m,
                        [hit EXCEPT !.start = EndOf(m), !.len = EndOf(hit) - EndOf(m)]>>)

\* Mutant of MergeTwo: "expanding left" forgets to move the right entry.
MergeTwoStuck(t, i, m) ==
    LET l == t[i]
        r == t[i + 1]
    IN  IF m.w = l.w
        THEN Splice(t, i, i + 1, <<[l EXCEPT !.len = EndOf(m) - l.start], r>>)
        ELSE Splice(t, i, i + 1, <<[l EXCEPT !.len = m.start - l.start],
                                   [r EXCEPT !.start = m.start, !.len = EndOf(r) - m.start]>>)

\* Two hits: the one that has m's protection is expanded over m ("expanding
\* left", "expanding right").  An entry emptied on the right goes, and with it
\* the entry after it, which has the protection of the left one; the left
\* entry must not be emptied.
MergeTwo(t, i, m) ==
    LET l    == t[i]
        r    == t[i + 1]
        next == t[i + 2]
    IN  CASE m.w = l.w /\ EndOf(m) = EndOf(r) ->
               IF i + 2 <= Len(t)
               THEN Splice(t, i, i + 2, <<[l EXCEPT !.len = EndOf(m) - l.start + next.len]>>)
               ELSE Aborted
          [] m.w = l.w /\ EndOf(m) # EndOf(r) ->
               Splice(t, i, i + 1,
                      <<[l EXCEPT !.len = EndOf(m) - l.start],
                        [r EXCEPT !.start = EndOf(m), !.len = EndOf(r) - EndOf(m)]>>)
          [] OTHER ->
               IF m.start # l.start
               THEN Splice(t, i, i + 1,
                           <<[l EXCEPT !.len = m.start - l.start],
                             [r EXCEPT !.start = m.start, !.len = EndOf(r) - m.start]>>)
               ELSE Aborted

\* Mutants of Mprotect: the length is one page too short, or one too long.
MprotectShort(p, m) == [f \in Frames |-> IF m.start <= f /\ f < EndOf(m) - 1 THEN m.w ELSE p[f]]
MprotectLong(p, m)  == [f \in Frames |-> IF m.start <= f /\ f <= EndOf(m) THEN m.w ELSE p[f]]

\* mprotect(2) on the frames of m.
Mprotect(p, m) == [f \in Frames |-> IF m.start <= f /\ f < EndOf(m) THEN m.w ELSE p[f]]

\* merge_in_map: s is a record of a table and the kernel's protections.
MergeInMap(s, m) ==
    LET hits   == Overlaps(s.table, m)
        culled == Cull(s.table, hits)
    IN  IF s.table = Aborted \/ hits = {}
        THEN [s EXCEPT !.table = Aborted]
        ELSE IF ~culled.two /\ culled.table[culled.at].w = m.w
             THEN [s EXCEPT !.table = culled.table]             \* "skip because equal"
             ELSE [table |-> IF culled.two THEN MergeTwo(culled.table, culled.at, m)
                                           ELSE MergeOne(culled.table, culled.at, m),
                   prot  |-> Mprotect(s.prot, m)]

-----------------------------------------------------------------------------
(***************************************************************************)
(* merge_in_table                                                          *)
(***************************************************************************)

\* Neighbouring requests of one protection become one request.
Coalesce(maps) ==
    LET join(done, m) ==
          IF done # <<>> /\ Last(done).w = m.w /\ EndOf(Last(done)) = m.start
          THEN ReplaceAt(done, Len(done), [Last(done) EXCEPT !.len = @ + m.len])
          ELSE Append(done, m)
    IN  FoldLeft(join, <<>>, maps)

MergeInTable(s, maps) ==
    IF /\ maps # <<>>
       /\ maps[1].start >= s.table[1].start
       /\ EndOf(Last(maps)) <= EndOf(Last(s.table))
    THEN FoldLeft(MergeInMap, s, Coalesce(maps))
    ELSE [s EXCEPT !.table = Aborted]

-----------------------------------------------------------------------------
\* open_db maps the file anew: one writable map over the whole heap.
OneWritableMap == <<[w |-> TRUE, start |-> 0, len |-> NumFrames]>>

MapInit == /\ table = OneWritableMap
           /\ prot  = [f \in Frames |-> TRUE]

Remap == /\ table' = OneWritableMap
         /\ prot'  = [f \in Frames |-> TRUE]

Merged(maps) == MergeInTable([table |-> table, prot |-> prot], maps)

\* Two kinds of request the merging gets wrong, whatever called it.  Lossy: the
\* culling swallows an entry of the other protection between two of m's own,
\* and the request is skipped as already granted.  Emptying: "expanding right"
\* over the whole left entry fails the assert on lptr->len (alloc.c:427).
Lossy(t, m) == LET hits == Overlaps(t, m)
               IN  /\ Max(hits) - Min(hits) >= 2
                   /\ t[Min(hits)].w = m.w /\ t[Max(hits)].w = m.w

Emptying(t, m) == LET hits == Overlaps(t, m)
                  IN  /\ t[Min(hits)].w # m.w /\ t[Max(hits)].w = m.w
                      /\ t[Min(hits)].start = m.start

-----------------------------------------------------------------------------
(***************************************************************************)
(* What the table promises.                                                *)
(***************************************************************************)

\* The entries tile the heap in order, none is empty and neighbours differ:
\* what full_verify asserts of the table (alloc.c:1611-1638).
Tiling == /\ table[1].start = 0
          /\ EndOf(Last(table)) = NumFrames
          /\ \A i \in DOMAIN table :
                /\ table[i].len > 0
                /\ i > 1 => /\ table[i].start = EndOf(table[i - 1])
                            /\ table[i].w # table[i - 1].w

\* The table says of every frame what the kernel was last told of it: the
\* comparison with /proc/self/maps in full_verify (alloc.c:1640-1686).
TableMatchesKernel ==
    \A i \in DOMAIN table : \A f \in table[i].start .. EndOf(table[i]) - 1 :
        prot[f] = table[i].w
=============================================================================
