------------------------------ MODULE MCProtMap ------------------------------
(***************************************************************************)
(* merge_in_table on its own: from the freshly opened heap, every sequence *)
(* of requests for page frames that are neither Lossy nor Emptying.  The   *)
(* header and the first generation (frames 0 and 1) and the last frame of  *)
(* the heap hold no page and are never asked for.                          *)
(***************************************************************************)
EXTENDS ProtMap

VARIABLE request            \* the last map merged, Nothing before the first

Nothing == [w |-> TRUE, start |-> 0, len |-> 0]

Requests == {m \in MapEntry : m.start >= 2 /\ m.len > 0 /\ EndOf(m) < NumFrames}

MCInit == MapInit /\ request = Nothing

\* One request merged as merge_in_table([m]).
MergeRequest(m) ==
    /\ ~Lossy(table, m)
    /\ ~Emptying(table, m)
    /\ request' = m
    /\ table' = Merged(<<m>>).table
    /\ prot'  = Merged(<<m>>).prot

MCNext == \E m \in Requests : MergeRequest(m)

MCSpec == MCInit /\ [][MCNext]_<<mapVars, request>>

\* A request is granted on every frame it names ("mprotect" was really called
\* for it, or was not needed) and the frames it does not name keep the
\* protection they had.
Granted == \A f \in Frames :
              request.start <= f /\ f < EndOf(request) => prot[f] = request.w

OthersKeepProtection ==
    [][\A f \in Frames : f < request'.start \/ f >= EndOf(request') => prot'[f] = prot[f]]_prot
=============================================================================
