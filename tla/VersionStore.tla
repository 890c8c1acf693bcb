---------------------------- MODULE VersionStore ----------------------------
(***************************************************************************)
(* What the allocator promises the interpreter: memory with versions.      *)
(*                                                                         *)
(* `image` is the memory the interpreter sees, a function from the pages   *)
(* it was given to what they hold.  A transaction changes it under a fresh *)
(* version number; committing keeps it for good, and checking out a        *)
(* version brings exactly its image back (README.md, "How it works").      *)
(***************************************************************************)
EXTENDS Naturals

CONSTANTS Pages,        \* the pages there may be
          Numbers,      \* the version numbers there may be
          Null

VARIABLES image,        \* the memory in use
          snaps,        \* version -> the image committed under it, Null if none
          head,         \* the version checked out, Null before the first commit
          txn           \* the version being written, Null between transactions

vars == <<image, snaps, head, txn>>

Init == /\ image = [p \in {} |-> Null]
        /\ snaps = [g \in Numbers |-> Null]
        /\ head = Null
        /\ txn = Null

\* The first version has no parent and is begun when the store is created.
Create == /\ head = Null /\ txn = Null
          /\ txn' = 0
          /\ UNCHANGED <<image, snaps, head>>

Begin(g) == /\ txn = Null /\ head # Null
            /\ \A h \in Numbers : snaps[h] # Null => h < g
            /\ txn' = g
            /\ UNCHANGED <<image, snaps, head>>

\* One page of the image is given out or changed, the others stay.
Write(p) == /\ txn # Null
            /\ DOMAIN image' = DOMAIN image \cup {p}
            /\ \A q \in DOMAIN image \ {p} : image'[q] = image[q]
            /\ UNCHANGED <<snaps, head, txn>>

Commit == /\ txn # Null /\ snaps[txn] = Null
          /\ snaps' = [snaps EXCEPT ![txn] = image]
          /\ head' = txn
          /\ txn' = Null
          /\ UNCHANGED image

\* What a transaction wrote and did not commit is gone.
Rollback == /\ txn # Null /\ head # Null
            /\ image' = snaps[head]
            /\ txn' = Null
            /\ UNCHANGED <<snaps, head>>

Checkout(g) == /\ txn = Null /\ snaps[g] # Null
               /\ image' = snaps[g]
               /\ head' = g
               /\ UNCHANGED <<snaps, txn>>

Next == \/ Create \/ Commit \/ Rollback
        \/ \E g \in Numbers : Begin(g) \/ Checkout(g)
        \/ \E p \in Pages : Write(p)

Spec == Init /\ [][Next]_vars
=============================================================================
