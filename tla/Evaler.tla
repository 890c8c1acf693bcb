------------------------------- MODULE Evaler -------------------------------
(***************************************************************************)
(* The driver of an evaler (src/src/driver/evaler.c) on top of the heap:   *)
(* in server mode one process answers query after query, in the other mode *)
(* (-e) a process evaluates one query and exits.  The interpreter is what  *)
(* writes to pages and allocates between begin and commit.                 *)
(*                                                                         *)
(* `snaps`, `ancestors`, `lineage` and `tainted` are history: they record  *)
(* what was committed and are never read by an action of the program.      *)
(***************************************************************************)
EXTENDS SnapHeap

CONSTANTS Server,           \* is the process started with -s?
          Outcomes,         \* how queries end: subset of {"ok", "error", "readonly", "nothing"}
          Targets,          \* generations the clients name ("gen", -g)
          Sizes,            \* sizes the interpreter allocates
          InitAllocs,       \* allocations of create_init
          MaxOps,           \* bound: writes and allocations of one query
          MaxFaults         \* bound: processes killed, other processes on the file

ASSUME EvalerAssumption ==
    /\ Server \in BOOLEAN
    /\ Outcomes \subseteq {"ok", "error", "readonly", "nothing"}
    /\ Targets \subseteq Nat /\ Sizes \subseteq Nat \ {0}
    /\ InitAllocs \in Nat /\ MaxOps \in Nat /\ MaxFaults \in Nat

VARIABLES pc,               \* where the driver is
          userPtr,          \* heap->user_ptr is set (kept in the file)
          after,            \* where the driver goes when a checkout is over
          parentGen,        \* parent_gen of the query in hand
          ops,              \* allocations and writes since create_init or begin
          faults,           \* of these so far
          snaps,            \* generation -> what the program saw when it committed
          ancestors,        \* generation -> the generations it was built on
          lineage,          \* pages the program of the present generation was given
          tainted           \* an unsupported step was taken, see Taint below

historyVars == <<snaps, ancestors, lineage, tainted>>
vars == <<heapVars, pc, after, userPtr, parentGen, ops, faults, historyVars>>

-----------------------------------------------------------------------------
\* What the program sees at a page it was given, and all it sees.
Content(f) == [used |-> pages[f].used, val |-> pages[f].val]
FramesOf(p) == p .. p + pages[p].pages - 1
Image == [p \in lineage |-> Content(p)]

Committed(g) == snaps[g] # Null

\* Every committed generation older than g is one g was built on.
OnChain(g) == \A h \in 0 .. g - 1 : Committed(h) => h \in ancestors[g]

\* Are we between transactions, with a heap that is neither half checked out
\* nor just being made?
Quiet == target = Null /\ working = committed /\ committed # Null

\* What a process finds when it starts: the program of the committed generation.
KnownPages == IF committed = Null \/ ~Committed(gens[committed].gen) THEN {}
              ELSE DOMAIN snaps[gens[committed].gen]

\* The locals of server_loop, out of scope between queries.
Forget == parentGen' = 0 /\ ops' = 0

-----------------------------------------------------------------------------
EvalerInit ==
    /\ Init
    /\ pc = "off" /\ after = "begin" /\ userPtr = FALSE
    /\ parentGen = 0 /\ ops = 0 /\ faults = 0
    /\ snaps = [g \in 0 .. MaxGen |-> Null]
    /\ ancestors = [g \in 0 .. MaxGen |-> {}]
    /\ lineage = {} /\ tainted = FALSE

\* main: snap_init, then create_init unless the file has an interpreter.
Start ==
    /\ pc = "off"
    /\ SnapInit
    /\ pc' = IF userPtr THEN "ready" ELSE "init"
    /\ lineage' = KnownPages
    /\ UNCHANGED <<after, userPtr, parentGen, ops, faults, snaps, ancestors, tainted>>

\* create_init allocates the interpreter.
InitAlloc ==
    /\ pc = "init" /\ ops < InitAllocs
    /\ ops' = ops + 1
    /\ \E size \in Sizes, p \in Frames :
          /\ Malloc(size, p)
          /\ lineage' = lineage \cup {p}
    /\ UNCHANGED <<pc, after, userPtr, parentGen, faults, snaps, ancestors, tainted>>

\* A file whose first process died before its commit, or which somebody else
\* has opened before it.
InitAborts ==
    /\ pc = "init" /\ ops < InitAllocs
    /\ MallocAborts
    /\ pc' = "off"
    /\ Forget
    /\ UNCHANGED <<after, userPtr, faults, historyVars>>

InitDone ==
    /\ pc = "init" /\ ops = InitAllocs
    /\ userPtr' = TRUE
    /\ pc' = "commit-init"
    /\ UNCHANGED <<heapVars, after, parentGen, ops, faults, historyVars>>

\* A generation committed over memory that was not its parent's is built on
\* no other.
Record(g, from) ==
    /\ snaps' = [snaps EXCEPT ![g] = Image]
    /\ ancestors' = [ancestors EXCEPT ![g] = IF tainted THEN {} ELSE from]

InitCommit ==
    /\ pc = "commit-init"
    /\ Commit
    /\ Record(0, {})
    /\ pc' = "ready"
    /\ Forget
    /\ UNCHANGED <<after, userPtr, faults, lineage, tainted>>

InitCommitCrashes ==
    /\ pc = "commit-init" /\ working = Null
    /\ NullDeref
    /\ pc' = "off"
    /\ Forget
    /\ UNCHANGED <<after, userPtr, faults, historyVars>>

-----------------------------------------------------------------------------
\* snap_checkout(g); the driver goes on at `next`.
BeginCheckout(g, next) ==
    \/ /\ CheckoutSame(g)
       /\ pc' = next
       /\ UNCHANGED <<after, historyVars>>
    \/ /\ CheckoutStart(g)
       /\ pc' = "moving" /\ after' = next
       /\ tainted' = (tainted \/ ~OnChain(g))
       /\ UNCHANGED <<snaps, ancestors, lineage>>

\* The query names a generation (server_loop: "gen", main: -g).
CheckoutQuery ==
    /\ pc = "ready" /\ lastGenIndex < MaxGen
    /\ \E g \in Targets \cap (0 .. MaxGen) : Committed(g) /\ BeginCheckout(g, "begin")
    /\ UNCHANGED <<userPtr, parentGen, ops, faults>>

\* snap_checkout at work, for a query or back to the parent.
CheckoutMoves ==
    /\ pc = "moving"
    /\ CheckoutSwap \/ CheckoutFails
    /\ pc' = IF proc' = "up" THEN pc ELSE "off"
    /\ UNCHANGED <<after, userPtr, parentGen, ops, faults, historyVars>>

CheckoutDone ==
    /\ pc = "moving"
    /\ CheckoutEnd
    /\ pc' = after /\ after' = "begin"
    /\ lineage' = DOMAIN snaps[gens[target].gen]
    /\ UNCHANGED <<userPtr, parentGen, ops, faults, snaps, ancestors, tainted>>

\* parent_gen is read, then snap_begin_mut; without a committed generation
\* the read of heap->committed->gen is fatal.
Begin ==
    /\ pc \in {"ready", "begin"} /\ committed # Null
    /\ parentGen' = gens[committed].gen
    /\ ops' = 0
    /\ BeginMut
    /\ pc' = IF proc' = "up" THEN "eval" ELSE "off"
    /\ UNCHANGED <<after, userPtr, faults, historyVars>>

BeginCrashes ==
    /\ pc = "ready"
    /\ NullDeref
    /\ pc' = "off"
    /\ UNCHANGED <<after, userPtr, parentGen, ops, faults, historyVars>>

\* do_eval: a store to a page the program was given, or an allocation.
EvalWrite ==
    /\ pc = "eval" /\ ops < MaxOps
    /\ ops' = ops + 1
    /\ \E f \in Frames : (\E p \in lineage : f \in FramesOf(p)) /\ Write(f)
    /\ pc' = IF proc' = "up" THEN pc ELSE "off"
    /\ UNCHANGED <<after, userPtr, parentGen, faults, historyVars>>

EvalAlloc ==
    /\ pc = "eval" /\ ops < MaxOps
    /\ ops' = ops + 1
    /\ \E size \in Sizes, p \in Frames :
          /\ Malloc(size, p)
          /\ lineage' = lineage \cup {p}
    /\ UNCHANGED <<pc, after, userPtr, parentGen, faults, snaps, ancestors, tainted>>

\* An allocation in a transaction that was rolled back by someone else.
EvalAborts ==
    /\ pc = "eval" /\ ops < MaxOps
    /\ MallocAborts
    /\ pc' = "off"
    /\ Forget
    /\ UNCHANGED <<after, userPtr, faults, historyVars>>

\* snap_commit, whatever the outcome.  Where there is no transaction any more
\* it commits the parent again.
CommitQuery(outcome) ==
    /\ pc = "eval"
    /\ Commit
    /\ IF working = committed
       THEN UNCHANGED <<snaps, ancestors>>
       ELSE Record(gens[working].gen, ancestors[parentGen] \cup {parentGen})
    /\ pc' = CASE outcome # "ok" -> "undo"
               [] outcome = "ok" /\ Server -> "ready"
               [] outcome = "ok" /\ ~Server -> "exit"
    /\ ops' = 0
    /\ parentGen' = IF outcome = "ok" THEN 0 ELSE parentGen
    /\ UNCHANGED <<after, userPtr, faults, lineage, tainted>>

\* An error or a read only query goes back to the parent.
Undo ==
    /\ pc = "undo"
    /\ BeginCheckout(parentGen, IF Server THEN "ready" ELSE "exit")
    /\ Forget
    /\ UNCHANGED <<userPtr, faults>>

-----------------------------------------------------------------------------
\* A process that is done, has read the end of its input, or will not take it
\* ("args should be an object", after the checkout).
Leave ==
    /\ pc \in {"ready", "begin", "exit"}
    /\ Exit
    /\ pc' = "off"
    /\ Forget
    /\ UNCHANGED <<after, userPtr, faults, historyVars>>

\* from_eval_arg without a result returns before it commits.
LeaveUncommitted ==
    /\ pc = "eval" /\ ~Server /\ "nothing" \in Outcomes
    /\ Exit
    /\ pc' = "off"
    /\ tainted' = (tainted \/ ops > 0)
    /\ Forget
    /\ UNCHANGED <<after, userPtr, faults, snaps, ancestors, lineage>>

\* What is left of the driver when its process is killed.
DriverGone ==
    /\ faults < MaxFaults
    /\ faults' = faults + 1
    /\ pc' = "off" /\ after' = "begin"
    /\ Forget
    /\ UNCHANGED <<userPtr, snaps, ancestors, lineage>>

\* The gateway kills a process whose query takes too long; so may anyone.
Kill ==
    /\ DriverGone
    /\ Exit
    /\ tainted' = (tainted \/ pc \notin {"ready", "begin", "exit"})

\* The kill hits inside an operation of the allocator.
KillInTrap ==
    /\ pc = "eval" /\ ops < MaxOps
    /\ DriverGone
    /\ \E f \in Frames : (\E p \in lineage : f \in FramesOf(p)) /\ TrapDies(f)
    /\ tainted' = TRUE

KillInMalloc ==
    /\ pc = "init" => ops < InitAllocs
    /\ pc = "eval" => ops < MaxOps
    /\ pc \in {"init", "eval"}
    /\ DriverGone
    /\ \E size \in Sizes : MallocDies(size)
    /\ tainted' = TRUE

KillInBegin ==
    /\ pc \in {"ready", "begin"}
    /\ DriverGone
    /\ BeginDies
    /\ UNCHANGED tainted

KillInCommit ==
    /\ pc \in {"commit-init", "eval"}
    /\ DriverGone
    /\ CommitDies
    /\ tainted' = TRUE

\* The gateway's memgraph handler runs the renderer on a database, whatever
\* its evaler is doing; so does anyone who lists its generations.
MemGraph ==
    /\ faults < MaxFaults
    /\ faults' = faults + 1
    /\ Peek \/ PeekFirst
    /\ tainted' = TRUE
    /\ UNCHANGED <<pc, after, userPtr, parentGen, ops, snaps, ancestors, lineage>>

EvalerNext ==
    \/ Start \/ InitAlloc \/ InitAborts \/ InitDone \/ InitCommit \/ InitCommitCrashes
    \/ CheckoutQuery \/ CheckoutMoves \/ CheckoutDone
    \/ Begin \/ BeginCrashes \/ EvalWrite \/ EvalAlloc \/ EvalAborts
    \/ \E outcome \in Outcomes \ {"nothing"} : CommitQuery(outcome)
    \/ Undo \/ Leave \/ LeaveUncommitted \/ Kill
    \/ KillInTrap \/ KillInMalloc \/ KillInBegin \/ KillInCommit \/ MemGraph

EvalerSpec == EvalerInit /\ [][EvalerNext]_vars

-----------------------------------------------------------------------------
(***************************************************************************)
(* Properties                                                              *)
(***************************************************************************)

\* Isolation and rollback: whenever no transaction is running, the memory the
\* program sees is, page for page, what the generation that is checked out
\* committed, whether it got there by a commit, by going back to the parent of
\* a failed query or by a restart.
LiveAgrees ==
    Quiet /\ Committed(gens[committed].gen) => Image = snaps[gens[committed].gen]

LiveAgreesUnlessTainted == tainted \/ LiveAgrees

\* What a checkout of g would find holds, for each real address, what g committed
\* there, and is marked as committed, so that no program may store to it unnoticed.
Restorable(g) ==
    LET found == PagesUpToGen(g)
    IN  /\ \A k \in DOMAIN found : pages[found[k]].committed
        /\ \A r \in DOMAIN snaps[g] :
              \E k \in DOMAIN found : /\ pages[found[k]].real = r
                                     /\ Content(found[k]) = snaps[g][r]

\* No version is lost: at every moment, in the middle of a transaction, of a
\* checkout or after a crash, a checkout of g would bring back what g committed.
RestorableVersions ==
    \A g \in 0 .. MaxGen : Committed(g) /\ OnChain(g) => Restorable(g)

\* "every memory write by the interpreter is trapped by the allocator creating
\* a new page owned by the current generation" (README.md:113): a page that can
\* be written without a fault already belongs to the working generation.
WritesAreTrapped ==
    pc = "eval" =>
        \A p \in lineage : \A f \in FramesOf(p) :
            prot[f] => p \in ToSet(PagesIn(gens, working, MaxGen))

\* The converse: what the working generation owns may be written, so that
\* writing to it never faults (a fault there fails handle_segv's assert that
\* the page is committed, alloc.c:1043).
OwnPagesAreWritable ==
    pc = "eval" =>
        \A p \in ToSet(PagesIn(gens, working, MaxGen)) :
            \A f \in FramesOf(p) : prot[f]

\* No assert of the allocator ends the process.
NoAbort == proc # "aborted"

\* While the process is up its table of protections tells the truth.
MapsAgree == proc = "up" => Tiling /\ TableMatchesKernel

\* A child generation is never older than the one that holds it, so that a
\* walk that skips a generation loses no older one (pages_up_to_gen).
OlderAbove ==
    \A i \in AllGens :
        \A k \in DOMAIN gens[i].c :
            gens[i].c[k].type = "generation" => gens[gens[i].c[k].at].gen >= gens[i].gen

\* snap_checkout lists the pages before it moves the first (alloc.c:1269) and
\* then changes the tree under its list: after each exchange a new list would
\* have the same places, one less of them to be moved, and at the others to be
\* moved the same pages.  No page is moved twice and none that is to stay is
\* moved away.
CheckoutAsListed ==
    [][LET list   == PagesUpToGen(gens[target].gen)
           toMove == {k \in DOMAIN list : Displaced(list[k])}
       IN  target # Null /\ target' # Null =>
              /\ DOMAIN list' = DOMAIN list
              /\ toMove' = toMove \ {Min(toMove)}
              /\ \A k \in toMove' : list'[k] = list[k]]_heapVars

\* What a checkout of g finds: the newest page for each real address in the
\* generations up to g, with what it holds and whether it is marked as committed.
View(g) == {[real |-> pages[p].real, content |-> Content(p), committed |-> pages[p].committed] :
                p \in Range(PagesUpToGen(g))}

\* Durability, one step at a time: what a checkout of a committed generation
\* finds stays as it is, whatever a later query writes or allocates, whatever a
\* checkout moves to and fro, when a full generation is split, and wherever a
\* process is killed.  The generation need not be one the later ones are built
\* on, nor the memory it was built on untainted; but it must not have found
\* pages that a killed process left uncommitted, which nobody protects.
VersionsAreKept ==
    [][\A g \in 0 .. MaxGen :
          LET view == View(g)
          IN  Committed(g) /\ (\A p \in view : p.committed) => View(g)' = view]_<<gens, pages>>

\* What pages_in_gen lists for snap_begin_mut to protect is protected while the
\* program runs: where it can store without a fault, of the memory it was given,
\* there is no committed page that some generation holds.  Unlike
\* WritesAreTrapped this leaves out pages a killed process has left uncommitted
\* or in no generation.
CommittedAreProtected ==
    pc = "eval" =>
        \A p \in lineage : \A f \in FramesOf(p) :
            prot[f] =>
                \A i \in AllGens : \A ref \in ToSet(gens[i].c) :
                    ref.type = "page" /\ Covers(ref.at, f) => ~pages[ref.at].committed

-----------------------------------------------------------------------------
(***************************************************************************)
(* The allocator under its driver implements a VersionStore.  A version is *)
(* being written while working and committed differ; while a checkout      *)
(* moves pages the abstract store still shows the version it is leaving.   *)
(***************************************************************************)
Versions == INSTANCE VersionStore WITH
    Pages    <- Frames,
    Numbers  <- 0 .. MaxGen,
    image    <- IF target # Null THEN snaps[gens[committed].gen] ELSE Image,
    head     <- IF committed = Null THEN Null ELSE gens[committed].gen,
    txn      <- IF working = committed THEN Null ELSE gens[working].gen

\* Every behaviour is one of a VersionStore until it takes an unsupported step:
\* a process dies with a transaction or a checkout half done, or a generation
\* is checked out that is younger than one it was not built on.
ImplementsVersionStore ==
    Versions!Init /\ [][Versions!Next \/ tainted']_<<Versions!vars, tainted>>
=============================================================================
