----------------------------- MODULE ClientTree -----------------------------
(***************************************************************************)
(* The tree of transactions a page shows (client/query.js): `gens`, the    *)
(* generations the page knows, each with the array of its children, and    *)
(* `head`, where the input box is and what the next query builds on.       *)
(*                                                                         *)
(* A transaction is [id, gen, parent, ok]: `id` tells two of them apart,   *)
(* `ok` says that it has no error and was not read only.  What is drawn of *)
(* an object of `gens`, a fake included, is its children, and two objects  *)
(* for one generation share theirs: a tree is the children by generation.  *)
(*                                                                         *)
(* Transactions reach the page as events of its tail and as answers to its *)
(* own queries: in any order, some more than once, some never (TransacLog  *)
(* shows when), and all of them again when the tail is opened again.       *)
(***************************************************************************)
EXTENDS Integers, Sequences, FiniteSets, SequencesExt

CONSTANTS MaxTransacs,      \* bound: queries evaluated
          MaxGoto           \* bound: times the user moves the head

ASSUME PageAssumption == MaxTransacs \in Nat /\ MaxGoto \in Nat

VARIABLES logged,           \* the transactions there are
          last,             \* the newest generation of the evaler
          gens,             \* generation the page knows -> its children, sorted
          head,             \* the generation the input box is at
          gotos,            \* times the user has moved the head
          arrived           \* history: transactions that have reached the page

vars == <<logged, last, gens, head, gotos, arrived>>

Transac == [id : Nat, gen : Int, parent : Nat, ok : BOOLEAN]

-----------------------------------------------------------------------------
ChildrenOf(g) == IF g \in DOMAIN gens THEN gens[g] ELSE <<>>

\* Mutant of WithChild: a later child is not added.
WithChildFirst(children, t) == IF children = <<>> THEN <<t>> ELSE children

\* A set of transactions of different generations in the order of these.
Older(S, t) == {s \in S : s.gen < t.gen}
ByGen(S) ==
    [k \in 1 .. Cardinality(S) |-> CHOOSE t \in S : Cardinality(Older(S, t)) = k - 1]

\* The children of t's parent once t is among them: one for each generation.
WithChild(children, t) ==
    IF \E k \in DOMAIN children : children[k].gen = t.gen THEN children
    ELSE ByGen(ToSet(children) \cup {t})

\* Mutant of OwnChildren: the children of a faked generation are dropped when
\* its transaction arrives.
OwnChildrenNone(t) == <<>>

\* t takes over the children of what was there for its generation.
OwnChildren(t) == ChildrenOf(t.gen)

\* A parent that has not arrived yet is faked.
WithTransac(t) ==
    [g \in DOMAIN gens \cup {t.gen, t.parent} |->
        CASE g = t.parent -> WithChild(ChildrenOf(g), t)
          [] g = t.gen    -> OwnChildren(t)
          [] OTHER        -> ChildrenOf(g)]

\* Mutant of HeadAfter: the head follows failed queries, too.
HeadAfterAny(t) == IF head < t.gen THEN t.gen ELSE head

HeadAfter(t) == IF head < t.gen /\ t.ok THEN t.gen ELSE head

-----------------------------------------------------------------------------
\* Entry draws the children of the initial state, theirs, and so on.
Drawn ==
    LET below(S) == UNION {{c.gen : c \in ToSet(ChildrenOf(g))} : g \in S}
        walk[n \in 0 .. Cardinality(DOMAIN gens)] ==
            IF n = 0 THEN {0} ELSE walk[n - 1] \cup below(walk[n - 1])
    IN  walk[Cardinality(DOMAIN gens)]

\* The entries drawn, each with its place.
Entries == UNION {{[at |-> <<g, k>>, shows |-> ChildrenOf(g)[k]] :
                      k \in DOMAIN ChildrenOf(g)} : g \in Drawn}

\* The generations all of whose ancestors have arrived.
Rooted ==
    LET grow(S) == S \cup {t.gen : t \in {u \in arrived : u.parent \in S}}
        walk[n \in 0 .. Cardinality(arrived)] ==
            IF n = 0 THEN {0} ELSE grow(walk[n - 1])
    IN  walk[Cardinality(arrived)]

-----------------------------------------------------------------------------
Init ==
    /\ logged = {} /\ last = 0
    /\ gens = [g \in {0} |-> <<>>] /\ head = 0
    /\ gotos = 0
    /\ arrived = {}

\* A query of this page (doQuery, it builds on the head) or of another client
\* is evaluated and logged; any generation may be the head of some page.
Evaluate(parent, ok) ==
    /\ Cardinality(logged) < MaxTransacs
    /\ logged' = logged \cup {[id |-> Cardinality(logged) + 1, gen |-> last + 1,
                               parent |-> parent, ok |-> ok]}
    /\ last' = last + 1
    /\ UNCHANGED <<gens, head, gotos, arrived>>

\* A query that times out, or whose evaler ends because it has no generation
\* of that number, is logged without a generation.
Fail ==
    /\ Cardinality(logged) < MaxTransacs
    /\ logged' = logged \cup {[id |-> Cardinality(logged) + 1, gen |-> -1,
                               parent |-> 0, ok |-> FALSE]}
    /\ UNCHANGED <<last, gens, head, gotos, arrived>>

\* mergeInTransaction, for an event of the tail or the answer to a query of the
\* page.
Receive(t) ==
    /\ gens' = WithTransac(t)
    /\ head' = HeadAfter(t)
    /\ arrived' = arrived \cup {t}
    /\ UNCHANGED <<logged, last, gotos>>

\* "goto" and "edit" of an entry that is drawn.
Goto ==
    /\ gotos < MaxGoto
    /\ gotos' = gotos + 1
    /\ \E e \in Entries : head' \in {e.shows.gen, e.shows.parent}
    /\ UNCHANGED <<logged, last, gens, arrived>>

Next ==
    \/ \E parent \in 0 .. last, ok \in BOOLEAN : Evaluate(parent, ok)
    \/ Fail
    \/ \E t \in logged : Receive(t)
    \/ Goto

Spec == Init /\ [][Next]_vars

-----------------------------------------------------------------------------
\* Whatever the order transactions arrive in, how often, and with which of them
\* missing, a page draws exactly those whose ancestors have arrived, each once;
\* of the ones without a generation (timeouts, bad responses) it draws one.
TreeShowsWhatArrived ==
    LET drawn  == Entries
        rooted == {t \in arrived : t.parent \in Rooted}
    IN  /\ \A d, e \in drawn : d.shows.gen = e.shows.gen => d = e
        /\ {e.shows : e \in {d \in drawn : d.shows.gen > 0}} = {t \in rooted : t.gen > 0}
        /\ {e.shows.gen : e \in drawn} = {t.gen : t \in rooted}

\* Whatever the order, the head is at the newest transaction that has arrived,
\* had no error and was not read only, until the user moves it.
HeadIsNewest ==
    gotos = 0 => LET ok == {t \in arrived : t.ok}
                 IN  head = IF ok = {} THEN 0
                            ELSE CHOOSE g \in {t.gen : t \in ok} : \A t \in ok : t.gen <= g

\* The input box, which is drawn at the head, is there unless an ancestor of the
\* head is still to arrive, or was lost.
InputIsDrawn ==
    head \notin Drawn =>
        \E t \in arrived : t.gen = head /\ t.parent \notin Rooted
=============================================================================
