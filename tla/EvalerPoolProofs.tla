--------------------------- MODULE EvalerPoolProofs ---------------------------
(***************************************************************************)
(* What EvalerPool promises, for any number of requests and databases.     *)
(*                                                                         *)
(* The strengthening comes in three layers.  HandlerInv ties each handler  *)
(* to the evaler it has acquired and needs nothing of the constants.       *)
(* PipeInv says what is in the pipes: while answers fit the scanner's      *)
(* buffer, nothing but the one query of the request that holds the lock,   *)
(* at one place.  SerialInv is about the list, as long as no two requests  *)
(* for one database are in flight at once.                                 *)
(***************************************************************************)
EXTENDS EvalerPool, SequenceTheorems, FiniteSetTheorems, WellFoundedInduction, TLAPS

Serving == {"wait", "remove", "drain"}

\* From AppendEvaler on a handler has an evaler, one of its own database.
Acquired == \A r \in Requests :
    pc[r] \in {"append", "lock", "done"} \cup Serving =>
        of[r] \in Requests /\ procs[of[r]] # Null /\ procs[of[r]].db = db[r]

\* The evaler a request starts is the first of its name.
StartedOnce == \A r \in Requests :
    /\ pc[r] \in {"idle", "look", "start"} => procs[r] = Null
    /\ pc[r] = "append" => of[r] = r

\* The locals of doEval are in use while it waits, and its result is the end.
Locals == \A r \in Requests :
    /\ got[r] # Null => pc[r] \in Serving
    /\ reply[r] # Null <=> pc[r] = "done"
    /\ r \in writing => pc[r] \in Serving \cup {"done"}

HandlerInv == TypeOK /\ Acquired /\ StartedOnce /\ Locals /\ HeldWhileServed

-----------------------------------------------------------------------------
Empty(p) == procs[p].stdin = <<>> /\ procs[p].query = Null /\ procs[p].stdout = <<>>

Whole(r) == [from |-> r, whole |-> TRUE]

\* What the pipes of p carry is the query of the request that holds p, once,
\* at one place: not written yet, or in stdin, evaluated, in stdout, scanned.
OneQuery(p) ==
    LET r == procs[p].lock
        e == procs[p]
    IN  ~Empty(p) =>
            /\ r # Null /\ r \notin writing /\ got[r] = Null
            /\ \/ e.stdin = <<r>> /\ e.query = Null /\ e.stdout = <<>> /\ Alive(p)
               \/ e.stdin = <<>> /\ e.query = r /\ e.stdout = <<>> /\ r \in ran /\ Alive(p)
               \/ e.stdin = <<>> /\ e.query = Null /\ e.stdout = <<Whole(r)>> /\ r \in ran

PipesCarryOne == \A p \in Requests : procs[p] # Null => OneQuery(p)

\* A line is the answer to one's own query, or the pipe is closed.
ScansOwn == \A r \in Requests : got[r] # Null =>
    \/ got[r] = Whole(r) /\ r \in ran /\ r \notin writing
    \/ got[r] = NoLine /\ ~Alive(of[r])

\* A handler that has given up its evaler has killed it, and nothing is left in
\* its pipes; a writer that outlives its handler has a dead evaler to write to.
GivenUpIsDead == \A r \in Requests :
    /\ pc[r] \in {"remove", "drain"} => ~Alive(of[r]) /\ Empty(of[r])
    /\ pc[r] = "done" /\ r \in writing => ~Alive(of[r])

PipeInv == PipesCarryOne /\ ScansOwn /\ GivenUpIsDead /\ AnswersAreOwn

-----------------------------------------------------------------------------
\* One request for a database at a time ...
OneInFlight == \A r, q \in Requests :
    r \in InFlight(db[r]) /\ q \in InFlight(db[r]) => r = q

\* ... so that the list has one evaler of it at most,
OneListed == \A i, j \in DOMAIN evalers :
    procs[evalers[i]].db = procs[evalers[j]].db => i = j

\* and none while one is being started, which nobody else knows of,
NoneWhileStarting == \A r \in Requests :
    /\ pc[r] \in {"start", "append"} => EvalersOf(db[r]) = {}
    /\ pc[r] = "append" => procs[r].state # "killed"

\* a handler uses one that is listed,
UsedIsListed == \A r \in Requests :
    pc[r] \in {"lock", "wait", "remove"} => of[r] \in ToSet(evalers)

\* and one that runs is listed, but for the one just started.
AliveIsListed == \A p \in Requests :
    Alive(p) => p \in ToSet(evalers) \/ pc[p] = "append"

\* Only the handler that has killed it finds a killed evaler in the list.
KilledIsRemoved ==
    /\ \A p \in ToSet(evalers) :
          procs[p].state = "killed" => \E r \in Requests : of[r] = p /\ pc[r] = "remove"
    /\ \A r \in Requests : pc[r] = "remove" => ~Alive(of[r])

SerialInv == /\ OneInFlight /\ OneListed /\ NoneWhileStarting
             /\ UsedIsListed /\ AliveIsListed /\ KilledIsRemoved
             /\ NeverPanics


-----------------------------------------------------------------------------
(***************************************************************************)
(* Operators                                                               *)
(***************************************************************************)

LEMMA NullFacts ==
    /\ Null \notin Requests /\ Null \notin Dbs /\ Null \notin Proc
    /\ Null \notin Line /\ Null # NoLine /\ Null \notin Reply
<1> QED
    BY PoolAssumption

\* The list is looked through by index.
LEMMA ListElements ==
    ASSUME evalers \in Seq(Requests)
    PROVE  /\ Len(evalers) \in Nat /\ DOMAIN evalers = 1 .. Len(evalers)
           /\ \A i \in DOMAIN evalers : evalers[i] \in Requests
           /\ \A p : p \in ToSet(evalers) <=> \E i \in DOMAIN evalers : evalers[i] = p
           /\ ToSet(evalers) \subseteq Requests
<1> QED
    BY DEF ToSet

\* The natural numbers are well founded, as a relation the provers can use.
Less == {ss \in Nat \X Nat : ss[1] < ss[2]}

LEMMA LessIsWellFounded == IsWellFoundedOn(Less, Nat)
<1> QED
    BY NatLessThanWellFounded DEF OpToRel, Less

\* The first of a set of indices is one of them.
LEMMA FirstIsIn ==
    ASSUME NEW S \in SUBSET Nat, S # {}
    PROVE  FirstOf(S) \in S
<1>1. PICK n \in S : \A m \in S : ~ (<<m, n>> \in Less)
    BY LessIsWellFounded, WFMin
<1>2. ASSUME NEW m \in S PROVE n <= m
  <2>1. m \in Nat /\ n \in Nat
      OBVIOUS
  <2>2. m < n => <<m, n>> \in Less
      BY <2>1 DEF Less
  <2> QED
      BY <1>1, <2>1, <2>2
<1> QED
    BY <1>2 DEF FirstOf

LEMMA FirstEvaler ==
    ASSUME evalers \in Seq(Requests), NEW d, EvalersOf(d) # {}
    PROVE  FirstOf(EvalersOf(d)) \in EvalersOf(d)
<1>1. EvalersOf(d) \in SUBSET Nat
    BY ListElements DEF EvalersOf
<1> QED
    BY <1>1, FirstIsIn

\* Taking an entry out of the list keeps all the others, in some order.
LEMMA WithoutKeepsOthers ==
    ASSUME evalers \in Seq(Requests), NEW i \in DOMAIN evalers
    PROVE  LET n == Len(evalers)
           IN  /\ n \in Nat \ {0} /\ i \in 1 .. n
               /\ Without(i) \in Seq(Requests)
               /\ DOMAIN Without(i) = 1 .. n - 1
               /\ \A j \in 1 .. n - 1 :
                     Without(i)[j] = evalers[IF j = i THEN n ELSE j]
               /\ ToSet(Without(i)) \subseteq ToSet(evalers)
               /\ \A j \in (1 .. n) \ {i} : evalers[j] \in ToSet(Without(i))
<1> DEFINE n == Len(evalers)
           moved == [evalers EXCEPT ![i] = Last(evalers)]
<1>1. n \in Nat /\ i \in 1 .. n /\ DOMAIN evalers = 1 .. n
    OBVIOUS
<1>2. /\ moved \in Seq(Requests) /\ Len(moved) = n
      /\ \A j \in 1 .. n : moved[j] = evalers[IF j = i THEN n ELSE j]
    BY <1>1 DEF Last
<1> HIDE DEF moved
<1>3. /\ Without(i) \in Seq(Requests) /\ Len(Without(i)) = n - 1
      /\ \A j \in 1 .. n - 1 : Without(i)[j] = moved[j]
    BY <1>1, <1>2 DEF Without, moved
<1>4. /\ DOMAIN Without(i) = 1 .. n - 1
      /\ \A j \in 1 .. n - 1 : Without(i)[j] = evalers[IF j = i THEN n ELSE j]
    BY <1>1, <1>2, <1>3
<1>5. ToSet(Without(i)) \subseteq ToSet(evalers)
    BY <1>1, <1>4 DEF ToSet
<1> HIDE DEF n
<1>6. ASSUME NEW j \in 1 .. n, j # i
      PROVE  evalers[j] \in ToSet(Without(i))
  <2>1. CASE j # n
    <3>1. j \in 1 .. n - 1 /\ j # i
        BY <1>1, <1>6, <2>1
    <3>2. j \in DOMAIN Without(i) /\ Without(i)[j] = evalers[j]
        BY <1>4, <3>1
    <3> QED
        BY <3>2 DEF ToSet
  <2>2. CASE j = n
    <3>1. i \in DOMAIN Without(i) /\ Without(i)[i] = evalers[j]
        BY <1>1, <1>4, <1>6, <2>2
    <3> QED
        BY <3>1 DEF ToSet
  <2> QED
      BY <2>1, <2>2
<1> QED
    BY <1>1, <1>3, <1>4, <1>5, <1>6 DEF n

\* What a scan leaves behind are lines.
LEMMA LeftAreLines ==
    ASSUME NEW lines \in Seq(Line), NEW rest \in LeftOf(lines)
    PROVE  rest \in Seq(Line)
<1> DEFINE from == {SubSeq(lines, k, Len(lines)) : k \in 1 .. Len(lines) + 1}
<1>1. ASSUME NEW k \in 1 .. Len(lines) + 1
      PROVE  SubSeq(lines, k, Len(lines)) \in Seq(Line)
  <2>1. k \in Int /\ Len(lines) \in Int /\ \A i \in k .. Len(lines) : lines[i] \in Line
      OBVIOUS
  <2> QED
      BY <2>1, SubSeqProperties
<1>2. ASSUME NEW s \in Seq(Line), s # <<>>
      PROVE  [s EXCEPT ![1].whole = FALSE] \in Seq(Line)
  <2>1. Len(s) \in Nat \ {0} /\ s[1] \in Line
      BY <1>2
  <2>2. [s[1] EXCEPT !.whole = FALSE] \in Line
      BY <2>1 DEF Line
  <2> QED
      BY <2>1, <2>2
<1> QED
    BY <1>1, <1>2 DEF LeftOf

\* Nothing is left of nothing.
LEMMA LeftOfNothing == LeftOf(<<>>) = {<<>>}
<1>1. Len(<<>>) = 0 /\ 1 .. 0 + 1 = {1}
    OBVIOUS
<1>2. SubSeq(<<>>, 1, 0) = <<>>
    BY SubSeqEmpty
<1>3. {SubSeq(<<>>, k, Len(<<>>)) : k \in 1 .. Len(<<>>) + 1} = {<<>>}
    BY <1>1, <1>2
<1> QED
    BY <1>3 DEF LeftOf

-----------------------------------------------------------------------------
(***************************************************************************)
(* HandlerInv                                                              *)
(***************************************************************************)

LEMMA InitHandlers == Init => HandlerInv
<1> SUFFICES ASSUME Init PROVE HandlerInv
    OBVIOUS
<1> USE NullFacts DEF Init
<1>1. TypeOK
    BY DEF TypeOK, ToSet
<1>2. Acquired /\ StartedOnce /\ Locals /\ HeldWhileServed
    BY DEF Acquired, StartedOnce, Locals, HeldWhileServed, Serving
<1> QED
    BY <1>1, <1>2 DEF HandlerInv

\* What the writers, the readers and the processes do: it leaves every handler
\* where it is, and every evaler to the one that holds it.
PipeStep ==
    /\ UNCHANGED <<evalers, pc, db, of, reply>>
    /\ procs' \in [Requests -> Proc \cup {Null}]
    /\ \A p \in Requests :
          \/ procs[p] = Null /\ procs'[p] = Null
          \/ /\ procs[p] # Null /\ procs'[p] # Null
             /\ procs'[p].db = procs[p].db /\ procs'[p].lock = procs[p].lock
             /\ procs'[p].state \in {procs[p].state, "died"}
    /\ writing' \subseteq writing
    /\ got' \in [Requests -> Line \cup {NoLine, Null}]
    /\ \A r \in Requests : got'[r] # Null => pc[r] \in Serving
    /\ ran' \subseteq Requests

LEMMA PipeStepKeepsHandlers ==
    ASSUME HandlerInv, PipeStep
    PROVE  HandlerInv'
<1> USE DEF HandlerInv, PipeStep
<1>1. \A p \in Requests : procs'[p] # Null <=> procs[p] # Null
    OBVIOUS
<1>2. TypeOK'
  <2>1. \A p \in ToSet(evalers) : procs'[p] # Null
      BY <1>1, ListElements DEF TypeOK
  <2> QED
      BY <2>1 DEF TypeOK
<1>3. Acquired'
    BY <1>1 DEF Acquired
<1>4. StartedOnce'
    BY <1>1 DEF StartedOnce
<1>5. Locals'
    BY DEF Locals
<1>6. HeldWhileServed'
    BY <1>1 DEF HeldWhileServed, Serving
<1> QED
    BY <1>2, <1>3, <1>4, <1>5, <1>6

\* One evaler's entry changes, and neither its database nor its lock.
LEMMA EntryChange ==
    ASSUME HandlerInv, NEW p \in Requests, NEW e \in Proc, procs[p] # Null,
           procs' = [procs EXCEPT ![p] = e],
           e.db = procs[p].db, e.lock = procs[p].lock, e.state \in {procs[p].state, "died"}
    PROVE  /\ procs' \in [Requests -> Proc \cup {Null}]
           /\ \A q \in Requests :
                 \/ procs[q] = Null /\ procs'[q] = Null
                 \/ /\ procs[q] # Null /\ procs'[q] # Null
                    /\ procs'[q].db = procs[q].db /\ procs'[q].lock = procs[q].lock
                    /\ procs'[q].state \in {procs[q].state, "died"}
<1> QED
    BY NullFacts DEF HandlerInv, TypeOK

LEMMA WriteQueryStep ==
    ASSUME HandlerInv, NEW r \in Requests, WriteQuery(r)
    PROVE  PipeStep
<1> USE DEF HandlerInv, WriteQuery
<1>1. CASE ~Alive(of[r])
    BY <1>1 DEF TypeOK, Locals, PipeStep
<1>2. CASE Alive(of[r])
  <2> DEFINE p == of[r]
             e == [procs[p] EXCEPT !.stdin = Append(@, r)]
  <2>1. p \in Requests /\ procs[p] # Null /\ procs[p] \in Proc
      BY <1>2 DEF TypeOK, Locals, Acquired, Serving
  <2>2. e \in Proc /\ e.db = procs[p].db /\ e.lock = procs[p].lock /\ e.state = procs[p].state
    <3>1. procs[p].stdin \in Seq(Requests) /\ Append(procs[p].stdin, r) \in Seq(Requests)
        BY <2>1 DEF Proc
    <3> QED
        BY <2>1, <3>1 DEF Proc
  <2>3. procs' = [procs EXCEPT ![p] = e]
      BY <1>2, <2>1 DEF TypeOK
  <2> HIDE DEF p, e
  <2> QED
      BY <2>1, <2>2, <2>3, EntryChange DEF PipeStep, TypeOK, Locals
<1> QED
    BY <1>1, <1>2

LEMMA EvaluateStep ==
    ASSUME HandlerInv, NEW p \in Requests, Evaluate(p)
    PROVE  PipeStep
<1> DEFINE e == [procs[p] EXCEPT !.query = Head(procs[p].stdin), !.stdin = Tail(@)]
<1>1. procs[p] # Null /\ procs[p] \in Proc
    BY DEF HandlerInv, TypeOK, Evaluate, Alive
<1>2. /\ Head(procs[p].stdin) \in Requests /\ e \in Proc
      /\ e.db = procs[p].db /\ e.lock = procs[p].lock /\ e.state = procs[p].state
  <2>1. procs[p].stdin \in Seq(Requests) /\ procs[p].stdin # <<>>
      BY <1>1 DEF Proc, Evaluate
  <2>2. Head(procs[p].stdin) \in Requests /\ Tail(procs[p].stdin) \in Seq(Requests)
      BY <2>1
  <2> QED
      BY <1>1, <2>2 DEF Proc
<1>3. procs' = [procs EXCEPT ![p] = e]
    BY <1>1 DEF HandlerInv, TypeOK, Evaluate
<1> HIDE DEF e
<1> QED
    BY <1>1, <1>2, <1>3, EntryChange DEF PipeStep, Evaluate, HandlerInv, TypeOK, Locals

LEMMA AnswerStep ==
    ASSUME HandlerInv, NEW p \in Requests, Answer(p)
    PROVE  PipeStep
<1> DEFINE line(n) == [from |-> procs[p].query, whole |-> n = 1]
           e(n) == [procs[p] EXCEPT !.stdout = @ \o [k \in 1 .. n |-> line(n)], !.query = Null]
<1>1. procs \in [Requests -> Proc \cup {Null}] /\ procs[p] # Null /\ procs[p] \in Proc
    BY DEF HandlerInv, TypeOK, Answer, Alive
<1>2. PICK n \in AnswerLines : procs' = [procs EXCEPT ![p] = e(n)]
    BY <1>1 DEF Answer
<1>3. /\ e(n) \in Proc
      /\ e(n).db = procs[p].db /\ e(n).lock = procs[p].lock /\ e(n).state = procs[p].state
  <2>1. procs[p].stdout \in Seq(Line) /\ procs[p].query \in Requests
      BY <1>1 DEF Proc, Answer
  <2>2. n \in Nat /\ line(n) \in Line
      BY <2>1, PoolAssumption DEF Line
  <2> HIDE DEF line
  <2>3. [k \in 1 .. n |-> line(n)] \in Seq(Line)
      BY <2>2
  <2>4. procs[p].stdout \o [k \in 1 .. n |-> line(n)] \in Seq(Line)
      BY <2>1, <2>3
  <2> QED
      BY <1>1, <2>4 DEF Proc
<1> HIDE DEF e
<1> QED
    BY <1>1, <1>2, <1>3, EntryChange DEF PipeStep, Answer, HandlerInv, TypeOK, Locals

LEMMA DieStep ==
    ASSUME HandlerInv, NEW p \in Requests, Die(p)
    PROVE  PipeStep
<1> DEFINE e == [procs[p] EXCEPT !.state = "died", !.stdin = <<>>, !.query = Null]
<1>1. procs[p] # Null /\ procs[p] \in Proc
    BY DEF HandlerInv, TypeOK, Die, Alive
<1>2. /\ e \in Proc
      /\ e.db = procs[p].db /\ e.lock = procs[p].lock /\ e.state = "died"
  <2>1. <<>> \in Seq(Requests)
      OBVIOUS
  <2> QED
      BY <1>1, <2>1 DEF Proc
<1>3. procs' = [procs EXCEPT ![p] = e]
    BY <1>1 DEF HandlerInv, TypeOK, Die
<1> HIDE DEF e
<1> QED
    BY <1>1, <1>2, <1>3, EntryChange DEF PipeStep, Die, HandlerInv, TypeOK, Locals

LEMMA ReadStep ==
    ASSUME HandlerInv, NEW r \in Requests, Read(r)
    PROVE  PipeStep
<1> DEFINE p == of[r]
           out == procs[p].stdout
<1>1. p \in Requests /\ procs[p] # Null /\ procs[p] \in Proc /\ out \in Seq(Line)
    BY DEF HandlerInv, TypeOK, Acquired, Read, Serving, Proc
<1>2. CASE out = <<>> /\ got' = [got EXCEPT ![r] = NoLine] /\ UNCHANGED procs
    BY <1>2 DEF Read, HandlerInv, TypeOK, Locals, PipeStep, Serving
<1>3. CASE /\ out # <<>> /\ got' = [got EXCEPT ![r] = Head(out)]
           /\ \E rest \in LeftOf(Tail(out)) : procs' = [procs EXCEPT ![p].stdout = rest]
  <2>1. PICK rest \in LeftOf(Tail(out)) : procs' = [procs EXCEPT ![p].stdout = rest]
      BY <1>3
  <2> DEFINE e == [procs[p] EXCEPT !.stdout = rest]
  <2>2. Head(out) \in Line /\ rest \in Seq(Line)
    <3>1. Head(out) \in Line /\ Tail(out) \in Seq(Line)
        BY <1>1, <1>3
    <3> QED
        BY <3>1, LeftAreLines
  <2>3. /\ e \in Proc
        /\ e.db = procs[p].db /\ e.lock = procs[p].lock /\ e.state = procs[p].state
      BY <1>1, <2>2 DEF Proc
  <2>4. procs' = [procs EXCEPT ![p] = e]
      BY <1>1, <2>1 DEF HandlerInv, TypeOK
  <2> HIDE DEF e
  <2>5. /\ procs' \in [Requests -> Proc \cup {Null}]
        /\ \A q \in Requests :
              \/ procs[q] = Null /\ procs'[q] = Null
              \/ /\ procs[q] # Null /\ procs'[q] # Null
                 /\ procs'[q].db = procs[q].db /\ procs'[q].lock = procs[q].lock
                 /\ procs'[q].state \in {procs[q].state, "died"}
      BY <1>1, <2>3, <2>4, EntryChange
  <2>6. /\ got' \in [Requests -> Line \cup {NoLine, Null}]
        /\ \A q \in Requests : got'[q] # Null => pc[q] \in Serving
      BY <1>3, <2>2 DEF Read, HandlerInv, TypeOK, Locals, Serving
  <2> QED
      BY <2>5, <2>6 DEF PipeStep, Read, HandlerInv, TypeOK
<1> QED
    BY <1>2, <1>3 DEF Read

\* The lock changes hands, and nothing else of any evaler.
LockStep(p, holder) == procs' = [procs EXCEPT ![p].lock = holder]

LEMMA LockChange ==
    ASSUME HandlerInv, NEW p \in Requests, procs[p] # Null,
           NEW holder \in Requests \cup {Null}, LockStep(p, holder)
    PROVE  /\ procs' \in [Requests -> Proc \cup {Null}]
           /\ \A q \in Requests :
                 /\ procs[q] = Null <=> procs'[q] = Null
                 /\ procs[q] # Null => /\ procs'[q].db = procs[q].db
                                       /\ procs'[q].state = procs[q].state
                                       /\ procs'[q].stdin = procs[q].stdin
                                       /\ procs'[q].query = procs[q].query
                                       /\ procs'[q].stdout = procs[q].stdout
                                       /\ procs'[q].lock = IF q = p THEN holder
                                                           ELSE procs[q].lock
<1> DEFINE e == [procs[p] EXCEPT !.lock = holder]
<1>1. procs[p] \in Proc
    BY DEF HandlerInv, TypeOK
<1>2. /\ e \in Proc /\ e.lock = holder
      /\ e.db = procs[p].db /\ e.state = procs[p].state
      /\ e.stdin = procs[p].stdin /\ e.query = procs[p].query /\ e.stdout = procs[p].stdout
    BY <1>1 DEF Proc
<1>3. procs' = [procs EXCEPT ![p] = e]
    BY <1>1 DEF HandlerInv, TypeOK, LockStep
<1> HIDE DEF e
<1> QED
    BY <1>2, <1>3, NullFacts DEF HandlerInv, TypeOK

\* Up to e.Lock() a request changes nothing but the list and its own entry.
LEMMA ArriveKeepsHandlers ==
    ASSUME HandlerInv, NEW r \in Requests, Arrive(r)
    PROVE  HandlerInv'
<1> USE DEF HandlerInv, Arrive
<1>1. TypeOK'
    BY DEF TypeOK
<1>2. Acquired' /\ StartedOnce' /\ Locals' /\ HeldWhileServed'
    BY DEF TypeOK, Acquired, StartedOnce, Locals, HeldWhileServed, Serving
<1> QED
    BY <1>1, <1>2

\* What Look does, without the search.
LEMMA LookStep ==
    ASSUME HandlerInv, NEW r \in Requests, Look(r)
    PROVE  /\ pc[r] = "look" /\ UNCHANGED <<evalers, procs, db, writing, got, reply, ran>>
           /\ \/ /\ EvalersOf(db[r]) = {} /\ UNCHANGED of /\ pc' = [pc EXCEPT ![r] = "start"]
              \/ \E p \in ToSet(evalers) :
                    /\ procs[p].db = db[r]
                    /\ of' = [of EXCEPT ![r] = p] /\ pc' = [pc EXCEPT ![r] = "lock"]
<1>1. CASE EvalersOf(db[r]) = {}
    BY <1>1 DEF Look, Found
<1>2. CASE EvalersOf(db[r]) # {}
  <2>1. FirstOf(EvalersOf(db[r])) \in EvalersOf(db[r])
      BY <1>2, FirstEvaler DEF HandlerInv, TypeOK
  <2>2. /\ evalers[FirstOf(EvalersOf(db[r]))] \in ToSet(evalers)
        /\ procs[evalers[FirstOf(EvalersOf(db[r]))]].db = db[r]
      BY <2>1, ListElements DEF EvalersOf, HandlerInv, TypeOK
  <2> QED
      BY <1>2, <2>2 DEF Look, Found
<1> QED
    BY <1>1, <1>2

LEMMA LookKeepsHandlers ==
    ASSUME HandlerInv, NEW r \in Requests, Look(r)
    PROVE  HandlerInv'
<1> USE DEF HandlerInv
<1>1. /\ pc[r] = "look" /\ UNCHANGED <<evalers, procs, db, writing, got, reply, ran>>
      /\ \A q \in Requests : q # r => of'[q] = of[q] /\ pc'[q] = pc[q]
      /\ of' \in [Requests -> Requests \cup {Null}]
      /\ pc' = [pc EXCEPT ![r] = pc'[r]] /\ pc'[r] \in {"start", "lock"}
      /\ pc'[r] = "lock" => /\ of'[r] \in Requests /\ procs[of'[r]] # Null
                            /\ procs[of'[r]].db = db[r]
    BY LookStep, ListElements DEF TypeOK
<1>2. TypeOK'
    BY <1>1 DEF TypeOK
<1>3. Acquired' /\ StartedOnce' /\ Locals'
  <2>1. Acquired'
      BY <1>1 DEF Acquired, Serving
  <2>2. StartedOnce'
      BY <1>1 DEF StartedOnce
  <2>3. Locals'
      BY <1>1 DEF Locals, Serving
  <2> QED
      BY <2>1, <2>2, <2>3
<1>4. HeldWhileServed'
    BY <1>1 DEF TypeOK, HeldWhileServed, Serving
<1> QED
    BY <1>2, <1>3, <1>4

LEMMA StartProcKeepsHandlers ==
    ASSUME HandlerInv, NEW r \in Requests, StartProc(r)
    PROVE  HandlerInv'
<1> DEFINE e == [db |-> db[r], state |-> "alive", lock |-> Null,
                 stdin |-> <<>>, query |-> Null, stdout |-> <<>>]
<1> USE DEF HandlerInv
<1>1. e \in Proc /\ e # Null /\ e.db = db[r] /\ e.lock = Null
  <2>1. db[r] \in Dbs /\ <<>> \in Seq(Requests) /\ <<>> \in Seq(Line)
      BY DEF TypeOK
  <2>2. e \in Proc
      BY <2>1 DEF Proc
  <2> QED
      BY <2>2, NullFacts
<1>2. /\ pc[r] = "start" /\ procs[r] = Null /\ procs' = [procs EXCEPT ![r] = e]
      /\ pc' = [pc EXCEPT ![r] = "append"] /\ of' = [of EXCEPT ![r] = r]
      /\ UNCHANGED <<evalers, db, writing, got, reply, ran>>
    BY DEF StartProc, StartedOnce
<1> HIDE DEF e
<1>3. TypeOK'
    BY <1>1, <1>2, ListElements DEF TypeOK
<1>4. Acquired' /\ StartedOnce' /\ Locals'
    BY <1>1, <1>2 DEF TypeOK, Acquired, StartedOnce, Locals, Serving
<1>5. HeldWhileServed'
    BY <1>1, <1>2, NullFacts DEF TypeOK, HeldWhileServed, Acquired, Serving
<1> QED
    BY <1>3, <1>4, <1>5

LEMMA AppendEvalerKeepsHandlers ==
    ASSUME HandlerInv, NEW r \in Requests, AppendEvaler(r)
    PROVE  HandlerInv'
<1> USE DEF HandlerInv, AppendEvaler, Listed
<1>1. TypeOK'
  <2>1. evalers' \in Seq(Requests) /\ procs[r] # Null
      BY DEF TypeOK, Acquired, StartedOnce
  <2>2. \A i \in DOMAIN evalers' : evalers'[i] = r \/ evalers'[i] \in ToSet(evalers)
      BY DEF TypeOK, ToSet
  <2> QED
      BY <2>1, <2>2 DEF TypeOK, ToSet
<1>2. Acquired' /\ StartedOnce' /\ Locals' /\ HeldWhileServed'
    BY DEF TypeOK, Acquired, StartedOnce, Locals, HeldWhileServed, Serving
<1> QED
    BY <1>1, <1>2

\* What a handler that gets the lock finds: nobody else uses the evaler.
LEMMA LockEvalerKeepsHandlers ==
    ASSUME HandlerInv, NEW r \in Requests, LockEvaler(r)
    PROVE  HandlerInv'
<1> USE DEF HandlerInv
<1> DEFINE p == of[r]
<1>1. /\ pc[r] = "lock" /\ p \in Requests /\ procs[p] # Null /\ procs[p].lock = Null
      /\ LockStep(p, r)
      /\ writing' = writing \cup {r} /\ pc' = [pc EXCEPT ![r] = "wait"]
      /\ UNCHANGED <<evalers, db, of, got, reply, ran>>
    BY DEF LockEvaler, Unlocked, LockStep, Acquired
<1>2. /\ procs' \in [Requests -> Proc \cup {Null}]
      /\ \A q \in Requests :
            /\ procs[q] = Null <=> procs'[q] = Null
            /\ procs[q] # Null =>
                  /\ procs'[q].db = procs[q].db
                  /\ procs'[q].lock = IF q = p THEN r ELSE procs[q].lock
    BY <1>1, LockChange
<1> HIDE DEF p
<1>3. TypeOK'
    BY <1>1, <1>2, ListElements DEF TypeOK
<1>4. Acquired' /\ StartedOnce' /\ Locals'
  <2>1. Acquired' /\ StartedOnce'
      BY <1>1, <1>2 DEF TypeOK, Acquired, StartedOnce, Serving
  <2>2. Locals'
      BY <1>1, <1>2 DEF TypeOK, Locals, Serving
  <2> QED
      BY <2>1, <2>2
<1>5. HeldWhileServed'
  <2> SUFFICES ASSUME NEW q \in Requests, NEW s \in Requests, procs'[q] # Null
               PROVE  procs'[q].lock = s
                        <=> of[s] = q /\ pc'[s] \in {"wait", "remove", "drain"}
      BY <1>1 DEF HeldWhileServed
  <2>1. procs[q].lock = s <=> of[s] = q /\ pc[s] \in {"wait", "remove", "drain"}
      BY <1>2 DEF HeldWhileServed
  <2>2. CASE s = r
      BY <1>1, <1>2, <2>1, <2>2 DEF TypeOK, p
  <2>3. CASE s # r
      BY <1>1, <1>2, <2>1, <2>3, NullFacts DEF TypeOK, p
  <2> QED
      BY <2>2, <2>3
<1> QED
    BY <1>3, <1>4, <1>5

\* Every way out of doEval releases the evaler.
LEMMA FinishKeepsHandlers ==
    ASSUME HandlerInv, NEW r \in Requests, pc[r] \in Serving,
           NEW kind \in {"answer", "bad", "timeout", "panic"},
           NEW from \in Requests \cup {Null}, Finish(r, kind, from),
           UNCHANGED <<evalers, db, of, writing, ran>>
    PROVE  HandlerInv'
<1> USE DEF HandlerInv
<1> DEFINE p == of[r]
           answer == [kind |-> kind, from |-> from]
<1>1. /\ p \in Requests /\ procs[p] # Null /\ procs[p].lock = r
      /\ LockStep(p, Null)
      /\ reply' = [reply EXCEPT ![r] = answer] /\ answer \in Reply /\ answer # Null
      /\ pc' = [pc EXCEPT ![r] = "done"] /\ got' = [got EXCEPT ![r] = Null]
    BY NullFacts DEF Finish, Released, LockStep, Acquired, HeldWhileServed, Serving, Reply
<1>2. /\ procs' \in [Requests -> Proc \cup {Null}]
      /\ \A q \in Requests :
            /\ procs[q] = Null <=> procs'[q] = Null
            /\ procs[q] # Null =>
                  /\ procs'[q].db = procs[q].db
                  /\ procs'[q].lock = IF q = p THEN Null ELSE procs[q].lock
    BY <1>1, LockChange
<1> HIDE DEF p, answer
<1>3. TypeOK'
    BY <1>1, <1>2, ListElements DEF TypeOK
<1>4. Acquired' /\ StartedOnce' /\ Locals'
    BY <1>1, <1>2 DEF TypeOK, Acquired, StartedOnce, Locals, Serving
<1>5. HeldWhileServed'
  <2> SUFFICES ASSUME NEW q \in Requests, NEW s \in Requests, procs'[q] # Null
               PROVE  procs'[q].lock = s
                        <=> of[s] = q /\ pc'[s] \in {"wait", "remove", "drain"}
      BY DEF HeldWhileServed
  <2>1. procs[q].lock = s <=> of[s] = q /\ pc[s] \in {"wait", "remove", "drain"}
      BY <1>2 DEF HeldWhileServed
  <2>2. CASE s = r
      BY <1>1, <1>2, <2>1, <2>2, NullFacts DEF TypeOK, p
  <2>3. CASE s # r
      BY <1>1, <1>2, <2>1, <2>3, NullFacts DEF TypeOK, p
  <2> QED
      BY <2>2, <2>3
<1> QED
    BY <1>3, <1>4, <1>5

LEMMA RespondKeepsHandlers ==
    ASSUME HandlerInv, NEW r \in Requests, Respond(r)
    PROVE  HandlerInv'
<1>1. got[r] # Null /\ got[r] \in Line \cup {NoLine} /\ pc[r] \in Serving
    BY DEF HandlerInv, TypeOK, Respond, Serving
<1>2. CASE got[r].whole /\ Finish(r, "answer", got[r].from)
  <2>1. got[r].from \in Requests
      BY <1>1, <1>2 DEF Line, NoLine
  <2> QED
      BY <1>1, <1>2, <2>1, FinishKeepsHandlers DEF Respond
<1>3. CASE Finish(r, "bad", Null)
    BY <1>1, <1>3, FinishKeepsHandlers DEF Respond
<1> QED
    BY <1>2, <1>3 DEF Respond

LEMMA DrainKeepsHandlers ==
    ASSUME HandlerInv, NEW r \in Requests, Drain(r)
    PROVE  HandlerInv'
<1> QED
    BY FinishKeepsHandlers DEF Drain, Serving

\* What is left of a process that is killed, whether it was alive or not.
LEMMA KilledEntry ==
    ASSUME NEW e \in Proc
    PROVE  /\ Killed(e) \in Proc
           /\ Killed(e).db = e.db /\ Killed(e).lock = e.lock
           /\ Killed(e).state = IF e.state = "alive" THEN "killed" ELSE e.state
           /\ Killed(e).stdout = <<>>
           /\ Killed(e).stdin = IF e.state = "alive" THEN <<>> ELSE e.stdin
           /\ Killed(e).query = IF e.state = "alive" THEN Null ELSE e.query
<1>1. <<>> \in Seq(Requests) /\ <<>> \in Seq(Line)
    OBVIOUS
<1>2. CASE e.state = "alive"
    BY <1>1, <1>2 DEF Killed, Proc
<1>3. CASE e.state # "alive"
    BY <1>1, <1>3 DEF Killed, Proc
<1> QED
    BY <1>2, <1>3

\* What TimeOut does to the evalers.
LEMMA TimeOutStep ==
    ASSUME HandlerInv, NEW r \in Requests, TimeOut(r)
    PROVE  /\ of[r] \in Requests /\ procs[of[r]] \in Proc /\ procs[of[r]] # Null
           /\ procs' = [procs EXCEPT ![of[r]] = Killed(procs[of[r]])]
           /\ Killed(procs[of[r]]) \in Proc /\ Killed(procs[of[r]]) # Null
           /\ Killed(procs[of[r]]).db = procs[of[r]].db
           /\ Killed(procs[of[r]]).lock = procs[of[r]].lock
<1>1. of[r] \in Requests /\ procs[of[r]] \in Proc /\ procs[of[r]] # Null
    BY DEF HandlerInv, TypeOK, Acquired, TimeOut, Serving
<1> QED
    BY <1>1, KilledEntry, NullFacts DEF TimeOut

LEMMA TimeOutKeepsHandlers ==
    ASSUME HandlerInv, NEW r \in Requests, TimeOut(r)
    PROVE  HandlerInv'
<1> USE DEF HandlerInv
<1>1. /\ pc[r] = "wait" /\ pc' = [pc EXCEPT ![r] = "remove"]
      /\ UNCHANGED <<evalers, db, of, writing, got, reply, ran>>
    BY DEF TimeOut
<1>2. /\ procs' \in [Requests -> Proc \cup {Null}]
      /\ \A q \in Requests :
            /\ procs[q] = Null <=> procs'[q] = Null
            /\ procs[q] # Null => procs'[q].db = procs[q].db /\ procs'[q].lock = procs[q].lock
    BY TimeOutStep DEF TypeOK
<1>3. TypeOK'
    BY <1>1, <1>2, ListElements DEF TypeOK
<1>4. Acquired' /\ StartedOnce' /\ Locals'
    BY <1>1, <1>2 DEF TypeOK, Acquired, StartedOnce, Locals, Serving
<1>5. HeldWhileServed'
    BY <1>1, <1>2 DEF TypeOK, HeldWhileServed
<1> QED
    BY <1>3, <1>4, <1>5

\* What Unlist does to the list, if it does not panic.
LEMMA UnlistStep ==
    ASSUME HandlerInv, NEW r \in Requests, Unlist(r), EvalersOf(procs[of[r]].db) # {}
    PROVE  /\ pc[r] = "remove" /\ pc' = [pc EXCEPT ![r] = "drain"]
           /\ UNCHANGED <<procs, reply, got, db, of, writing, ran>>
           /\ \E i \in EvalersOf(procs[of[r]].db) : evalers' = Without(i)
<1> QED
    BY FirstEvaler DEF Unlist, HandlerInv, TypeOK

LEMMA UnlistKeepsHandlers ==
    ASSUME HandlerInv, NEW r \in Requests, Unlist(r)
    PROVE  HandlerInv'
<1> USE DEF HandlerInv
<1>1. CASE EvalersOf(procs[of[r]].db) # {}
  <2>1. PICK i \in DOMAIN evalers : evalers' = Without(i)
      BY <1>1, UnlistStep DEF EvalersOf
  <2>2. evalers' \in Seq(Requests) /\ ToSet(evalers') \subseteq ToSet(evalers)
      BY <2>1, WithoutKeepsOthers DEF TypeOK
  <2>3. /\ pc[r] = "remove" /\ pc' = [pc EXCEPT ![r] = "drain"]
        /\ UNCHANGED <<procs, reply, got, db, of, writing, ran>>
      BY <1>1, UnlistStep
  <2>4. TypeOK'
      BY <2>2, <2>3 DEF TypeOK
  <2>5. Acquired' /\ StartedOnce' /\ Locals'
      BY <2>3 DEF TypeOK, Acquired, StartedOnce, Locals, Serving
  <2>6. HeldWhileServed'
      BY <2>3 DEF TypeOK, HeldWhileServed
  <2> QED
      BY <2>4, <2>5, <2>6
<1>2. CASE Finish(r, "panic", Null) /\ UNCHANGED evalers
    BY <1>2, FinishKeepsHandlers DEF Unlist, Serving
<1> QED
    BY <1>1, <1>2 DEF Unlist

\* A handler is where its evaler's lock says it is, in every reachable state.
THEOREM HandlerInvariant == Spec => []HandlerInv
<1>1. HandlerInv /\ [Next]_vars => HandlerInv'
  <2> SUFFICES ASSUME HandlerInv, [Next]_vars PROVE HandlerInv'
      OBVIOUS
  <2>1. CASE UNCHANGED vars
      BY <2>1 DEF vars, HandlerInv, TypeOK, Acquired, StartedOnce, Locals, HeldWhileServed
  <2>2. ASSUME NEW r \in Requests, WriteQuery(r) \/ Read(r) \/ Evaluate(r) \/ Answer(r) \/ Die(r)
        PROVE  HandlerInv'
      BY <2>2, WriteQueryStep, ReadStep, EvaluateStep, AnswerStep, DieStep, PipeStepKeepsHandlers
  <2>3. ASSUME NEW r \in Requests, Arrive(r) \/ LockEvaler(r) \/ Handle(r)
        PROVE  HandlerInv'
      BY <2>3, ArriveKeepsHandlers, LookKeepsHandlers, StartProcKeepsHandlers,
         AppendEvalerKeepsHandlers, LockEvalerKeepsHandlers, RespondKeepsHandlers,
         TimeOutKeepsHandlers, UnlistKeepsHandlers, DrainKeepsHandlers DEF Handle
  <2> QED
      BY <2>1, <2>2, <2>3 DEF Next
<1> QED
    BY <1>1, InitHandlers, PTL DEF Spec

-----------------------------------------------------------------------------
(***************************************************************************)
(* PipeInv, while every answer is read in one scan                         *)
(***************************************************************************)

LEMMA InitPipes == Init => PipeInv
<1> QED
    BY DEF Init, PipeInv, PipesCarryOne, ScansOwn, GivenUpIsDead, AnswersAreOwn

\* Whoever is served holds the lock, and what it has scanned is out of the pipe.
LEMMA ServedHoldsLock ==
    ASSUME HandlerInv, PipeInv, NEW r \in Requests, pc[r] \in Serving
    PROVE  /\ of[r] \in Requests /\ procs[of[r]] # Null /\ procs[of[r]] \in Proc
           /\ procs[of[r]].lock = r /\ OneQuery(of[r])
           /\ got[r] # Null => Empty(of[r])
<1>1. of[r] \in Requests /\ procs[of[r]] # Null /\ procs[of[r]].lock = r
    BY DEF HandlerInv, Acquired, HeldWhileServed, Serving
<1> QED
    BY <1>1 DEF PipeInv, PipesCarryOne, OneQuery, HandlerInv, TypeOK

\* Before the lock: the pipes are not touched, nor is anything read from them.
LEMMA BeforeLockKeepsPipes ==
    ASSUME HandlerInv, PipeInv, NEW r \in Requests, Arrive(r) \/ Look(r) \/ AppendEvaler(r)
    PROVE  PipeInv'
<1>1. /\ UNCHANGED <<procs, writing, got, reply, ran>>
      /\ \A q \in Requests \ {r} : pc'[q] = pc[q] /\ of'[q] = of[q]
      /\ pc[r] \in {"idle", "look", "append"} /\ pc'[r] \in {"look", "start", "lock"}
    BY LookStep DEF HandlerInv, TypeOK, Arrive, AppendEvaler
<1>2. PipesCarryOne'
    BY <1>1 DEF PipeInv, PipesCarryOne, OneQuery, Empty, Alive
<1>3. ScansOwn'
    BY <1>1 DEF PipeInv, ScansOwn, HandlerInv, Locals, Alive, Serving
<1>4. GivenUpIsDead'
    BY <1>1 DEF PipeInv, GivenUpIsDead, Alive, Empty
<1>5. AnswersAreOwn'
    BY <1>1 DEF PipeInv, AnswersAreOwn
<1> QED
    BY <1>2, <1>3, <1>4, <1>5 DEF PipeInv

LEMMA StartProcKeepsPipes ==
    ASSUME HandlerInv, PipeInv, NEW r \in Requests, StartProc(r)
    PROVE  PipeInv'
<1>1. /\ pc[r] = "start" /\ procs[r] = Null /\ pc'[r] = "append"
      /\ \A q \in Requests \ {r} :
            pc'[q] = pc[q] /\ of'[q] = of[q] /\ procs'[q] = procs[q]
      /\ UNCHANGED <<evalers, db, writing, got, reply, ran>>
      /\ procs'[r].stdin = <<>> /\ procs'[r].query = Null /\ procs'[r].stdout = <<>>
    BY DEF HandlerInv, TypeOK, StartedOnce, StartProc
<1>2. \A q \in Requests : pc[q] \in Serving \cup {"done"} =>
          of[q] # r /\ of'[q] = of[q] /\ pc'[q] = pc[q] /\ procs'[of[q]] = procs[of[q]]
    BY <1>1 DEF HandlerInv, Acquired, Serving
<1>3. PipesCarryOne'
    BY <1>1 DEF PipeInv, PipesCarryOne, OneQuery, Empty, Alive
<1>4. ScansOwn'
    BY <1>1, <1>2 DEF PipeInv, ScansOwn, HandlerInv, Locals, Alive
<1>5. GivenUpIsDead'
    BY <1>1, <1>2 DEF PipeInv, GivenUpIsDead, Alive, Empty, Serving
<1>6. AnswersAreOwn'
    BY <1>1 DEF PipeInv, AnswersAreOwn
<1> QED
    BY <1>3, <1>4, <1>5, <1>6 DEF PipeInv

\* An evaler nobody holds has empty pipes: that is what the next one finds.
LEMMA LockEvalerKeepsPipes ==
    ASSUME HandlerInv, PipeInv, NEW r \in Requests, LockEvaler(r)
    PROVE  PipeInv'
<1> DEFINE p == of[r]
<1>1. /\ pc[r] = "lock" /\ p \in Requests /\ procs[p] # Null /\ procs[p].lock = Null
      /\ LockStep(p, r)
      /\ writing' = writing \cup {r} /\ pc' = [pc EXCEPT ![r] = "wait"]
      /\ UNCHANGED <<evalers, db, of, got, reply, ran>>
    BY DEF LockEvaler, Unlocked, LockStep, HandlerInv, Acquired
<1>2. \A q \in Requests :
         /\ procs[q] = Null <=> procs'[q] = Null
         /\ procs[q] # Null =>
               /\ Alive(q)' = Alive(q) /\ Empty(q)' = Empty(q)
               /\ procs'[q].stdin = procs[q].stdin /\ procs'[q].query = procs[q].query
               /\ procs'[q].stdout = procs[q].stdout
               /\ procs'[q].lock = IF q = p THEN r ELSE procs[q].lock
    BY <1>1, LockChange DEF Alive, Empty
<1>3. Empty(p)
    BY <1>1 DEF PipeInv, PipesCarryOne, OneQuery
<1>4. got[r] = Null
    BY <1>1 DEF HandlerInv, Locals, Serving
<1> HIDE DEF p
<1>5. PipesCarryOne'
  <2> SUFFICES ASSUME NEW q \in Requests, procs'[q] # Null PROVE OneQuery(q)'
      BY DEF PipesCarryOne
  <2>1. CASE q = p
      BY <1>2, <1>3, <2>1 DEF OneQuery
  <2>2. CASE q # p
    <3>1. OneQuery(q) /\ procs[q].lock # r
        BY <1>1, <1>2 DEF PipeInv, PipesCarryOne, HandlerInv, HeldWhileServed
    <3> QED
        BY <1>1, <1>2, <2>2, <3>1 DEF OneQuery
  <2> QED
      BY <2>1, <2>2
<1>6. ScansOwn'
  <2> SUFFICES ASSUME NEW q \in Requests, got[q] # Null
               PROVE  \/ got[q] = Whole(q) /\ q \in ran /\ q \notin writing'
                      \/ got[q] = NoLine /\ ~Alive(of[q])'
      BY <1>1 DEF ScansOwn, Alive
  <2>1. q # r /\ of[q] \in Requests /\ procs[of[q]] # Null
      BY <1>4 DEF HandlerInv, Locals, Acquired
  <2>2. Alive(of[q])' = Alive(of[q])
      BY <1>1, <1>2, <2>1 DEF Alive
  <2> QED
      BY <1>1, <2>1, <2>2 DEF PipeInv, ScansOwn
<1>7. GivenUpIsDead'
  <2> SUFFICES ASSUME NEW q \in Requests
               PROVE  /\ pc'[q] \in {"remove", "drain"} => ~Alive(of[q])' /\ Empty(of[q])'
                      /\ pc'[q] = "done" /\ q \in writing' => ~Alive(of[q])'
      BY <1>1 DEF GivenUpIsDead
  <2>1. CASE pc'[q] \in {"remove", "drain", "done"}
    <3>1. q # r /\ pc'[q] = pc[q] /\ of[q] \in Requests /\ procs[of[q]] # Null
        BY <1>1, <2>1 DEF HandlerInv, TypeOK, Acquired, Serving
    <3>2. Alive(of[q])' = Alive(of[q]) /\ Empty(of[q])' = Empty(of[q])
        BY <1>1, <1>2, <3>1 DEF Alive, Empty
    <3> QED
        BY <1>1, <3>1, <3>2 DEF PipeInv, GivenUpIsDead
  <2> QED
      BY <2>1
<1>8. AnswersAreOwn'
    BY <1>1 DEF PipeInv, AnswersAreOwn
<1> QED
    BY <1>5, <1>6, <1>7, <1>8 DEF PipeInv

\* What has been scanned by r in the next state.
ScannedNext(r) == \/ got'[r] = Whole(r) /\ r \in ran' /\ r \notin writing'
                  \/ got'[r] = NoLine /\ ~Alive(of[r])'

\* A step that touches the pipes of p alone, and what its holder has scanned.
OnePipeStep(p) ==
    /\ UNCHANGED <<pc, of, reply>> /\ writing' \subseteq writing /\ ran \subseteq ran'
    /\ \A q \in Requests \ {p} : procs'[q] = procs[q]
    /\ procs[p] # Null /\ procs'[p] # Null
    /\ OneQuery(p)'
    /\ Alive(p)' => Alive(p)
    /\ ~Alive(p) /\ Empty(p) => Empty(p)'
    /\ \A s \in Requests : got'[s] = got[s] \/ (of[s] = p /\ ScannedNext(s))

LEMMA OnePipeKeepsPipes ==
    ASSUME HandlerInv, PipeInv, NEW p \in Requests, OnePipeStep(p)
    PROVE  PipeInv'
<1> USE DEF OnePipeStep
<1>1. \A q \in Requests : Alive(q)' => Alive(q)
    BY DEF Alive
<1>2. PipesCarryOne'
  <2> SUFFICES ASSUME NEW q \in Requests, q # p, procs[q] # Null PROVE OneQuery(q)'
      BY DEF PipesCarryOne
  <2>1. procs'[q] = procs[q] /\ OneQuery(q)
      BY DEF PipeInv, PipesCarryOne
  <2>2. CASE ~Empty(q)
    <3>1. procs[q].lock \in Requests /\ of[procs[q].lock] = q
        BY <2>1, <2>2 DEF OneQuery, HandlerInv, TypeOK, HeldWhileServed, Proc
    <3>2. got'[procs[q].lock] = got[procs[q].lock]
        BY <3>1
    <3> QED
        BY <2>1, <2>2, <3>2 DEF OneQuery, Alive
  <2>3. CASE Empty(q)
      BY <2>1, <2>3 DEF OneQuery, Empty
  <2> QED
      BY <2>2, <2>3
<1>3. ScansOwn'
  <2> SUFFICES ASSUME NEW s \in Requests, got'[s] # Null PROVE ScannedNext(s)
      BY DEF ScansOwn, ScannedNext, Alive
  <2>1. CASE got'[s] = got[s]
    <3>1. of[s] \in Requests
        BY <2>1 DEF HandlerInv, Locals, Acquired
    <3> QED
        BY <1>1, <2>1, <3>1 DEF PipeInv, ScansOwn, ScannedNext
  <2> QED
      BY <2>1
<1>4. GivenUpIsDead'
  <2> SUFFICES ASSUME NEW s \in Requests
               PROVE  /\ pc[s] \in {"remove", "drain"} => ~Alive(of[s])' /\ Empty(of[s])'
                      /\ pc[s] = "done" /\ s \in writing' => ~Alive(of[s])'
      BY DEF GivenUpIsDead, Alive, Empty
  <2>1. CASE pc[s] \in {"remove", "drain"}
    <3>1. of[s] \in Requests /\ ~Alive(of[s]) /\ Empty(of[s])
        BY <2>1 DEF PipeInv, GivenUpIsDead, HandlerInv, Acquired, Serving
    <3>2. Empty(of[s])'
        BY <3>1 DEF Empty
    <3> QED
        BY <1>1, <2>1, <3>1, <3>2
  <2>2. CASE pc[s] = "done" /\ s \in writing'
    <3>1. of[s] \in Requests /\ ~Alive(of[s])
        BY <2>2 DEF PipeInv, GivenUpIsDead, HandlerInv, Acquired
    <3> QED
        BY <1>1, <2>2, <3>1
  <2> QED
      BY <2>1, <2>2
<1>5. AnswersAreOwn'
    BY DEF PipeInv, AnswersAreOwn
<1> QED
    BY <1>2, <1>3, <1>4, <1>5 DEF PipeInv

\* A writer whose evaler is alive is the one of the request that holds it.
LEMMA WriteQueryKeepsPipes ==
    ASSUME HandlerInv, PipeInv, NEW r \in Requests, WriteQuery(r)
    PROVE  PipeInv'
<1>1. /\ r \in writing /\ writing' = writing \ {r}
      /\ UNCHANGED <<evalers, pc, db, of, got, reply, ran>>
    BY DEF WriteQuery
<1>2. CASE ~Alive(of[r])
  <2>1. UNCHANGED procs
      BY <1>2 DEF WriteQuery
  <2>2. PipesCarryOne'
      BY <1>1, <2>1 DEF PipeInv, PipesCarryOne, OneQuery, Empty, Alive
  <2>3. ScansOwn' /\ GivenUpIsDead' /\ AnswersAreOwn'
      BY <1>1, <2>1 DEF PipeInv, ScansOwn, GivenUpIsDead, AnswersAreOwn, Alive, Empty
  <2> QED
      BY <2>2, <2>3 DEF PipeInv
<1>3. CASE Alive(of[r])
  <2>1. pc[r] \in Serving
      BY <1>1, <1>3 DEF HandlerInv, Locals, PipeInv, GivenUpIsDead
  <2> PICK p \in Requests : p = of[r]
      BY <2>1, ServedHoldsLock
  <2>2. procs[p] # Null /\ procs[p] \in Proc /\ procs[p].lock = r /\ Empty(p)
      BY <1>1, <2>1, ServedHoldsLock DEF OneQuery
  <2>3. got[r] = Null
      BY <1>1, <1>3 DEF PipeInv, ScansOwn
  <2>4. procs' = [procs EXCEPT ![p].stdin = <<r>>]
    <3>1. Append(procs[p].stdin, r) = <<r>>
        BY <2>2 DEF Empty
    <3> QED
        BY <1>3, <3>1 DEF WriteQuery
  <2>5. /\ \A q \in Requests \ {p} : procs'[q] = procs[q]
        /\ procs'[p] # Null /\ procs'[p].lock = r /\ procs'[p].state = procs[p].state
        /\ procs'[p].stdin = <<r>> /\ procs'[p].query = Null /\ procs'[p].stdout = <<>>
    <3>1. procs'[p] # Null
        BY <2>2, WriteQueryStep DEF PipeStep
    <3> QED
        BY <2>2, <2>4, <3>1 DEF HandlerInv, TypeOK, Empty, Proc
  <2>6. OneQuery(p)'
      BY <1>1, <1>3, <2>3, <2>5, NullFacts DEF OneQuery, Alive
  <2>7. Alive(p)
      BY <1>3, <2>2, <2>5 DEF Alive
  <2>8. OnePipeStep(p)
      BY <1>1, <2>2, <2>5, <2>6, <2>7 DEF OnePipeStep
  <2> QED
      BY <2>8, OnePipeKeepsPipes
<1> QED
    BY <1>2, <1>3

LEMMA EvaluateKeepsPipes ==
    ASSUME HandlerInv, PipeInv, NEW p \in Requests, Evaluate(p)
    PROVE  PipeInv'
<1>1. /\ Alive(p) /\ procs[p] # Null /\ procs[p] \in Proc /\ ~Empty(p)
      /\ procs[p].stdin # <<>> /\ procs[p].query = Null
    BY DEF Evaluate, Alive, Empty, HandlerInv, TypeOK
<1> PICK r \in Requests : r = procs[p].lock
    BY <1>1, NullFacts DEF PipeInv, PipesCarryOne, OneQuery, Proc
<1>2. /\ r # Null /\ r \notin writing /\ got[r] = Null
      /\ procs[p].stdin = <<r>> /\ procs[p].stdout = <<>>
    BY <1>1, NullFacts DEF PipeInv, PipesCarryOne, OneQuery
<1>3. Head(procs[p].stdin) = r /\ Tail(procs[p].stdin) = <<>>
    BY <1>2
<1>4. /\ procs' = [procs EXCEPT ![p].query = r, ![p].stdin = <<>>]
      /\ ran' = ran \cup {r} /\ UNCHANGED <<pc, of, reply, writing, got>>
    BY <1>3 DEF Evaluate
<1>5. procs'[p] # Null
    BY <1>1, EvaluateStep DEF PipeStep
<1>6. /\ \A q \in Requests \ {p} : procs'[q] = procs[q]
      /\ procs'[p].lock = r /\ procs'[p].query = r
      /\ procs'[p].stdin = <<>> /\ procs'[p].stdout = <<>>
      /\ procs'[p].state = procs[p].state
    BY <1>1, <1>2, <1>4 DEF HandlerInv, TypeOK, Proc
<1>7. OneQuery(p)'
  <2>1. r # Null /\ r \notin writing' /\ got'[r] = Null /\ r \in ran' /\ Alive(p)'
      BY <1>1, <1>2, <1>4, <1>5, <1>6 DEF Alive
  <2> QED
      BY <1>6, <2>1 DEF OneQuery
<1>8. OnePipeStep(p)
    BY <1>1, <1>4, <1>5, <1>6, <1>7 DEF OnePipeStep
<1> QED
    BY <1>8, OnePipeKeepsPipes

LEMMA AnswerKeepsPipes ==
    ASSUME AnswerLines \subseteq {1}, HandlerInv, PipeInv, NEW p \in Requests, Answer(p)
    PROVE  PipeInv'
<1>1. /\ Alive(p) /\ procs[p] # Null /\ procs[p] \in Proc /\ ~Empty(p)
      /\ procs[p].query # Null
    BY DEF Answer, Alive, Empty, HandlerInv, TypeOK
<1> PICK r \in Requests : r = procs[p].lock
    BY <1>1, NullFacts DEF PipeInv, PipesCarryOne, OneQuery, Proc
<1>2. /\ r # Null /\ r \notin writing /\ got[r] = Null /\ r \in ran
      /\ procs[p].stdin = <<>> /\ procs[p].query = r /\ procs[p].stdout = <<>>
    BY <1>1, NullFacts DEF PipeInv, PipesCarryOne, OneQuery
<1>3. /\ procs' = [procs EXCEPT ![p].stdout = <<Whole(r)>>, ![p].query = Null]
      /\ UNCHANGED <<pc, of, reply, writing, got, ran>>
  <2>1. <<>> \o [k \in 1 .. 1 |-> Whole(r)] = <<Whole(r)>>
      OBVIOUS
  <2>2. PICK n \in AnswerLines :
           LET line == [from |-> procs[p].query, whole |-> n = 1]
           IN  procs' = [procs EXCEPT ![p].stdout = @ \o [k \in 1 .. n |-> line],
                                      ![p].query = Null]
      BY DEF Answer
  <2>3. n = 1 /\ (n = 1) = TRUE
      OBVIOUS
  <2>4. procs' = [procs EXCEPT
                     ![p].stdout = procs[p].stdout
                                      \o [k \in 1 .. 1 |-> [from |-> r, whole |-> TRUE]],
                     ![p].query = Null]
      BY <1>2, <2>2, <2>3
  <2> QED
      BY <1>2, <2>1, <2>4 DEF Answer, Whole
<1>4. procs'[p] # Null
    BY <1>1, AnswerStep DEF PipeStep
<1>5. /\ \A q \in Requests \ {p} : procs'[q] = procs[q]
      /\ procs'[p].lock = r /\ procs'[p].query = Null
      /\ procs'[p].stdin = <<>> /\ procs'[p].stdout = <<Whole(r)>>
    BY <1>1, <1>2, <1>3 DEF HandlerInv, TypeOK, Proc
<1>6. OneQuery(p)'
  <2>1. r # Null /\ r \notin writing' /\ got'[r] = Null /\ r \in ran'
      BY <1>2, <1>3
  <2> QED
      BY <1>5, <2>1 DEF OneQuery
<1>7. OnePipeStep(p)
    BY <1>1, <1>3, <1>4, <1>5, <1>6 DEF OnePipeStep
<1> QED
    BY <1>7, OnePipeKeepsPipes

LEMMA DieKeepsPipes ==
    ASSUME HandlerInv, PipeInv, NEW p \in Requests, Die(p)
    PROVE  PipeInv'
<1>1. /\ Alive(p) /\ procs[p] # Null /\ procs[p] \in Proc /\ OneQuery(p)
      /\ UNCHANGED <<pc, of, reply, writing, got, ran>>
    BY DEF Die, Alive, HandlerInv, TypeOK, PipeInv, PipesCarryOne
<1>2. procs'[p] # Null
    BY <1>1, DieStep DEF PipeStep
<1>3. /\ \A q \in Requests \ {p} : procs'[q] = procs[q]
      /\ procs'[p].lock = procs[p].lock /\ procs'[p].query = Null
      /\ procs'[p].stdin = <<>> /\ procs'[p].stdout = procs[p].stdout
    BY <1>1 DEF Die, HandlerInv, TypeOK, Proc
<1>4. OneQuery(p)'
    BY <1>1, <1>3 DEF OneQuery, Empty, Alive
<1>5. OnePipeStep(p)
    BY <1>1, <1>2, <1>3, <1>4 DEF OnePipeStep
<1> QED
    BY <1>5, OnePipeKeepsPipes

\* The one line there can be is the answer to the query of the one that reads.
LEMMA ReadKeepsPipes ==
    ASSUME HandlerInv, PipeInv, NEW r \in Requests, Read(r)
    PROVE  PipeInv'
<1>1. /\ pc[r] \in Serving /\ got[r] = Null
      /\ UNCHANGED <<pc, of, reply, writing, ran>>
    BY DEF Read, Serving
<1> PICK p \in Requests : p = of[r]
    BY <1>1, ServedHoldsLock
<1>2. /\ procs[p] # Null /\ procs[p] \in Proc /\ procs[p].lock = r /\ OneQuery(p)
      /\ \A s \in Requests : got'[s] = got[s] \/ s = r
    BY <1>1, ServedHoldsLock DEF Read, HandlerInv, TypeOK
<1>3. procs'[p] # Null
    BY <1>2, ReadStep DEF PipeStep
<1>4. CASE /\ procs[p].stdout = <<>> /\ ~Alive(p)
           /\ got' = [got EXCEPT ![r] = NoLine] /\ UNCHANGED procs
  <2>1. ScannedNext(r)
      BY <1>1, <1>4 DEF ScannedNext, Alive, HandlerInv, TypeOK
  <2>2. Empty(p) /\ Empty(p)'
      BY <1>2, <1>4 DEF OneQuery, Empty
  <2>3. OneQuery(p)'
      BY <2>2 DEF OneQuery
  <2>4. OnePipeStep(p)
      BY <1>1, <1>2, <1>4, <2>1, <2>2, <2>3 DEF OnePipeStep, Alive
  <2> QED
      BY <2>4, OnePipeKeepsPipes
<1>5. CASE /\ procs[p].stdout # <<>> /\ got' = [got EXCEPT ![r] = Head(procs[p].stdout)]
           /\ \E rest \in LeftOf(Tail(procs[p].stdout)) :
                 procs' = [procs EXCEPT ![p].stdout = rest]
  <2>1. /\ procs[p].stdout = <<Whole(r)>> /\ r \notin writing /\ r \in ran
        /\ procs[p].stdin = <<>> /\ procs[p].query = Null
      BY <1>2, <1>5 DEF OneQuery, Empty
  <2>2. Head(procs[p].stdout) = Whole(r) /\ Tail(procs[p].stdout) = <<>>
      BY <2>1
  <2>3. procs' = [procs EXCEPT ![p].stdout = <<>>] /\ got' = [got EXCEPT ![r] = Whole(r)]
      BY <1>5, <2>2, LeftOfNothing
  <2>4. /\ \A q \in Requests \ {p} : procs'[q] = procs[q]
        /\ procs'[p].stdin = <<>> /\ procs'[p].query = Null /\ procs'[p].stdout = <<>>
        /\ procs'[p].state = procs[p].state
      BY <1>2, <2>1, <2>3 DEF HandlerInv, TypeOK, Proc
  <2>5. ScannedNext(r)
      BY <1>1, <2>1, <2>3 DEF ScannedNext, HandlerInv, TypeOK
  <2>6. OneQuery(p)' /\ Empty(p)'
      BY <2>4 DEF OneQuery, Empty
  <2>7. OnePipeStep(p)
      BY <1>1, <1>2, <1>3, <2>4, <2>5, <2>6 DEF OnePipeStep, Alive
  <2> QED
      BY <2>7, OnePipeKeepsPipes
<1> QED
    BY <1>4, <1>5 DEF Read

\* Kill leaves nothing in the pipes of an evaler that carry one query.
LEMMA TimeOutKeepsPipes ==
    ASSUME HandlerInv, PipeInv, NEW r \in Requests, TimeOut(r)
    PROVE  PipeInv'
<1>1. /\ pc[r] = "wait" /\ pc' = [pc EXCEPT ![r] = "remove"]
      /\ UNCHANGED <<evalers, db, of, writing, got, reply, ran>>
    BY DEF TimeOut
<1> PICK p \in Requests : p = of[r]
    BY TimeOutStep
<1>2. procs[p] # Null /\ procs[p] \in Proc /\ procs[p].lock = r /\ OneQuery(p)
    BY <1>1, ServedHoldsLock DEF Serving
<1>3. /\ procs'[p] = Killed(procs[p]) /\ procs'[p] # Null
      /\ \A q \in Requests \ {p} : procs'[q] = procs[q]
    BY TimeOutStep DEF HandlerInv, TypeOK
<1>4. ~Alive(p)' /\ Empty(p)'
    BY <1>2, <1>3, KilledEntry, NullFacts DEF OneQuery, Empty, Alive
<1>5. \A q \in Requests : Alive(q)' => Alive(q)
    BY <1>3, <1>4 DEF Alive
<1>6. PipesCarryOne'
  <2> SUFFICES ASSUME NEW q \in Requests, procs'[q] # Null PROVE OneQuery(q)'
      BY DEF PipesCarryOne
  <2>1. CASE q = p
      BY <1>4, <2>1 DEF OneQuery
  <2>2. CASE q # p
    <3>1. procs'[q] = procs[q] /\ OneQuery(q)
        BY <1>3, <2>2 DEF PipeInv, PipesCarryOne
    <3> QED
        BY <1>1, <3>1 DEF OneQuery, Empty, Alive
  <2> QED
      BY <2>1, <2>2
<1>7. ScansOwn'
  <2> SUFFICES ASSUME NEW s \in Requests, got[s] # Null
               PROVE  ScannedNext(s)
      BY <1>1 DEF ScansOwn, ScannedNext, Alive
  <2>1. of[s] \in Requests /\ of'[s] = of[s]
      BY <1>1 DEF HandlerInv, Locals, Acquired
  <2> QED
      BY <1>1, <1>5, <2>1 DEF PipeInv, ScansOwn, ScannedNext
<1>8. GivenUpIsDead'
  <2> SUFFICES ASSUME NEW s \in Requests
               PROVE  /\ pc'[s] \in {"remove", "drain"} => ~Alive(of[s])' /\ Empty(of[s])'
                      /\ pc'[s] = "done" /\ s \in writing => ~Alive(of[s])'
      BY <1>1 DEF GivenUpIsDead, Alive, Empty
  <2>1. CASE s = r
      BY <1>1, <1>4, <2>1 DEF HandlerInv, TypeOK, Alive, Empty
  <2>2. CASE s # r /\ pc'[s] \in {"remove", "drain"}
    <3>1. pc[s] \in Serving /\ pc[s] = pc'[s] /\ of[s] \in Requests /\ of[s] # p
        BY <1>1, <1>2, <2>2, ServedHoldsLock DEF HandlerInv, TypeOK, Serving
    <3>2. procs'[of[s]] = procs[of[s]] /\ of'[s] = of[s]
        BY <1>1, <1>3, <3>1
    <3> QED
        BY <2>2, <3>1, <3>2 DEF PipeInv, GivenUpIsDead, Alive, Empty
  <2>3. CASE s # r /\ pc'[s] = "done"
    <3>1. pc[s] = "done" /\ of[s] \in Requests /\ of'[s] = of[s]
        BY <1>1, <2>3 DEF HandlerInv, TypeOK, Acquired
    <3>2. s \in writing => ~Alive(of[s])
        BY <3>1 DEF PipeInv, GivenUpIsDead
    <3> QED
        BY <1>5, <2>3, <3>1, <3>2 DEF Alive
  <2> QED
      BY <2>1, <2>2, <2>3
<1>9. AnswersAreOwn'
    BY <1>1 DEF PipeInv, AnswersAreOwn
<1> QED
    BY <1>6, <1>7, <1>8, <1>9 DEF PipeInv

\* A handler that ends leaves empty pipes to the next one, and if its writer is
\* still to write, a dead evaler.
LEMMA FinishKeepsPipes ==
    ASSUME HandlerInv, PipeInv, NEW r \in Requests, pc[r] \in Serving,
           NEW kind, NEW from, Finish(r, kind, from),
           UNCHANGED <<evalers, db, of, writing, ran>>,
           Empty(of[r]), r \in writing => ~Alive(of[r]),
           kind = "answer" => from = r /\ r \in ran
    PROVE  PipeInv'
<1> PICK p \in Requests : p = of[r]
    BY ServedHoldsLock
<1>1. /\ procs[p] # Null /\ procs[p].lock = r /\ LockStep(p, Null)
      /\ reply' = [reply EXCEPT ![r] = [kind |-> kind, from |-> from]]
      /\ pc' = [pc EXCEPT ![r] = "done"] /\ got' = [got EXCEPT ![r] = Null]
    BY ServedHoldsLock DEF Finish, Released, LockStep
<1>2. \A q \in Requests :
         /\ procs[q] = Null <=> procs'[q] = Null
         /\ procs[q] # Null =>
               /\ Alive(q)' = Alive(q) /\ Empty(q)' = Empty(q)
               /\ procs'[q].stdin = procs[q].stdin /\ procs'[q].query = procs[q].query
               /\ procs'[q].stdout = procs[q].stdout
               /\ procs'[q].lock = IF q = p THEN Null ELSE procs[q].lock
    BY <1>1, LockChange DEF Alive, Empty
<1>3. \A s \in Requests : of'[s] = of[s] /\ (of[s] \in Requests /\ procs[of[s]] # Null =>
          Alive(of[s])' = Alive(of[s]) /\ Empty(of[s])' = Empty(of[s]))
    BY <1>2 DEF Alive, Empty
<1>4. PipesCarryOne'
  <2> SUFFICES ASSUME NEW q \in Requests, procs'[q] # Null PROVE OneQuery(q)'
      BY DEF PipesCarryOne
  <2>1. CASE q = p
      BY <1>1, <1>2, <2>1 DEF OneQuery
  <2>2. CASE q # p
    <3>1. OneQuery(q) /\ procs[q].lock # r /\ procs[q] \in Proc
        BY <1>1, <1>2, <2>2 DEF PipeInv, PipesCarryOne, HandlerInv, TypeOK, HeldWhileServed
    <3>2. procs[q].lock \in Requests => got'[procs[q].lock] = got[procs[q].lock]
        BY <1>1, <3>1 DEF HandlerInv, TypeOK
    <3> QED
        BY <1>2, <2>2, <3>1, <3>2 DEF OneQuery, Proc
  <2> QED
      BY <2>1, <2>2
<1>5. ScansOwn'
  <2> SUFFICES ASSUME NEW s \in Requests, got'[s] # Null PROVE ScannedNext(s)
      BY DEF ScansOwn, ScannedNext, Alive
  <2>1. s # r /\ got'[s] = got[s] /\ of[s] \in Requests /\ procs[of[s]] # Null
      BY <1>1 DEF HandlerInv, TypeOK, Locals, Acquired
  <2> QED
      BY <1>3, <2>1 DEF PipeInv, ScansOwn, ScannedNext
<1>6. GivenUpIsDead'
  <2> SUFFICES ASSUME NEW s \in Requests
               PROVE  /\ pc'[s] \in {"remove", "drain"} => ~Alive(of[s])' /\ Empty(of[s])'
                      /\ pc'[s] = "done" /\ s \in writing => ~Alive(of[s])'
      BY DEF GivenUpIsDead, Alive, Empty
  <2>1. CASE s = r
      BY <1>1, <1>3, <2>1 DEF HandlerInv, TypeOK
  <2>2. CASE s # r /\ pc'[s] \in {"remove", "drain", "done"}
    <3>1. pc[s] = pc'[s] /\ of[s] \in Requests /\ procs[of[s]] # Null
        BY <1>1, <2>2 DEF HandlerInv, TypeOK, Acquired, Serving
    <3> QED
        BY <1>3, <3>1 DEF PipeInv, GivenUpIsDead
  <2> QED
      BY <2>1, <2>2
<1>7. AnswersAreOwn'
    BY <1>1 DEF PipeInv, AnswersAreOwn, HandlerInv, TypeOK
<1> QED
    BY <1>4, <1>5, <1>6, <1>7 DEF PipeInv

\* An answer is what the request's own reader has scanned; no answer means that
\* the pipe is closed.
LEMMA RespondKeepsPipes ==
    ASSUME HandlerInv, PipeInv, NEW r \in Requests, Respond(r)
    PROVE  PipeInv'
<1>1. /\ pc[r] \in Serving /\ got[r] # Null /\ Empty(of[r])
      /\ UNCHANGED <<evalers, db, of, writing, ran>>
    BY ServedHoldsLock DEF Respond, Serving
<1>2. CASE got[r] = Whole(r) /\ r \in ran /\ r \notin writing
  <2>1. Finish(r, "answer", r)
      BY <1>2 DEF Respond, Whole
  <2> QED
      BY <1>1, <1>2, <2>1, FinishKeepsPipes
<1>3. CASE got[r] = NoLine /\ ~Alive(of[r])
  <2>1. Finish(r, "bad", Null)
      BY <1>3 DEF Respond, NoLine
  <2> QED
      BY <1>1, <1>3, <2>1, FinishKeepsPipes
<1> QED
    BY <1>1, <1>2, <1>3 DEF PipeInv, ScansOwn

LEMMA UnlistKeepsPipes ==
    ASSUME HandlerInv, PipeInv, NEW r \in Requests, Unlist(r)
    PROVE  PipeInv'
<1>1. pc[r] = "remove" /\ pc[r] \in Serving /\ ~Alive(of[r]) /\ Empty(of[r])
    BY DEF Unlist, Serving, PipeInv, GivenUpIsDead
<1>2. CASE EvalersOf(procs[of[r]].db) # {}
  <2>1. /\ pc' = [pc EXCEPT ![r] = "drain"] /\ UNCHANGED <<procs, reply, got, db, of, writing, ran>>
      BY <1>2, UnlistStep
  <2>2. PipesCarryOne'
      BY <2>1 DEF PipeInv, PipesCarryOne, OneQuery, Empty, Alive
  <2>3. ScansOwn' /\ AnswersAreOwn'
      BY <2>1 DEF PipeInv, ScansOwn, AnswersAreOwn, Alive
  <2>4. GivenUpIsDead'
      BY <1>1, <2>1 DEF PipeInv, GivenUpIsDead, Alive, Empty, HandlerInv, TypeOK
  <2> QED
      BY <2>2, <2>3, <2>4 DEF PipeInv
<1>3. CASE Finish(r, "panic", Null) /\ UNCHANGED evalers
    BY <1>1, <1>3, FinishKeepsPipes DEF Unlist
<1> QED
    BY <1>2, <1>3 DEF Unlist

LEMMA DrainKeepsPipes ==
    ASSUME HandlerInv, PipeInv, NEW r \in Requests, Drain(r)
    PROVE  PipeInv'
<1>1. pc[r] \in Serving /\ ~Alive(of[r]) /\ Empty(of[r])
    BY DEF Drain, Serving, PipeInv, GivenUpIsDead
<1> QED
    BY <1>1, FinishKeepsPipes DEF Drain

LEMMA NextKeepsPipes ==
    ASSUME AnswerLines \subseteq {1}, HandlerInv, PipeInv, [Next]_vars
    PROVE  PipeInv'
<1>1. CASE UNCHANGED vars
  <2>1. PipesCarryOne'
      BY <1>1 DEF vars, PipeInv, PipesCarryOne, OneQuery, Empty, Alive
  <2>2. ScansOwn' /\ GivenUpIsDead' /\ AnswersAreOwn'
      BY <1>1 DEF vars, PipeInv, ScansOwn, GivenUpIsDead, AnswersAreOwn, Empty, Alive
  <2> QED
      BY <2>1, <2>2 DEF PipeInv
<1>2. ASSUME NEW r \in Requests, WriteQuery(r) \/ Read(r) \/ Evaluate(r) \/ Answer(r) \/ Die(r)
      PROVE  PipeInv'
    BY <1>2, WriteQueryKeepsPipes, ReadKeepsPipes, EvaluateKeepsPipes, AnswerKeepsPipes,
       DieKeepsPipes
<1>3. ASSUME NEW r \in Requests, Arrive(r) \/ LockEvaler(r) \/ Handle(r)
      PROVE  PipeInv'
    BY <1>3, BeforeLockKeepsPipes, StartProcKeepsPipes, LockEvalerKeepsPipes,
       RespondKeepsPipes, TimeOutKeepsPipes, UnlistKeepsPipes, DrainKeepsPipes DEF Handle
<1> QED
    BY <1>1, <1>2, <1>3 DEF Next

\* As long as an answer is read in one scan, what is in an evaler's pipes is the
\* query of the request that holds it, once.
THEOREM PipeInvariant ==
    ASSUME AnswerLines \subseteq {1}
    PROVE  Spec => [](HandlerInv /\ PipeInv)
<1>1. HandlerInv /\ PipeInv /\ [Next]_vars => PipeInv'
    BY NextKeepsPipes
<1> QED
    BY <1>1, InitPipes, HandlerInvariant, PTL DEF Spec

\* The types: what the handlers, the list, the evalers and the pipes may hold.
THEOREM PoolTypes == Spec => []TypeOK
<1>1. HandlerInv => TypeOK
    BY DEF HandlerInv
<1> QED
    BY <1>1, HandlerInvariant, PTL

\* An evaler is locked by exactly the request that talks to it, whatever becomes
\* of either of them.
THEOREM LockedWhileServed == Spec => []HeldWhileServed
<1>1. HandlerInv => HeldWhileServed
    BY DEF HandlerInv
<1> QED
    BY <1>1, HandlerInvariant, PTL

\* As long as an answer is read in one scan, nobody gets the answer to another
\* request's query: not after timeouts, deaths, or writers that come late.
THEOREM NobodyGetsAnothersAnswer ==
    ASSUME AnswerLines \subseteq {1}
    PROVE  Spec => []AnswersAreOwn
<1>1. PipeInv => AnswersAreOwn
    BY DEF PipeInv
<1> QED
    BY <1>1, PipeInvariant, PTL

\* A query that is evaluated is the one of the request that holds the evaler,
\* which has no reply yet.
LEMMA OnlyTheHoldersQueryRuns ==
    ASSUME HandlerInv, PipeInv, [Next]_vars, NEW r \in ran' \ ran
    PROVE  reply[r] = Null
<1>1. PICK p \in Requests : Evaluate(p)
    BY DEF Next, vars, Arrive, Handle, Look, StartProc, AppendEvaler, LockEvaler, WriteQuery,
           Answer, Die, Read, Respond, TimeOut, Unlist, Drain
<1>2. /\ procs[p] # Null /\ procs[p] \in Proc /\ ~Empty(p) /\ procs[p].stdin # <<>>
      /\ procs[p].query = Null /\ ran' = ran \cup {Head(procs[p].stdin)}
    BY <1>1 DEF Evaluate, Alive, Empty, HandlerInv, TypeOK
<1>3. procs[p].stdin = <<procs[p].lock>> /\ procs[p].lock # Null
    BY <1>2, NullFacts DEF PipeInv, PipesCarryOne, OneQuery
<1>4. r = procs[p].lock /\ r \in Requests
    BY <1>2, <1>3 DEF Proc
<1>5. pc[r] \in Serving
    BY <1>2, <1>4 DEF HandlerInv, HeldWhileServed, Serving
<1> QED
    BY <1>4, <1>5 DEF HandlerInv, Locals, Serving

\* Nothing a client has been told about is evaluated any more: not what timed
\* out, not what the evaler died on.
THEOREM NothingRunsLate ==
    ASSUME AnswerLines \subseteq {1}
    PROVE  Spec => NothingRunsAfterReply
<1>1. HandlerInv /\ PipeInv /\ [Next]_vars => [\A r \in ran' \ ran : reply[r] = Null]_vars
    BY OnlyTheHoldersQueryRuns
<1> QED
    BY <1>1, PipeInvariant, PTL DEF Spec, NothingRunsAfterReply

-----------------------------------------------------------------------------
(***************************************************************************)
(* SerialInv, while requests for one database come one at a time           *)
(***************************************************************************)

LEMMA InitSerial == Init => SerialInv
<1> SUFFICES ASSUME Init PROVE SerialInv
    OBVIOUS
<1>1. evalers = <<>> /\ DOMAIN evalers = {} /\ ToSet(evalers) = {}
    BY DEF Init, ToSet
<1> QED
    BY <1>1 DEF Init, SerialInv, OneInFlight, InFlight, OneListed, NoneWhileStarting,
                UsedIsListed, AliveIsListed, Alive, KilledIsRemoved, NeverPanics

\* Two requests in flight are for two databases.
LEMMA OthersAreForOthers ==
    ASSUME SerialInv, NEW r \in Requests, NEW q \in Requests, r # q,
           pc[r] \notin {"idle", "done"}, pc[q] \notin {"idle", "done"}
    PROVE  db[r] # db[q]
<1> QED
    BY DEF SerialInv, OneInFlight, InFlight

\* The list, looked through from the database's side.
LEMMA EvalersOfDb ==
    ASSUME HandlerInv, NEW d
    PROVE  EvalersOf(d) = {} <=> \A p \in ToSet(evalers) : procs[p].db # d
<1> QED
    BY ListElements DEF HandlerInv, TypeOK, EvalersOf

\* A step that changes neither the list nor any evaler's database, kills none,
\* and keeps the handlers that are removing where they are.
QuietStep(r) ==
    /\ UNCHANGED <<evalers, db>>
    /\ \A p \in Requests : procs[p] # Null =>
          /\ procs'[p] # Null /\ procs'[p].db = procs[p].db
          /\ procs'[p].state \in {procs[p].state, "died"}
    /\ \A p \in Requests : procs[p] = Null => procs'[p] = Null
    /\ \A q \in Requests \ {r} : pc'[q] = pc[q] /\ of'[q] = of[q] /\ reply'[q] = reply[q]

LEMMA QuietStepKeepsList ==
    ASSUME HandlerInv, SerialInv, NEW r \in Requests, QuietStep(r)
    PROVE  /\ OneListed' /\ \A d : EvalersOf(d)' = EvalersOf(d)
           /\ \A p \in Requests : Alive(p)' => Alive(p)
           /\ \A p \in Requests : procs[p] # Null =>
                 (procs'[p].state = "killed" => procs[p].state = "killed")
<1>1. \A i \in DOMAIN evalers : procs'[evalers[i]].db = procs[evalers[i]].db
    BY ListElements DEF HandlerInv, TypeOK, QuietStep
<1>2. OneListed'
    BY <1>1 DEF SerialInv, OneListed, QuietStep
<1>3. \A d : EvalersOf(d)' = EvalersOf(d)
    BY <1>1 DEF EvalersOf, QuietStep
<1>4. \A p \in Requests : Alive(p)' => Alive(p)
    BY DEF Alive, QuietStep
<1> QED
    BY <1>2, <1>3, <1>4 DEF QuietStep

\* What the pipes do is of no interest to the list.
LEMMA PipeStepKeepsSerial ==
    ASSUME HandlerInv, SerialInv, PipeStep
    PROVE  SerialInv'
<1>1. CASE Requests = {}
    BY <1>1 DEF SerialInv, PipeStep, HandlerInv, TypeOK, OneInFlight, OneListed,
       NoneWhileStarting, UsedIsListed, AliveIsListed, KilledIsRemoved, NeverPanics, ToSet
<1>2. ASSUME NEW r \in Requests PROVE SerialInv'
  <2>1. QuietStep(r) /\ UNCHANGED <<pc, of, reply>>
      BY DEF PipeStep, QuietStep
  <2>2. /\ OneListed' /\ \A d : EvalersOf(d)' = EvalersOf(d)
        /\ \A p \in Requests : Alive(p)' => Alive(p)
        /\ \A p \in Requests : procs[p] # Null =>
              (procs'[p].state = "killed" => procs[p].state = "killed")
      BY <2>1, QuietStepKeepsList
  <2>3. OneInFlight'
      BY <2>1 DEF SerialInv, OneInFlight, InFlight, QuietStep
  <2>4. NoneWhileStarting'
      BY <2>1, <2>2 DEF SerialInv, NoneWhileStarting, QuietStep, HandlerInv, Acquired, StartedOnce
  <2>5. UsedIsListed' /\ AliveIsListed'
      BY <2>1, <2>2 DEF SerialInv, UsedIsListed, AliveIsListed, QuietStep
  <2>6. KilledIsRemoved'
    <3>1. \A p \in ToSet(evalers) : p \in Requests /\ procs[p] # Null
        BY ListElements DEF HandlerInv, TypeOK
    <3>2. \A q \in Requests : pc[q] = "remove" => of[q] \in Requests
        BY DEF HandlerInv, Acquired, Serving
    <3> QED
        BY <2>1, <2>2, <3>1, <3>2 DEF SerialInv, KilledIsRemoved, QuietStep, Alive
  <2>7. NeverPanics'
      BY <2>1 DEF SerialInv, NeverPanics
  <2> QED
      BY <2>2, <2>3, <2>4, <2>5, <2>6, <2>7 DEF SerialInv
<1> QED
    BY <1>1, <1>2

\* A request arrives only where none for its database is in flight.
LEMMA ArriveKeepsSerial ==
    ASSUME MaxPerDb = 1, HandlerInv, SerialInv, NEW r \in Requests, Arrive(r)
    PROVE  SerialInv'
<1>1. /\ pc[r] = "idle" /\ pc' = [pc EXCEPT ![r] = "look"]
      /\ UNCHANGED <<evalers, procs, db, of, writing, got, reply, ran>>
    BY DEF Arrive
<1>2. InFlight(db[r]) = {}
  <2>1. IsFiniteSet(Requests) /\ InFlight(db[r]) \subseteq Requests
      BY PoolAssumption, FS_Interval DEF Requests, InFlight
  <2>2. IsFiniteSet(InFlight(db[r])) /\ Cardinality(InFlight(db[r])) \in Nat
      BY <2>1, FS_Subset, FS_CardinalityType
  <2>3. Cardinality(InFlight(db[r])) = 0
      BY <2>2 DEF Arrive
  <2> QED
      BY <2>2, <2>3, FS_EmptySet
<1>3. OneInFlight'
    BY <1>1, <1>2 DEF SerialInv, OneInFlight, InFlight, HandlerInv, TypeOK
<1>4. OneListed' /\ NoneWhileStarting' /\ UsedIsListed' /\ NeverPanics'
    BY <1>1 DEF SerialInv, OneListed, NoneWhileStarting, UsedIsListed, NeverPanics, EvalersOf,
       HandlerInv, TypeOK
<1>5. AliveIsListed'
    BY <1>1 DEF SerialInv, AliveIsListed, Alive, HandlerInv, TypeOK
<1>6. KilledIsRemoved'
    BY <1>1 DEF SerialInv, KilledIsRemoved, Alive, HandlerInv, TypeOK
<1> QED
    BY <1>3, <1>4, <1>5, <1>6 DEF SerialInv

LEMMA LookKeepsSerial ==
    ASSUME HandlerInv, SerialInv, NEW r \in Requests, Look(r)
    PROVE  SerialInv'
<1>1. /\ pc[r] = "look" /\ UNCHANGED <<evalers, procs, db, writing, got, reply, ran>>
      /\ \A q \in Requests \ {r} : of'[q] = of[q] /\ pc'[q] = pc[q]
      /\ \/ pc'[r] = "start" /\ EvalersOf(db[r]) = {}
         \/ pc'[r] = "lock" /\ of'[r] \in ToSet(evalers)
    BY LookStep, ListElements DEF HandlerInv, TypeOK
<1>2. OneInFlight'
    BY <1>1 DEF SerialInv, OneInFlight, InFlight
<1>3. OneListed' /\ NeverPanics'
    BY <1>1 DEF SerialInv, OneListed, NeverPanics
<1>4. NoneWhileStarting'
    BY <1>1 DEF SerialInv, NoneWhileStarting, EvalersOf
<1>5. UsedIsListed'
    BY <1>1 DEF SerialInv, UsedIsListed
<1>6. AliveIsListed'
    BY <1>1 DEF SerialInv, AliveIsListed, Alive
<1>7. KilledIsRemoved'
    BY <1>1 DEF SerialInv, KilledIsRemoved, Alive
<1> QED
    BY <1>2, <1>3, <1>4, <1>5, <1>6, <1>7 DEF SerialInv

LEMMA StartProcKeepsSerial ==
    ASSUME HandlerInv, SerialInv, NEW r \in Requests, StartProc(r)
    PROVE  SerialInv'
<1>1. /\ pc[r] = "start" /\ pc'[r] = "append" /\ procs[r] = Null
      /\ procs'[r].state = "alive" /\ UNCHANGED <<evalers, db, writing, got, reply, ran>>
      /\ \A q \in Requests \ {r} :
            of'[q] = of[q] /\ pc'[q] = pc[q] /\ procs'[q] = procs[q]
    BY DEF HandlerInv, TypeOK, StartedOnce, StartProc
<1>2. \A p \in ToSet(evalers) : p \in Requests /\ p # r /\ procs'[p] = procs[p]
    BY <1>1, ListElements DEF HandlerInv, TypeOK
<1>3. \A i \in DOMAIN evalers : evalers[i] \in ToSet(evalers)
    BY DEF ToSet
<1>4. \A d : EvalersOf(d)' = EvalersOf(d)
    BY <1>1, <1>2, <1>3 DEF EvalersOf
<1>5. OneInFlight'
    BY <1>1 DEF SerialInv, OneInFlight, InFlight
<1>6. OneListed' /\ NeverPanics'
    BY <1>1, <1>2, <1>3 DEF SerialInv, OneListed, NeverPanics
<1>7. NoneWhileStarting'
    BY <1>1, <1>4 DEF SerialInv, NoneWhileStarting
<1>8. UsedIsListed'
    BY <1>1 DEF SerialInv, UsedIsListed
<1>9. AliveIsListed'
    BY <1>1 DEF SerialInv, AliveIsListed, Alive
<1>10. KilledIsRemoved'
  <2>1. \A q \in Requests : pc'[q] = "remove" =>
           pc[q] = "remove" /\ of[q] # r /\ of[q] \in Requests /\ of'[q] = of[q]
      BY <1>1 DEF HandlerInv, Acquired, Serving
  <2>2. \A q \in Requests : pc[q] = "remove" => q # r
      BY <1>1
  <2> QED
      BY <1>1, <1>2, <2>1, <2>2 DEF SerialInv, KilledIsRemoved, Alive
<1> QED
    BY <1>5, <1>6, <1>7, <1>8, <1>9, <1>10 DEF SerialInv

LEMMA AppendEvalerKeepsSerial ==
    ASSUME HandlerInv, SerialInv, NEW r \in Requests, AppendEvaler(r)
    PROVE  SerialInv'
<1>1. /\ pc[r] = "append" /\ pc' = [pc EXCEPT ![r] = "lock"]
      /\ UNCHANGED <<procs, db, of, writing, got, reply, ran>>
      /\ of[r] = r /\ procs[r] # Null /\ procs[r].db = db[r]
    BY DEF AppendEvaler, HandlerInv, StartedOnce, Acquired
<1> DEFINE n == Len(evalers)
<1>2. /\ n \in Nat /\ DOMAIN evalers = 1 .. n
      /\ DOMAIN evalers' = 1 .. n + 1 /\ evalers'[n + 1] = r
      /\ \A i \in 1 .. n : evalers'[i] = evalers[i]
    BY DEF AppendEvaler, Listed, HandlerInv, TypeOK
<1>3. ToSet(evalers') = ToSet(evalers) \cup {r}
    BY <1>2 DEF ToSet
<1>4. \A i \in 1 .. n : procs[evalers[i]].db # db[r]
    BY <1>1, <1>2 DEF SerialInv, NoneWhileStarting, EvalersOf
<1> HIDE DEF n
<1>5. OneInFlight'
    BY <1>1 DEF SerialInv, OneInFlight, InFlight, HandlerInv, TypeOK
<1>6. OneListed' /\ NeverPanics'
  <2>1. \A i \in 1 .. n + 1 : i \in 1 .. n \/ i = n + 1
      BY <1>2
  <2> QED
      BY <1>1, <1>2, <1>4, <2>1 DEF SerialInv, OneListed, NeverPanics
<1>7. NoneWhileStarting'
  <2> SUFFICES ASSUME NEW q \in Requests, pc'[q] \in {"start", "append"}
               PROVE  EvalersOf(db[q])' = {} /\ (pc'[q] = "append" => procs[q].state # "killed")
      BY <1>1 DEF NoneWhileStarting, EvalersOf
  <2>1. q # r /\ pc[q] = pc'[q]
      BY <1>1 DEF HandlerInv, TypeOK
  <2>2. db[q] # db[r]
      BY <1>1, <2>1, OthersAreForOthers
  <2>3. EvalersOf(db[q]) = {}
      BY <2>1 DEF SerialInv, NoneWhileStarting
  <2>4. \A i \in DOMAIN evalers' : i \in 1 .. n \/ i = n + 1
      BY <1>2
  <2>5. \A i \in DOMAIN evalers' : procs[evalers'[i]].db # db[q]
      BY <1>1, <1>2, <2>2, <2>3, <2>4 DEF EvalersOf
  <2> QED
      BY <1>1, <2>1, <2>5 DEF EvalersOf, SerialInv, NoneWhileStarting
<1>8. UsedIsListed'
    BY <1>1, <1>3 DEF SerialInv, UsedIsListed, HandlerInv, TypeOK
<1>9. AliveIsListed'
    BY <1>1, <1>3 DEF SerialInv, AliveIsListed, Alive, HandlerInv, TypeOK
<1>10. KilledIsRemoved'
  <2>1. procs[r].state # "killed"
      BY <1>1 DEF SerialInv, NoneWhileStarting
  <2> QED
      BY <1>1, <1>3, <2>1 DEF SerialInv, KilledIsRemoved, Alive, HandlerInv, TypeOK
<1> QED
    BY <1>5, <1>6, <1>7, <1>8, <1>9, <1>10 DEF SerialInv

\* A handler that goes from its lock to its wait or to its end.
LEMMA QuietHandlerKeepsSerial ==
    ASSUME HandlerInv, SerialInv, NEW r \in Requests, QuietStep(r), UNCHANGED of,
           \/ pc[r] = "lock" /\ pc'[r] = "wait" /\ UNCHANGED reply
           \/ pc[r] \in {"wait", "drain"} /\ pc'[r] = "done" /\ reply'[r].kind # "panic"
    PROVE  SerialInv'
<1>1. /\ OneListed' /\ \A d : EvalersOf(d)' = EvalersOf(d)
      /\ \A p \in Requests : Alive(p)' => Alive(p)
      /\ \A p \in Requests : procs[p] # Null =>
            (procs'[p].state = "killed" => procs[p].state = "killed")
    BY QuietStepKeepsList
<1>2. /\ UNCHANGED <<evalers, db, of>>
      /\ \A q \in Requests \ {r} : pc'[q] = pc[q] /\ reply'[q] = reply[q]
    BY DEF QuietStep
<1>3. OneInFlight'
    BY <1>2 DEF SerialInv, OneInFlight, InFlight
<1>4. NoneWhileStarting'
    BY <1>1, <1>2 DEF SerialInv, NoneWhileStarting, HandlerInv, Acquired, StartedOnce
<1>5. UsedIsListed' /\ NeverPanics'
    BY <1>2 DEF SerialInv, UsedIsListed, NeverPanics
<1>6. AliveIsListed'
    BY <1>1, <1>2 DEF SerialInv, AliveIsListed
<1>7. KilledIsRemoved'
  <2>1. \A p \in ToSet(evalers) : p \in Requests /\ procs[p] # Null
      BY ListElements DEF HandlerInv, TypeOK
  <2>2. \A q \in Requests : pc'[q] = "remove" <=> pc[q] = "remove"
      BY <1>2
  <2>3. \A q \in Requests : pc[q] = "remove" => of[q] \in Requests
      BY DEF HandlerInv, Acquired, Serving
  <2> QED
      BY <1>1, <1>2, <2>1, <2>2, <2>3 DEF SerialInv, KilledIsRemoved, Alive
<1> QED
    BY <1>1, <1>3, <1>4, <1>5, <1>6, <1>7 DEF SerialInv

LEMMA LockEvalerKeepsSerial ==
    ASSUME HandlerInv, SerialInv, NEW r \in Requests, LockEvaler(r)
    PROVE  SerialInv'
<1> PICK p \in Requests : p = of[r]
    BY DEF LockEvaler, HandlerInv, Acquired
<1>1. /\ pc[r] = "lock" /\ procs[p] # Null /\ LockStep(p, r)
      /\ pc'[r] = "wait" /\ \A q \in Requests \ {r} : pc'[q] = pc[q]
      /\ UNCHANGED <<evalers, db, of, got, reply, ran>>
    BY DEF LockEvaler, LockStep, HandlerInv, TypeOK, Acquired
<1>2. QuietStep(r)
    BY <1>1, LockChange DEF QuietStep
<1> QED
    BY <1>1, <1>2, QuietHandlerKeepsSerial

LEMMA FinishKeepsSerial ==
    ASSUME HandlerInv, SerialInv, NEW r \in Requests, pc[r] \in {"wait", "drain"},
           NEW kind, kind # "panic", NEW from, Finish(r, kind, from),
           UNCHANGED <<evalers, db, of, writing, ran>>
    PROVE  SerialInv'
<1> PICK p \in Requests : p = of[r]
    BY DEF HandlerInv, Acquired, Serving
<1>1. /\ procs[p] # Null /\ LockStep(p, Null)
      /\ pc'[r] = "done" /\ reply'[r].kind = kind
      /\ \A q \in Requests \ {r} : pc'[q] = pc[q] /\ reply'[q] = reply[q]
    BY DEF Finish, Released, LockStep, HandlerInv, TypeOK, Acquired, Serving
<1>2. QuietStep(r)
    BY <1>1, LockChange DEF QuietStep
<1> QED
    BY <1>1, <1>2, QuietHandlerKeepsSerial

LEMMA TimeOutKeepsSerial ==
    ASSUME HandlerInv, SerialInv, NEW r \in Requests, TimeOut(r)
    PROVE  SerialInv'
<1>1. /\ pc[r] = "wait" /\ pc' = [pc EXCEPT ![r] = "remove"]
      /\ UNCHANGED <<evalers, db, of, writing, got, reply, ran>>
    BY DEF TimeOut
<1> PICK p \in Requests : p = of[r]
    BY TimeOutStep
<1>2. /\ procs[p] # Null /\ procs[p] \in Proc /\ procs[p].db = db[r] /\ p \in ToSet(evalers)
      /\ procs'[p] # Null /\ procs'[p].db = procs[p].db /\ procs'[p].state # "alive"
      /\ \A q \in Requests \ {p} : procs'[q] = procs[q]
    BY <1>1, TimeOutStep, KilledEntry DEF HandlerInv, TypeOK, Acquired, Serving,
       SerialInv, UsedIsListed
<1>3. \A q \in Requests : procs[q] # Null => procs'[q].db = procs[q].db
    BY <1>2
<1>4. \A q \in ToSet(evalers) : q \in Requests /\ procs[q] # Null
    BY ListElements DEF HandlerInv, TypeOK
<1>5. \A i \in DOMAIN evalers : evalers[i] \in ToSet(evalers)
    BY DEF ToSet
<1>6. \A d : EvalersOf(d)' = EvalersOf(d)
    BY <1>1, <1>3, <1>4, <1>5 DEF EvalersOf
<1>7. OneInFlight'
    BY <1>1 DEF SerialInv, OneInFlight, InFlight, HandlerInv, TypeOK
<1>8. OneListed' /\ NeverPanics'
    BY <1>1, <1>3, <1>4, <1>5 DEF SerialInv, OneListed, NeverPanics
<1>9. NoneWhileStarting'
  <2> SUFFICES ASSUME NEW q \in Requests, pc'[q] \in {"start", "append"}
               PROVE  EvalersOf(db[q]) = {} /\ (pc'[q] = "append" => procs'[q].state # "killed")
      BY <1>1, <1>6 DEF NoneWhileStarting
  <2>1. q # r /\ pc[q] = pc'[q]
      BY <1>1 DEF HandlerInv, TypeOK
  <2>2. EvalersOf(db[q]) = {} /\ (pc[q] = "append" => procs[q].state # "killed")
      BY <2>1 DEF SerialInv, NoneWhileStarting
  <2>3. pc[q] = "append" => procs[q].db = db[q]
      BY DEF HandlerInv, Acquired, StartedOnce
  <2>4. pc[q] = "append" => q # p
      BY <1>2, <2>2, <2>3, EvalersOfDb
  <2> QED
      BY <1>2, <2>1, <2>2, <2>4
<1>10. UsedIsListed'
    BY <1>1 DEF SerialInv, UsedIsListed, HandlerInv, TypeOK
<1>11. AliveIsListed'
    BY <1>1, <1>2 DEF SerialInv, AliveIsListed, Alive, HandlerInv, TypeOK
<1>12. KilledIsRemoved'
  <2>1. \A q \in Requests : pc[q] = "remove" => pc'[q] = "remove" /\ of'[q] = of[q]
      BY <1>1 DEF HandlerInv, TypeOK
  <2>2. pc'[r] = "remove" /\ of'[r] = p
      BY <1>1 DEF HandlerInv, TypeOK
  <2>3. ASSUME NEW q \in ToSet(evalers), procs'[q].state = "killed"
        PROVE  \E s \in Requests : of'[s] = q /\ pc'[s] = "remove"
    <3>1. CASE q = p
        BY <2>2, <3>1
    <3>2. CASE q # p
      <4>1. procs[q].state = "killed"
          BY <1>2, <1>4, <2>3, <3>2
      <4>2. PICK s \in Requests : of[s] = q /\ pc[s] = "remove"
          BY <4>1 DEF SerialInv, KilledIsRemoved
      <4> QED
          BY <2>1, <4>2
    <3> QED
        BY <3>1, <3>2
  <2>4. ASSUME NEW s \in Requests, pc'[s] = "remove"
        PROVE  ~Alive(of[s])'
    <3>1. s = r \/ (pc[s] = "remove" /\ ~Alive(of[s]) /\ of[s] \in Requests)
        BY <1>1, <2>4 DEF SerialInv, KilledIsRemoved, HandlerInv, TypeOK, Acquired, Serving
    <3> QED
        BY <1>1, <1>2, <3>1 DEF Alive
  <2> QED
      BY <1>1, <2>3, <2>4 DEF KilledIsRemoved
<1> QED
    BY <1>7, <1>8, <1>9, <1>10, <1>11, <1>12 DEF SerialInv

LEMMA RespondKeepsSerial ==
    ASSUME HandlerInv, SerialInv, NEW r \in Requests, Respond(r)
    PROVE  SerialInv'
<1> QED
    BY FinishKeepsSerial DEF Respond

LEMMA DrainKeepsSerial ==
    ASSUME HandlerInv, SerialInv, NEW r \in Requests, Drain(r)
    PROVE  SerialInv'
<1> QED
    BY FinishKeepsSerial DEF Drain

\* The evaler that goes from the list is the one that was killed.
LEMMA UnlistTakesOwn ==
    ASSUME HandlerInv, SerialInv, NEW r \in Requests, Unlist(r)
    PROVE  /\ pc[r] = "remove" /\ pc' = [pc EXCEPT ![r] = "drain"]
           /\ UNCHANGED <<procs, reply, got, db, of, writing, ran>>
           /\ \E i \in DOMAIN evalers : evalers[i] = of[r] /\ evalers' = Without(i)
<1>1. pc[r] = "remove" /\ of[r] \in ToSet(evalers)
    BY DEF Unlist, SerialInv, UsedIsListed
<1>2. PICK k \in DOMAIN evalers : evalers[k] = of[r]
    BY <1>1, ListElements DEF HandlerInv, TypeOK
<1>3. k \in EvalersOf(procs[of[r]].db)
    BY <1>2 DEF EvalersOf
<1>4. PICK i \in EvalersOf(procs[of[r]].db) : evalers' = Without(i)
    BY <1>3, UnlistStep
<1>5. i \in DOMAIN evalers /\ procs[evalers[i]].db = procs[evalers[k]].db
    BY <1>2, <1>4 DEF EvalersOf
<1>6. i = k
    BY <1>5 DEF SerialInv, OneListed
<1> QED
    BY <1>2, <1>3, <1>4, <1>5, <1>6, UnlistStep

LEMMA UnlistKeepsSerial ==
    ASSUME HandlerInv, SerialInv, NEW r \in Requests, Unlist(r)
    PROVE  SerialInv'
<1>1. /\ pc[r] = "remove" /\ pc' = [pc EXCEPT ![r] = "drain"]
      /\ UNCHANGED <<procs, reply, got, db, of, writing, ran>>
    BY UnlistTakesOwn
<1> PICK i \in DOMAIN evalers : evalers[i] = of[r] /\ evalers' = Without(i)
    BY UnlistTakesOwn
<1> DEFINE n == Len(evalers)
           old(j) == IF j = i THEN n ELSE j
<1>2. /\ n \in Nat \ {0} /\ i \in 1 .. n /\ DOMAIN evalers = 1 .. n
      /\ evalers' \in Seq(Requests) /\ DOMAIN evalers' = 1 .. n - 1
      /\ \A j \in 1 .. n - 1 : evalers'[j] = evalers[old(j)]
      /\ ToSet(evalers') \subseteq ToSet(evalers)
      /\ \A j \in (1 .. n) \ {i} : evalers[j] \in ToSet(evalers')
    BY WithoutKeepsOthers, ListElements DEF HandlerInv, TypeOK
<1> HIDE DEF n
<1>3. \A j \in 1 .. n - 1 : old(j) \in (1 .. n) \ {i}
    BY <1>2
<1>4. \A j, k \in 1 .. n - 1 : old(j) = old(k) => j = k
  <2>1. n \in Nat /\ i \in 1 .. n
      BY <1>2
  <2> QED
      BY <2>1
<1> HIDE DEF old
<1>5. \A j, k \in 1 .. n : procs[evalers[j]].db = procs[evalers[k]].db => j = k
  <2>1. OneListed /\ DOMAIN evalers = 1 .. n
      BY <1>2 DEF SerialInv
  <2> QED
      BY <2>1 DEF OneListed
<1>6. of[r] \notin ToSet(evalers')
  <2> SUFFICES ASSUME NEW j \in 1 .. n - 1, evalers'[j] = of[r] PROVE FALSE
      BY <1>2 DEF ToSet
  <2>1. old(j) \in 1 .. n /\ old(j) # i /\ evalers[old(j)] = evalers[i]
      BY <1>2, <1>3
  <2> QED
      BY <1>2, <1>5, <2>1
<1>7. \A p \in ToSet(evalers) : p # of[r] => p \in ToSet(evalers')
    BY <1>2 DEF ToSet
<1>8. OneInFlight'
    BY <1>1 DEF SerialInv, OneInFlight, InFlight, HandlerInv, TypeOK
<1>9. OneListed'
  <2> SUFFICES ASSUME NEW j \in 1 .. n - 1, NEW k \in 1 .. n - 1,
                      procs[evalers'[j]].db = procs[evalers'[k]].db
               PROVE  j = k
      BY <1>1, <1>2 DEF OneListed
  <2>1. /\ old(j) \in 1 .. n /\ old(k) \in 1 .. n
        /\ procs[evalers[old(j)]].db = procs[evalers[old(k)]].db
      BY <1>2, <1>3
  <2> QED
      BY <1>4, <1>5, <2>1
<1>10. NoneWhileStarting'
  <2> SUFFICES ASSUME NEW q \in Requests, pc'[q] \in {"start", "append"}
               PROVE  EvalersOf(db[q])' = {} /\ (pc'[q] = "append" => procs[q].state # "killed")
      BY <1>1 DEF NoneWhileStarting, EvalersOf
  <2>1. pc[q] = pc'[q]
      BY <1>1 DEF HandlerInv, TypeOK
  <2>2. \A j \in 1 .. n : procs[evalers[j]].db # db[q]
      BY <1>2, <2>1 DEF SerialInv, NoneWhileStarting, EvalersOf
  <2>3. \A j \in 1 .. n - 1 : procs[evalers'[j]].db # db[q]
      BY <1>2, <1>3, <2>2
  <2> QED
      BY <1>1, <1>2, <2>1, <2>3 DEF EvalersOf, SerialInv, NoneWhileStarting
<1>11. UsedIsListed'
  <2> SUFFICES ASSUME NEW q \in Requests, pc'[q] \in {"lock", "wait", "remove"}
               PROVE  of[q] \in ToSet(evalers')
      BY <1>1 DEF UsedIsListed
  <2>1. q # r /\ pc[q] = pc'[q]
      BY <1>1 DEF HandlerInv, TypeOK
  <2>2. of[q] \in ToSet(evalers)
      BY <2>1 DEF SerialInv, UsedIsListed
  <2>3. db[q] # db[r]
      BY <1>1, <2>1, OthersAreForOthers
  <2>4. procs[of[q]].db = db[q] /\ procs[of[r]].db = db[r]
      BY <1>1, <2>1 DEF HandlerInv, Acquired, Serving
  <2> QED
      BY <1>7, <2>2, <2>3, <2>4
<1>12. AliveIsListed'
    BY <1>1, <1>7 DEF SerialInv, AliveIsListed, KilledIsRemoved, Alive, HandlerInv, TypeOK
<1>13. KilledIsRemoved'
  <2>1. ASSUME NEW p \in ToSet(evalers'), procs[p].state = "killed"
        PROVE  \E q \in Requests : of[q] = p /\ pc'[q] = "remove"
    <3>1. PICK q \in Requests : of[q] = p /\ pc[q] = "remove"
        BY <1>2, <2>1 DEF SerialInv, KilledIsRemoved
    <3> QED
        BY <1>1, <1>6, <3>1
  <2> QED
      BY <1>1, <2>1 DEF SerialInv, KilledIsRemoved, Alive, HandlerInv, TypeOK
<1>14. NeverPanics'
    BY <1>1 DEF SerialInv, NeverPanics
<1> QED
    BY <1>8, <1>9, <1>10, <1>11, <1>12, <1>13, <1>14 DEF SerialInv

\* While requests for one database come one at a time, a handler uses the one
\* evaler that the list has for it.
THEOREM SerialInvariant ==
    ASSUME MaxPerDb = 1
    PROVE  Spec => [](HandlerInv /\ SerialInv)
<1>1. HandlerInv /\ SerialInv /\ [Next]_vars => SerialInv'
  <2> SUFFICES ASSUME HandlerInv, SerialInv, [Next]_vars PROVE SerialInv'
      OBVIOUS
  <2>1. CASE UNCHANGED vars
      BY <2>1 DEF vars, SerialInv, OneInFlight, InFlight, OneListed, NoneWhileStarting, EvalersOf,
                  UsedIsListed, AliveIsListed, Alive, KilledIsRemoved, NeverPanics
  <2>2. ASSUME NEW r \in Requests, WriteQuery(r) \/ Read(r) \/ Evaluate(r) \/ Answer(r) \/ Die(r)
        PROVE  SerialInv'
      BY <2>2, WriteQueryStep, ReadStep, EvaluateStep, AnswerStep, DieStep, PipeStepKeepsSerial
  <2>3. ASSUME NEW r \in Requests, Arrive(r) \/ LockEvaler(r) \/ Handle(r)
        PROVE  SerialInv'
      BY <2>3, ArriveKeepsSerial, LookKeepsSerial, StartProcKeepsSerial, AppendEvalerKeepsSerial,
         LockEvalerKeepsSerial, RespondKeepsSerial, TimeOutKeepsSerial, UnlistKeepsSerial,
         DrainKeepsSerial DEF Handle
  <2> QED
      BY <2>1, <2>2, <2>3 DEF Next
<1> QED
    BY <1>1, InitSerial, HandlerInvariant, PTL DEF Spec

LEMMA ListedOnce ==
    ASSUME HandlerInv, SerialInv
    PROVE  OneEvalerPerDb
<1> SUFFICES ASSUME NEW p \in Requests, NEW q \in Requests,
                    Alive(p), Alive(q), procs[p].db = procs[q].db
             PROVE  p = q
    BY DEF OneEvalerPerDb
<1>1. CASE p \in ToSet(evalers) /\ q \in ToSet(evalers)
    BY <1>1, ListElements DEF HandlerInv, TypeOK, SerialInv, OneListed
<1>2. ASSUME NEW s \in Requests, pc[s] = "append"
      PROVE  procs[s].db = db[s] /\ \A t \in ToSet(evalers) : procs[t].db # db[s]
    BY <1>2, EvalersOfDb DEF HandlerInv, Acquired, StartedOnce, SerialInv, NoneWhileStarting
<1>3. CASE pc[p] = "append" /\ pc[q] = "append"
    BY <1>2, <1>3, OthersAreForOthers
<1>4. (p \in ToSet(evalers) \/ pc[p] = "append") /\ (q \in ToSet(evalers) \/ pc[q] = "append")
    BY DEF SerialInv, AliveIsListed
<1> QED
    BY <1>1, <1>2, <1>3, <1>4

\* "Every database is owned and controlled by an evaler process.": never by two,
\* as long as its requests come one at a time.
THEOREM OneEvalerInvariant ==
    ASSUME MaxPerDb = 1
    PROVE  Spec => []OneEvalerPerDb
<1>1. HandlerInv /\ SerialInv => OneEvalerPerDb
    BY ListedOnce
<1> QED
    BY <1>1, SerialInvariant, PTL

\* timeout() finds the evaler it removes, as long as the requests for a database
\* come one at a time.
THEOREM PanicIsNotReached ==
    ASSUME MaxPerDb = 1
    PROVE  Spec => []NeverPanics
<1>1. SerialInv => NeverPanics
    BY DEF SerialInv
<1> QED
    BY <1>1, SerialInvariant, PTL

\* A request that finds its pipe closed has an evaler that died: had another
\* request killed it, that one would still be in flight.
LEMMA ClosedMeansDied ==
    ASSUME HandlerInv, PipeInv, SerialInv, NEW r \in Requests, pc[r] = "wait", got[r] = NoLine
    PROVE  procs[of[r]].state = "died"
<1>1. ~Alive(of[r])
  <2>1. got[r] # Null /\ got[r] # Whole(r)
      BY NullFacts DEF Whole, NoLine
  <2> QED
      BY <2>1 DEF PipeInv, ScansOwn
<1>2. of[r] \in Requests /\ procs[of[r]] # Null /\ procs[of[r]].db = db[r]
    BY DEF HandlerInv, Acquired, Serving
<1>3. procs[of[r]].state \in {"killed", "died"}
    BY <1>1, <1>2 DEF Alive, HandlerInv, TypeOK, Proc
<1>4. ASSUME procs[of[r]].state = "killed" PROVE FALSE
  <2>1. PICK q \in Requests : of[q] = of[r] /\ pc[q] = "remove"
      BY <1>4 DEF SerialInv, UsedIsListed, KilledIsRemoved
  <2>2. db[q] = db[r] /\ q # r
      BY <1>2, <2>1 DEF HandlerInv, Acquired, Serving
  <2> QED
      BY <2>1, <2>2, OthersAreForOthers
<1> QED
    BY <1>3, <1>4

\* What is dead stays what it is, and is nobody else's.
LEMMA DiedStays ==
    ASSUME HandlerInv, [Next]_vars, NEW p \in Requests, procs[p] # Null,
           procs[p].state = "died"
    PROVE  procs'[p].state = "died"
<1>1. CASE UNCHANGED vars
    BY <1>1 DEF vars
<1>2. ASSUME PipeStep PROVE procs'[p].state = "died"
    BY <1>2 DEF PipeStep
<1>3. ASSUME NEW r \in Requests, Arrive(r) \/ Look(r) \/ AppendEvaler(r)
      PROVE  procs'[p].state = "died"
    BY <1>3 DEF Arrive, Look, AppendEvaler
<1>4. ASSUME NEW r \in Requests, StartProc(r) PROVE procs'[p].state = "died"
    BY <1>4 DEF StartProc, HandlerInv, TypeOK, StartedOnce
<1>5. ASSUME NEW r \in Requests, TimeOut(r) PROVE procs'[p].state = "died"
    BY <1>5, TimeOutStep, KilledEntry DEF HandlerInv, TypeOK
<1>6. ASSUME NEW r \in Requests, LockEvaler(r) \/ Respond(r) \/ Drain(r) \/ Unlist(r)
      PROVE  procs'[p].state = "died"
  <2>1. procs[p] \in Proc /\ procs \in [Requests -> Proc \cup {Null}]
      BY DEF HandlerInv, TypeOK
  <2> QED
      BY <1>6, <2>1 DEF LockEvaler, Respond, Drain, Unlist, Finish, Released, Proc
<1> QED
    BY <1>1, <1>2, <1>3, <1>4, <1>5, <1>6, WriteQueryStep, ReadStep, EvaluateStep, AnswerStep,
       DieStep DEF Next, Handle

\* "evaler send a bad response" is said of an evaler that died by itself only.
THEOREM BadResponseMeansDeath ==
    ASSUME MaxPerDb = 1, AnswerLines \subseteq {1}
    PROVE  Spec => []BadMeansDied
<1>1. Init => BadMeansDied
    BY DEF Init, BadMeansDied
<1>2. HandlerInv /\ PipeInv /\ SerialInv /\ BadMeansDied /\ [Next]_vars => BadMeansDied'
  <2> SUFFICES ASSUME HandlerInv, PipeInv, SerialInv, BadMeansDied, [Next]_vars,
                      NEW r \in Requests, reply'[r] # Null, reply'[r].kind = "bad"
               PROVE  procs'[of'[r]].state = "died"
      BY DEF BadMeansDied
  <2>1. ASSUME reply[r] = reply'[r] PROVE procs'[of'[r]].state = "died"
    <3>1. pc[r] = "done" /\ of[r] \in Requests /\ procs[of[r]] # Null /\ procs[of[r]].state = "died"
        BY <2>1 DEF BadMeansDied, HandlerInv, Locals, Acquired
    <3>2. of'[r] = of[r]
      <4>1. ASSUME NEW q \in Requests, Look(q) \/ StartProc(q) PROVE of'[r] = of[r]
          BY <3>1, <4>1 DEF Look, StartProc, HandlerInv, TypeOK
      <4> QED
          BY <4>1 DEF Next, vars, Handle, Arrive, AppendEvaler, LockEvaler,
             WriteQuery, Read, Evaluate, Answer, Die, Respond, TimeOut, Unlist, Drain
    <3> QED
        BY <3>1, <3>2, DiedStays
  <2>2. ASSUME reply[r] # reply'[r] PROVE procs'[of'[r]].state = "died"
    <3>1. PICK q \in Requests : Respond(q) \/ Drain(q) \/ Unlist(q)
        BY <2>2 DEF Next, vars, Handle, Arrive, Look, StartProc, AppendEvaler, LockEvaler,
           WriteQuery, Read, Evaluate, Answer, Die, TimeOut
    <3>2. q = r /\ Respond(r) /\ ~got[r].whole
        BY <2>2, <3>1 DEF Respond, Drain, Unlist, Finish, HandlerInv, TypeOK
    <3>3. pc[r] = "wait" /\ got[r] = NoLine /\ of'[r] = of[r]
      <4>1. pc[r] = "wait" /\ got[r] # Null /\ of'[r] = of[r]
          BY <3>2 DEF Respond
      <4>2. got[r] # Whole(r)
          BY <3>2 DEF Whole
      <4> QED
          BY <4>1, <4>2 DEF PipeInv, ScansOwn
    <3>4. of[r] \in Requests /\ procs[of[r]] # Null
        BY <3>3 DEF HandlerInv, Acquired, Serving
    <3> QED
        BY <3>3, <3>4, ClosedMeansDied, DiedStays
  <2> QED
      BY <2>1, <2>2
<1> QED
    BY <1>1, <1>2, PipeInvariant, SerialInvariant, PTL DEF Spec

=============================================================================
