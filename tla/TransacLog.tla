----------------------------- MODULE TransacLog -----------------------------
(***************************************************************************)
(* The transaction logs of the databases and their tails: logTransac,      *)
(* tailDB and unTailDB (src/cmd/gateway/db.go), the tail handler and the   *)
(* end of doEval (src/cmd/gateway/main.go).                                *)
(*                                                                         *)
(* A tail is a connection: a handler that receives from an unbuffered      *)
(* channel and writes to the client, and a goroutine that first sends what *)
(* is stored and then registers the channel.  Whoever logs a transaction   *)
(* sends it to every registered channel of its database, with the lock     *)
(* held that is shared by all of them.                                     *)
(*                                                                         *)
(* A transaction is the number of the request that made it; what the       *)
(* client does with it is the subject of ClientTree.                       *)
(***************************************************************************)
EXTENDS Naturals, Sequences, FiniteSets, SequencesExt

CONSTANTS Dbs,              \* databases
          Stored,           \* transactions each had when the gateway started
          NumRequests,      \* bound: queries evaluated after that
          MaxLoggers,       \* bound: of them, evaluated and not yet logged
          NumTails,         \* bound: connections to /tail/
          Base,             \* base the keys of the log are written in (10)
          Null

Requests == Stored + 1 .. Stored + NumRequests
Tails == 1 .. NumTails

ASSUME LogAssumption ==
    /\ Stored \in Nat /\ NumRequests \in Nat /\ NumTails \in Nat
    /\ MaxLoggers \in Nat \ {0}
    /\ Base \in Nat \ {0, 1}
    /\ Null \notin Nat \cup Dbs

VARIABLES log,              \* database -> its transactions, in the order put
          logcbs,           \* database -> the registered channels
          lock,             \* the request that holds logsLock, or Null
          todo,             \* channels it has still to send to
          pc,               \* request -> where the end of its doEval is
          db,               \* request -> its database, or Null
          feeder,           \* tail -> where its tailDB is
          backlog,          \* tail -> stored transactions tailDB has still to send
          handler,          \* tail -> where its handler is
          target,           \* tail -> its database, or Null
          broken,           \* tails whose client has gone
          got,              \* history: tail -> transaction -> times its client got it
          snap,             \* history: tail -> entries in the log its tailDB saw
          missed            \* history: tail -> announced between that and its registration

logVars  == <<log, logcbs, lock, todo, pc, db>>
tailVars == <<feeder, backlog, handler, target, broken>>
history  == <<got, snap, missed>>
vars == <<logVars, tailVars, history>>

\* Is r in the log, and announced?
Logged(r) == pc[r] = "done"

\* Is there a client at the other end?
Live(c) == handler[c] = "select" /\ c \notin broken

-----------------------------------------------------------------------------
\* The digits of n, most significant first.
Digits[n \in Nat] == IF n < Base THEN <<n>> ELSE Append(Digits[n \div Base], n % Base)

\* Keys are decimal strings with ".t" appended, and '.' sorts before digits.
KeyBefore(m, n) ==
    LET a == Digits[m]
        b == Digits[n]
    IN  \/ IsStrictPrefix(a, b)
        \/ \E k \in DOMAIN a \cap DOMAIN b :
              a[k] < b[k] /\ \A j \in 1 .. k - 1 : a[j] = b[j]

\* How many of the keys of a log with n entries come before that of i.
KeysBefore(n, i) == Cardinality({j \in 1 .. n : KeyBefore(j, i)})

\* What a cursor finds, from First to the last Next.
Walk(d) ==
    LET n == Len(log[d])
    IN  [k \in 1 .. n |-> log[d][CHOOSE i \in 1 .. n : KeysBefore(n, i) = k - 1]]

Init ==
    /\ log = [d \in Dbs |-> [n \in 1 .. Stored |-> n]]
    /\ logcbs = [d \in Dbs |-> <<>>]
    /\ lock = Null /\ todo = <<>>
    /\ pc = [r \in Requests |-> "idle"]
    /\ db = [r \in Requests |-> Null]
    /\ feeder = [c \in Tails |-> "idle"]
    /\ backlog = [c \in Tails |-> <<>>]
    /\ handler = [c \in Tails |-> "idle"]
    /\ target = [c \in Tails |-> Null]
    /\ broken = {}
    /\ got = [c \in Tails |-> [n \in 1 .. Stored + NumRequests |-> 0]]
    /\ snap = [c \in Tails |-> 0]
    /\ missed = [c \in Tails |-> {}]

-----------------------------------------------------------------------------
(***************************************************************************)
(* The end of doEval and logTransac                                        *)
(***************************************************************************)

\* doEval has its result.  It keeps its evaler locked until the result is
\* logged; two requests of one database are here at once only if the database
\* has two evalers (EvalerPool shows when).
Evaluated(r) ==
    /\ pc[r] = "idle"
    /\ \A q \in Requests : q < r => pc[q] # "idle"
    /\ Cardinality({q \in Requests : pc[q] \notin {"idle", "done"}}) < MaxLoggers
    /\ \E d \in Dbs : db' = [db EXCEPT ![r] = d]
    /\ pc' = [pc EXCEPT ![r] = "put"]
    /\ UNCHANGED <<log, logcbs, lock, todo, tailVars, history>>

\* db.Update: NextSequence and Put.
Put(r) ==
    /\ pc[r] = "put"
    /\ log' = [log EXCEPT ![db[r]] = Append(@, r)]
    /\ pc' = [pc EXCEPT ![r] = "announce"]
    /\ UNCHANGED <<logcbs, lock, todo, db, tailVars, history>>

Channels(d) == logcbs[d]

\* Mutant of LockIsFree: logTransac takes logsLock for reading.
LockIsFreeForAll == TRUE

LockIsFree == lock = Null

\* logsLock.Lock()
TakeLock(r) ==
    /\ pc[r] = "announce" /\ LockIsFree
    /\ lock' = r
    /\ todo' = Channels(db[r])
    /\ pc' = [pc EXCEPT ![r] = "send"]
    /\ missed' = [c \in Tails |->
                     IF Live(c) /\ feeder[c] = "view" /\ target[c] = db[r]
                     THEN missed[c] \cup {r} ELSE missed[c]]
    /\ UNCHANGED <<log, logcbs, db, tailVars, got, snap>>

\* The handler of c receives t and writes it to the client; what is written
\* to a client that has gone is lost.
Deliver(c, t) ==
    /\ handler[c] = "select"
    /\ got' = IF c \in broken THEN got ELSE [got EXCEPT ![c][t] = @ + 1]

\* s <- t
Announce(r) ==
    /\ pc[r] = "send" /\ todo # <<>>
    /\ Deliver(Head(todo), r)
    /\ todo' = Tail(todo)
    /\ UNCHANGED <<log, logcbs, lock, pc, db, tailVars, snap, missed>>

\* Mutant of Unlocked: logsLock is not unlocked where there is no channel.
UnlockedAfterSend(r) == IF logcbs[db[r]] = <<>> THEN r ELSE Null

Unlocked(r) == Null

Unlock(r) ==
    /\ pc[r] = "send" /\ todo = <<>>
    /\ lock' = Unlocked(r)
    /\ pc' = [pc EXCEPT ![r] = "done"]
    /\ UNCHANGED <<log, logcbs, todo, db, tailVars, history>>

-----------------------------------------------------------------------------
(***************************************************************************)
(* A tail                                                                  *)
(***************************************************************************)

\* The handler starts its goroutine and waits for events.  A client that opens
\* a tail again after a break is another tail.
Open(c) ==
    /\ handler[c] = "idle"
    /\ \A b \in Tails : b < c => handler[b] # "idle"
    /\ \E d \in Dbs : target' = [target EXCEPT ![c] = d]
    /\ handler' = [handler EXCEPT ![c] = "select"]
    /\ feeder' = [feeder EXCEPT ![c] = "start"]
    /\ UNCHANGED <<logVars, backlog, broken, history>>

\* tailDB: the read transaction begins.
View(c) ==
    /\ feeder[c] = "start"
    /\ feeder' = [feeder EXCEPT ![c] = "view"]
    /\ backlog' = [backlog EXCEPT ![c] = Walk(target[c])]
    /\ snap' = [snap EXCEPT ![c] = IF Live(c) THEN Len(log[target[c]]) ELSE 0]
    /\ UNCHANGED <<logVars, handler, target, broken, got, missed>>

SendStored(c) ==
    /\ feeder[c] = "view" /\ backlog[c] # <<>>
    /\ Deliver(c, Head(backlog[c]))
    /\ backlog' = [backlog EXCEPT ![c] = Tail(@)]
    /\ UNCHANGED <<logVars, feeder, handler, target, broken, snap, missed>>

\* Mutant of Registered: the channel is registered a second time.
RegisteredTwice(c) == logcbs[target[c]] \o <<c, c>>

Registered(c) == Append(logcbs[target[c]], c)

\* The rest of tailDB, which does not know whether the handler is still there.
Register(c) ==
    /\ feeder[c] = "view" /\ backlog[c] = <<>>
    /\ lock = Null
    /\ logcbs' = [logcbs EXCEPT ![target[c]] = Registered(c)]
    /\ feeder' = [feeder EXCEPT ![c] = "registered"]
    /\ UNCHANGED <<log, lock, todo, pc, db, backlog, handler, target, broken, history>>

\* The client goes away, or the connection does.
Break(c) ==
    /\ handler[c] # "idle" /\ c \notin broken
    /\ broken' = broken \cup {c}
    /\ got' = [got EXCEPT ![c] = [n \in DOMAIN @ |-> 0]]
    /\ snap' = [snap EXCEPT ![c] = 0]
    /\ missed' = [missed EXCEPT ![c] = {}]
    /\ UNCHANGED <<logVars, feeder, backlog, handler, target>>

\* The handler finds out, by its context or by an error of a write.
Leave(c) ==
    /\ c \in broken /\ handler[c] = "select"
    /\ handler' = [handler EXCEPT ![c] = "leave"]
    /\ UNCHANGED <<logVars, feeder, backlog, target, broken, history>>

\* Mutant of Without: the first channel goes, whosever it is.
WithoutFirst(chs, c) == IF chs = <<>> THEN chs ELSE Tail(chs)

\* The channels without the first that is of c; there need not be one.
Without(chs, c) == RemoveFirst(chs, c)

\* The deferred unTailDB.
UnTail(c) ==
    /\ handler[c] = "leave" /\ lock = Null
    /\ logcbs' = [d \in Dbs |-> Without(logcbs[d], c)]
    /\ handler' = [handler EXCEPT ![c] = "gone"]
    /\ UNCHANGED <<log, lock, todo, pc, db, feeder, backlog, target, broken, history>>

Next ==
    \/ \E r \in Requests : \/ Evaluated(r) \/ Put(r)
                           \/ TakeLock(r) \/ Announce(r) \/ Unlock(r)
    \/ \E c \in Tails : \/ Open(c) \/ View(c) \/ SendStored(c) \/ Register(c)
                        \/ Break(c) \/ Leave(c) \/ UnTail(c)

\* The gateway does not stand still while one of its goroutines can go on.  No
\* more is needed, as there is an end to the requests and the connections.
GatewayStep ==
    \/ \E r \in Requests : Put(r) \/ TakeLock(r) \/ Announce(r) \/ Unlock(r)
    \/ \E c \in Tails : View(c) \/ SendStored(c) \/ Register(c) \/ Leave(c) \/ UnTail(c)

Fairness == WF_vars(GatewayStep)

Spec == Init /\ [][Next]_vars /\ Fairness

-----------------------------------------------------------------------------
Position(r) == SelectInSeq(log[db[r]], LAMBDA q : q = r)

\* Who is where: the lock is held by the one request that sends, to channels
\* registered for its database, and what a channel is registered for is the
\* database its tail has asked for.
TypeOK ==
    /\ log \in [Dbs -> Seq(Nat)]
    /\ lock \in Requests \cup {Null}
    /\ pc \in [Requests -> {"idle", "put", "announce", "send", "done"}]
    /\ \A r \in Requests : pc[r] = "send" <=> lock = r
    /\ lock # Null => ToSet(todo) \subseteq ToSet(logcbs[db[lock]])
    /\ \A d \in Dbs : \A c \in ToSet(logcbs[d]) : target[c] = d /\ feeder[c] = "registered"
    /\ \A c \in Tails : handler[c] = "idle" <=> feeder[c] = "idle"

\* A tail that is registered and has its client has been sent every transaction
\* logged for its database, but for those put after tailDB had read the log and
\* announced before it registered the channel (db.go:57-89).
LostOnlyInWindow ==
    \A c \in Tails : \A r \in Requests :
        /\ Live(c) /\ feeder[c] = "registered"
        /\ Logged(r) /\ db[r] = target[c] /\ got[c][r] = 0
        => r \in missed[c] /\ Position(r) > snap[c]

\* A tail is sent a transaction a second time only if it was put before tailDB
\* had read the log and announced after it had registered; never a third time,
\* and none of another database.
TwiceOnlyIfRacing ==
    \A c \in Tails : \A r \in Requests :
        /\ got[c][r] > 0 => db[r] = target[c]
        /\ got[c][r] > 1 => got[c][r] = 2 /\ r \notin missed[c] /\ Position(r) <= snap[c]

\* Someone sends to a handler that will not receive any more, with the lock.
Wedged == lock # Null /\ todo # <<>> /\ handler[Head(todo)] # "select"

\* Unless that happens everyone gets through: every request past its entry in
\* the log, and every tail that keeps its client to being registered.  If it
\* does happen, because a tail has left at the wrong moment, no request of any
\* database is answered any more.
Through == /\ \A r \in Requests : pc[r] \in {"idle", "done"}
           /\ \A c \in Tails : Live(c) => feeder[c] = "registered"
EveryoneGetsThrough == ~Through ~> Through \/ Wedged
=============================================================================
