------------------------------ MODULE EvalerPool ------------------------------
(***************************************************************************)
(* The gateway and its evaler processes (src/cmd/gateway/main.go): doEval, *)
(* acquireEvaler, release and timeout, run by many request handlers at     *)
(* once, and the pipes between the gateway and the processes.              *)
(*                                                                         *)
(* What a query does inside its evaler is the subject of Evaler; here it   *)
(* is one step, after which the query has had its effect.  An evaler is    *)
(* named after the request that started it.                                *)
(***************************************************************************)
EXTENDS Naturals, Sequences, FiniteSets, SequencesExt

CONSTANTS NumRequests,      \* bound: requests the gateway gets
          Dbs,              \* databases they are for
          MaxPerDb,         \* bound: requests for one database in flight at once
          AnswerLines,      \* in how many scans an answer may be read, see Answer
          Null

Requests == 1 .. NumRequests

VARIABLES evalers,          \* the list of running evalers
          procs,            \* struct evaler and its process, Null before newEvaler
          pc,               \* request -> where its handler is in doEval
          db,               \* request -> dbname
          of,               \* request -> e, the evaler acquired for it
          writing,          \* requests whose writer goroutine has not written yet
          got,              \* request -> what its reader goroutine has scanned, or Null
          reply,            \* request -> the result of doEval, or Null
          ran               \* history: requests whose query was evaluated

vars == <<evalers, procs, pc, db, of, writing, got, reply, ran>>

Line == [from : Requests, whole : BOOLEAN]
NoLine == [from |-> Null, whole |-> FALSE]      \* the pipe is closed

\* `lock` is the mutex of the evaler: the request that holds it, or Null.
Proc == [db : Dbs, state : {"alive", "killed", "died"}, lock : Requests \cup {Null},
         stdin : Seq(Requests), query : Requests \cup {Null}, stdout : Seq(Line)]

Reply == [kind : {"answer", "bad", "timeout", "panic"}, from : Requests \cup {Null}]

ASSUME PoolAssumption ==
    /\ NumRequests \in Nat /\ MaxPerDb \in Nat \ {0}
    /\ AnswerLines \subseteq {1, 2}
    /\ Null \notin Dbs \cup Requests \cup Proc \cup Line \cup {NoLine} \cup Reply

InFlight(d) == {r \in Requests : pc[r] \notin {"idle", "done"} /\ db[r] = d}
Alive(p) == procs[p] # Null /\ procs[p].state = "alive"

\* Indices of d's evalers in the list.
EvalersOf(d) == {i \in DOMAIN evalers : procs[evalers[i]].db = d}
FirstOf(S) == CHOOSE i \in S : \A j \in S : i <= j

-----------------------------------------------------------------------------
Init ==
    /\ evalers = <<>>
    /\ procs = [p \in Requests |-> Null]
    /\ pc = [r \in Requests |-> "idle"]
    /\ db \in [Requests -> Dbs]
    /\ of = [r \in Requests |-> Null]
    /\ writing = {}
    /\ got = [r \in Requests |-> Null]
    /\ reply = [r \in Requests |-> Null]
    /\ ran = {}

\* doEval is entered.  Requests arrive in the order of their numbers.
Arrive(r) ==
    /\ pc[r] = "idle"
    /\ \A q \in Requests : q < r => pc[q] # "idle"
    /\ Cardinality(InFlight(db[r])) < MaxPerDb
    /\ pc' = [pc EXCEPT ![r] = "look"]
    /\ UNCHANGED <<evalers, procs, db, of, writing, got, reply, ran>>

-----------------------------------------------------------------------------
(***************************************************************************)
(* acquireEvaler                                                           *)
(***************************************************************************)

\* Mutant of Found: the evaler is looked for at the head of the list only.
FoundAtHead(d) == EvalersOf(d) \cap {1}

Found(d) == EvalersOf(d)

\* Under the read lock: the first evaler of the database, if there is one.
Look(r) ==
    /\ pc[r] = "look"
    /\ IF Found(db[r]) # {}
       THEN /\ of' = [of EXCEPT ![r] = evalers[FirstOf(Found(db[r]))]]
            /\ pc' = [pc EXCEPT ![r] = "lock"]
       ELSE /\ pc' = [pc EXCEPT ![r] = "start"]
            /\ UNCHANGED of
    /\ UNCHANGED <<evalers, procs, db, writing, got, reply, ran>>

\* newEvaler, with no lock held.
StartProc(r) ==
    /\ pc[r] = "start"
    /\ procs' = [procs EXCEPT ![r] =
                    [db |-> db[r], state |-> "alive", lock |-> Null,
                     stdin |-> <<>>, query |-> Null, stdout |-> <<>>]]
    /\ of' = [of EXCEPT ![r] = r]
    /\ pc' = [pc EXCEPT ![r] = "append"]
    /\ UNCHANGED <<evalers, db, writing, got, reply, ran>>

\* Mutant of Listed: the evaler takes the place of the one listed last.
ListedOver(p) == Append(SubSeq(evalers, 1, Len(evalers) - 1), p)

Listed(p) == Append(evalers, p)

AppendEvaler(r) ==
    /\ pc[r] = "append"
    /\ evalers' = Listed(r)
    /\ pc' = [pc EXCEPT ![r] = "lock"]
    /\ UNCHANGED <<procs, db, of, writing, got, reply, ran>>

\* Mutant of Unlocked: the evaler is not locked against other requests.
UnlockedAlways(p) == TRUE

Unlocked(p) == procs[p].lock = Null

\* e.Lock(), and doEval starts its writer and its reader.
LockEvaler(r) ==
    /\ pc[r] = "lock"
    /\ Unlocked(of[r])
    /\ procs' = [procs EXCEPT ![of[r]].lock = r]
    /\ writing' = writing \cup {r}
    /\ pc' = [pc EXCEPT ![r] = "wait"]
    /\ UNCHANGED <<evalers, db, of, got, reply, ran>>

-----------------------------------------------------------------------------
(***************************************************************************)
(* The pipes and the evaler at their other end                             *)
(***************************************************************************)

\* The writer goroutine; an error of the write is ignored.
WriteQuery(r) ==
    /\ r \in writing
    /\ writing' = writing \ {r}
    /\ procs' = IF Alive(of[r]) THEN [procs EXCEPT ![of[r]].stdin = Append(@, r)] ELSE procs
    /\ UNCHANGED <<evalers, pc, db, of, got, reply, ran>>

\* The evaler reads a query, evaluates it and commits ...
Evaluate(p) ==
    /\ Alive(p) /\ procs[p].query = Null /\ procs[p].stdin # <<>>
    /\ procs' = [procs EXCEPT ![p].query = Head(procs[p].stdin), ![p].stdin = Tail(@)]
    /\ ran' = ran \cup {Head(procs[p].stdin)}
    /\ UNCHANGED <<evalers, pc, db, of, writing, got, reply>>

\* ... and prints its answer.  The gateway's bufio.Scanner gives up on a line
\* after 64 KiB, so that a longer one is read in two: neither part is json.
Answer(p) ==
    /\ Alive(p) /\ procs[p].query # Null
    /\ \E n \in AnswerLines :
          LET line == [from |-> procs[p].query, whole |-> n = 1]
          IN  procs' = [procs EXCEPT ![p].stdout = @ \o [k \in 1 .. n |-> line],
                                     ![p].query = Null]
    /\ UNCHANGED <<evalers, pc, db, of, writing, got, reply, ran>>

\* The evaler ends by itself: an assert, a fault, exit(1).
Die(p) ==
    /\ Alive(p)
    /\ procs' = [procs EXCEPT ![p].state = "died", ![p].stdin = <<>>, ![p].query = Null]
    /\ UNCHANGED <<evalers, pc, db, of, writing, got, reply, ran>>

\* What a scan may leave of the lines behind its own: the scanner has a buffer
\* of its own, which is lost with it and may have been filled up with some of
\* them, the last of these cut in two.
LeftOf(lines) ==
    LET from == {SubSeq(lines, k, Len(lines)) : k \in 1 .. Len(lines) + 1}
    IN  from \cup {[s EXCEPT ![1].whole = FALSE] : s \in from \ {<<>>}}

\* The reader goroutine scans a line, or finds the pipe closed.
Read(r) ==
    /\ pc[r] \in {"wait", "remove", "drain"} /\ got[r] = Null
    /\ LET out == procs[of[r]].stdout
       IN  \/ /\ out # <<>>
              /\ got' = [got EXCEPT ![r] = Head(out)]
              /\ \E rest \in LeftOf(Tail(out)) : procs' = [procs EXCEPT ![of[r]].stdout = rest]
           \/ /\ out = <<>> /\ ~Alive(of[r])
              /\ got' = [got EXCEPT ![r] = NoLine]
              /\ UNCHANGED procs
    /\ UNCHANGED <<evalers, pc, db, of, writing, reply, ran>>

-----------------------------------------------------------------------------
(***************************************************************************)
(* The rest of doEval                                                      *)
(***************************************************************************)

\* Mutant of Released: an answer does not release the evaler.
ReleasedLater(r) == procs

\* e.release()
Released(r) == [procs EXCEPT ![of[r]].lock = Null]

\* The result is logged and returned, the locals of doEval are gone.
Finish(r, kind, from) ==
    /\ reply' = [reply EXCEPT ![r] = [kind |-> kind, from |-> from]]
    /\ procs' = Released(r)
    /\ pc' = [pc EXCEPT ![r] = "done"]
    /\ got' = [got EXCEPT ![r] = Null]

\* A line before the deadline, or preferred to it by the select.
Respond(r) ==
    /\ pc[r] = "wait" /\ got[r] # Null
    /\ IF got[r].whole THEN Finish(r, "answer", got[r].from) ELSE Finish(r, "bad", Null)
    /\ UNCHANGED <<evalers, db, of, writing, ran>>

\* Kill and Wait: the process is gone and both pipes are closed.
Killed(p) == IF p.state = "alive"
             THEN [p EXCEPT !.state = "killed", !.stdin = <<>>, !.query = Null, !.stdout = <<>>]
             ELSE [p EXCEPT !.stdout = <<>>]

\* "execution timed out": first half of timeout().  The 20 seconds have run
\* since the request arrived, so that they may be over at any moment: those of
\* the requests before it are over then, too, whatever they are doing.
TimeOut(r) ==
    /\ pc[r] = "wait"
    /\ procs' = [procs EXCEPT ![of[r]] = Killed(@)]
    /\ pc' = [pc EXCEPT ![r] = "remove"]
    /\ UNCHANGED <<evalers, db, of, writing, got, reply, ran>>

\* Mutant of Without: the last entry is dropped, entry i stays.
WithoutLast(i) == SubSeq(evalers, 1, Len(evalers) - 1)

\* The list without entry i: the last entry takes its place.
Without(i) == SubSeq([evalers EXCEPT ![i] = Last(evalers)], 1, Len(evalers) - 1)

\* Second half of timeout(): the first evaler with the same database goes; if
\* there is none, the handler panics, which releases the evaler.
Unlist(r) ==
    /\ pc[r] = "remove"
    /\ IF EvalersOf(procs[of[r]].db) # {}
       THEN /\ evalers' = Without(FirstOf(EvalersOf(procs[of[r]].db)))
            /\ pc' = [pc EXCEPT ![r] = "drain"]
            /\ UNCHANGED <<procs, reply, got>>
       ELSE /\ Finish(r, "panic", Null)
            /\ UNCHANGED evalers
    /\ UNCHANGED <<db, of, writing, ran>>

\* <-ran
Drain(r) ==
    /\ pc[r] = "drain" /\ got[r] # Null
    /\ Finish(r, "timeout", Null)
    /\ UNCHANGED <<evalers, db, of, writing, ran>>

Handle(r) == \/ Look(r) \/ StartProc(r) \/ AppendEvaler(r)
             \/ Respond(r) \/ TimeOut(r) \/ Unlist(r) \/ Drain(r)

Next == \E r \in Requests :
            \/ Arrive(r) \/ Handle(r) \/ LockEvaler(r)
            \/ WriteQuery(r) \/ Read(r)
            \/ Evaluate(r) \/ Answer(r) \/ Die(r)

\* The gateway does not stand still while one of its handlers or readers can go
\* on, the ones whose 20 seconds are over included.  That every goroutine gets
\* its turn is more than is needed: a request takes a few steps and there are
\* only so many.  Nothing is assumed of the evalers: a query may run for ever.
Fairness == WF_vars(\E r \in Requests : Handle(r) \/ LockEvaler(r) \/ Read(r))

Spec == Init /\ [][Next]_vars /\ Fairness

-----------------------------------------------------------------------------
TypeOK ==
    /\ evalers \in Seq(Requests)
    /\ procs \in [Requests -> Proc \cup {Null}]
    /\ pc \in [Requests -> {"idle", "look", "start", "append", "lock", "wait",
                            "remove", "drain", "done"}]
    /\ db \in [Requests -> Dbs]
    /\ of \in [Requests -> Requests \cup {Null}]
    /\ writing \subseteq Requests
    /\ got \in [Requests -> Line \cup {NoLine, Null}]
    /\ reply \in [Requests -> Reply \cup {Null}]
    /\ ran \subseteq Requests
    /\ \A p \in ToSet(evalers) : procs[p] # Null

\* An evaler is locked by exactly the request that talks to it, from the lock
\* to every way out of doEval (an answer, a bad response, a timeout, a panic):
\* no two requests use its pipes at once and no evaler stays locked behind a
\* request that has ended.
HeldWhileServed == \A p, r \in Requests :
    procs[p] # Null =>
        (procs[p].lock = r <=> of[r] = p /\ pc[r] \in {"wait", "remove", "drain"})

\* "on success: the current generation is committed and a json representation
\* of the result is returned" (README.md:117): an answer is the one to the
\* query of the request that gets it, whatever requests share the pipe and
\* however many were killed or timed out before it.
AnswersAreOwn == \A r \in Requests :
    reply[r] # Null /\ reply[r].kind = "answer" => reply[r].from = r /\ r \in ran

\* Once the client has its answer, be it an answer, a timeout or an error, its
\* query has no effect any more: nothing a client is told failed is still
\* waiting to be evaluated.
NothingRunsAfterReply == [][\A r \in ran' \ ran : reply[r] = Null]_vars

AtRest == \A r \in Requests : pc[r] \in {"idle", "done"}

\* No request waits for ever, neither for an evaler that loops or died nor
\* behind other requests: the gateway comes to rest, again and again.
EveryRequestEnds == ~AtRest ~> AtRest

\* "Every database is owned and controlled by an evaler process." (README.md:68):
\* never two at once.
OneEvalerPerDb == \A p, q \in Requests :
    Alive(p) /\ Alive(q) /\ procs[p].db = procs[q].db => p = q

\* panic("oh nos") in timeout (main.go:140) is not reached.
NeverPanics == \A r \in Requests : reply[r] # Null => reply[r].kind # "panic"

\* "evaler send a bad response" is never said of an evaler the gateway itself
\* has killed: the request after a timeout gets a new one.
BadMeansDied == \A r \in Requests :
    reply[r] # Null /\ reply[r].kind = "bad" => procs[of[r]].state = "died"
=============================================================================
