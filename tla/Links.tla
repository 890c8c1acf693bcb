-------------------------------- MODULE Links --------------------------------
(***************************************************************************)
(* Databases and the hostnames they are reached at (src/cmd/gateway).      *)
(*                                                                         *)
(* The gateway keeps both directions of the link in one bolt file: d2h,    *)
(* which the query page shows, and h2d, by which a web request finds its   *)
(* database.  A bolt Update is one step.  The handler of /link looks in    *)
(* one transaction whether the hostname is free and sets the link in       *)
(* another; handlers run concurrently.                                     *)
(***************************************************************************)
CONSTANTS Dbs,              \* databases that may be created
          Hosts,            \* hostnames that may be asked for
          Requests,         \* handlers of /link that run at the same time
          NoHost,           \* the empty hostname, which unlinks
          Null              \* no entry

Names == Hosts \cup {NoHost}
Claim == [db : Dbs, host : Names]

ASSUME LinksAssumption == NoHost \notin Hosts /\ Null \notin Dbs \cup Hosts \cup Claim

VARIABLES dbs,              \* the buckets of the bucket "dbs"
          d2h, h2d,         \* the buckets of those names, Null for no entry
          claims,           \* request -> the db and host it has checked, or Null
          raced             \* history: hosts two requests were linking at once

vars == <<dbs, d2h, h2d, claims, raced>>

-----------------------------------------------------------------------------
\* bolt has no entry under an empty name.
Init ==
    /\ dbs = {}
    /\ d2h = [d \in Dbs |-> Null]
    /\ h2d = [h \in Names |-> Null]
    /\ claims = [r \in Requests |-> Null]
    /\ raced = {}

\* createDB: the name is a fresh uuid.
CreateDB(d) ==
    /\ d \notin dbs
    /\ dbs' = dbs \cup {d}
    /\ UNCHANGED <<d2h, h2d, claims, raced>>

HasDB(d) == d \in dbs

\* Mutant of IsFree: only the database itself is asked whether it has h.
IsFreeHere(d, h) == h2d[h] # d

\* dbForLink finds no database under h, neither d nor another one.
IsFree(d, h) == h2d[h] = Null

\* Is another request between its check of h and its setLink?
Contested(r, h) == \E q \in Requests \ {r} : claims[q] # Null /\ claims[q].host = h

\* link: hasDB and dbForLink.
Check(r, d, h) ==
    /\ claims[r] = Null
    /\ HasDB(d)
    /\ IsFree(d, h)
    /\ claims' = [claims EXCEPT ![r] = [db |-> d, host |-> h]]
    /\ raced' = IF Contested(r, h) THEN raced \cup {h} ELSE raced
    /\ UNCHANGED <<dbs, d2h, h2d>>

\* Mutant of WithoutOld: the old host goes on serving the database.
WithoutOldKept(d) == h2d

\* The old link of d is deleted in both directions, whoever its host serves.
WithoutOld(d) == IF d2h[d] = Null THEN h2d ELSE [h2d EXCEPT ![d2h[d]] = Null]

\* Mutant of Serving: the new host is not entered if d had one.
ServingFirst(d, h) ==
    IF h = NoHost \/ d2h[d] # Null THEN WithoutOld(d) ELSE [WithoutOld(d) EXCEPT ![h] = d]

Serving(d, h) ==
    IF h = NoHost THEN WithoutOld(d) ELSE [WithoutOld(d) EXCEPT ![h] = d]

\* The second half of link: setLink.
SetLink(r) ==
    /\ claims[r] # Null
    /\ HasDB(claims[r].db)
    /\ d2h' = [d2h EXCEPT ![claims[r].db] = IF claims[r].host = NoHost THEN Null
                                                                      ELSE claims[r].host]
    /\ h2d' = Serving(claims[r].db, claims[r].host)
    /\ claims' = [claims EXCEPT ![r] = Null]
    /\ UNCHANGED <<dbs, raced>>

Next ==
    \/ \E d \in Dbs : CreateDB(d)
    \/ \E r \in Requests, d \in Dbs, h \in Names : Check(r, d, h)
    \/ \E r \in Requests : SetLink(r)

Spec == Init /\ [][Next]_vars

-----------------------------------------------------------------------------
\* The buckets map created databases to hostnames and back.
TypeOK ==
    /\ dbs \subseteq Dbs
    /\ d2h \in [Dbs -> Hosts \cup {Null}]
    /\ h2d \in [Names -> dbs \cup {Null}]
    /\ h2d[NoHost] = Null
    /\ claims \in [Requests -> Claim \cup {Null}]
    /\ raced \subseteq Names

\* A hostname never serves a database that has given it up: whoever a web
\* request to h is routed to shows h as its hostname on its query page, also
\* after links that overlapped (setLink, db.go:175-202).
ServedIsShown == \A h \in Hosts : h2d[h] # Null => d2h[h2d[h]] = h

\* "another db is using that hostname" (main.go:457): two databases never have
\* one hostname.
HostsAreExclusive == \A d, e \in Dbs : d2h[d] # Null /\ d2h[d] = d2h[e] => d = e

\* They have one only where two requests for it overlapped between the check
\* and the setLink of one of them: nothing else breaks the rule of main.go:457,
\* no relinking, no unlinking and no order of the two.
ExclusiveUnlessRaced ==
    \A d, e \in Dbs : d2h[d] # Null /\ d2h[d] = d2h[e] => d = e \/ d2h[d] \in raced

\* A database that shows a hostname is reached there, but for those races.
ShownIsServed ==
    \A d \in Dbs : d2h[d] # Null => h2d[d2h[d]] = d \/ d2h[d] \in raced
=============================================================================
