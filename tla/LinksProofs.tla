----------------------------- MODULE LinksProofs -----------------------------
(***************************************************************************)
(* What Links promises, for any number of databases, hostnames and         *)
(* concurrent requests.                                                    *)
(*                                                                         *)
(* The strengthening is about the requests between their check and their   *)
(* setLink: what one has checked still holds, unless another request for   *)
(* the same hostname has come in between, and then the hostname is marked. *)
(***************************************************************************)
EXTENDS Links, TLAPS

\* Two requests that hold one hostname have raced for it.
ClaimsDiffer ==
    \A r, q \in Requests :
        claims[r] # Null /\ claims[q] # Null /\ claims[r].host = claims[q].host
            => r = q \/ claims[r].host \in raced

\* A hostname that was free when it was checked is free still.
ClaimsAreFree ==
    \A r \in Requests :
        claims[r] # Null => h2d[claims[r].host] = Null \/ claims[r].host \in raced

LinksInv == /\ TypeOK
            /\ ServedIsShown /\ ExclusiveUnlessRaced /\ ShownIsServed
            /\ ClaimsDiffer /\ ClaimsAreFree

\* The empty buckets satisfy the invariant.
LEMMA InitLinksInv == Init => LinksInv
<1> SUFFICES ASSUME Init PROVE LinksInv
    OBVIOUS
<1> USE DEF Init
<1>1. TypeOK
    BY DEF TypeOK, Names
<1>2. ServedIsShown
    BY DEF ServedIsShown, Names
<1>3. ExclusiveUnlessRaced /\ ShownIsServed
    BY DEF ExclusiveUnlessRaced, ShownIsServed
<1>4. ClaimsDiffer /\ ClaimsAreFree
    BY DEF ClaimsDiffer, ClaimsAreFree
<1> QED
    BY <1>1, <1>2, <1>3, <1>4 DEF LinksInv

\* A new database is linked to nothing.
LEMMA CreateDBKeeps ==
    ASSUME LinksInv, NEW d \in Dbs, CreateDB(d)
    PROVE  LinksInv'
<1> USE DEF LinksInv, CreateDB
<1>1. TypeOK'
    BY DEF TypeOK
<1>2. /\ ServedIsShown' /\ ExclusiveUnlessRaced' /\ ShownIsServed'
      /\ ClaimsDiffer' /\ ClaimsAreFree'
    BY DEF ServedIsShown, ExclusiveUnlessRaced, ShownIsServed, ClaimsDiffer, ClaimsAreFree
<1> QED
    BY <1>1, <1>2

\* A check changes no link, and marks the hostname if another request holds it.
LEMMA CheckKeeps ==
    ASSUME LinksInv, NEW r \in Requests, NEW d \in Dbs, NEW h \in Names, Check(r, d, h)
    PROVE  LinksInv'
<1> USE DEF LinksInv, Check
<1> DEFINE claim == [db |-> d, host |-> h]
<1>1. /\ claim \in Claim /\ claim # Null /\ claim.host = h
      /\ claims' = [claims EXCEPT ![r] = claim]
    BY LinksAssumption DEF Claim
<1> HIDE DEF claim
<1>2. TypeOK'
    BY <1>1 DEF TypeOK
<1>3. raced \subseteq raced'
    OBVIOUS
<1>4. ServedIsShown' /\ ExclusiveUnlessRaced' /\ ShownIsServed'
    BY <1>3 DEF ServedIsShown, ExclusiveUnlessRaced, ShownIsServed
<1>5. ClaimsAreFree'
    BY <1>1, <1>3 DEF ClaimsAreFree, IsFree, TypeOK
<1>6. ClaimsDiffer'
  <2> SUFFICES ASSUME NEW p \in Requests, NEW q \in Requests, p # q,
                      claims'[p] # Null, claims'[q] # Null,
                      claims'[p].host = claims'[q].host
               PROVE  claims'[p].host \in raced'
      BY DEF ClaimsDiffer
  <2>1. CASE p # r /\ q # r
      BY <1>1, <1>3, <2>1 DEF ClaimsDiffer, TypeOK
  <2>2. CASE p = r
      BY <1>1, <2>2 DEF Contested, TypeOK
  <2>3. CASE q = r
      BY <1>1, <2>3 DEF Contested, TypeOK
  <2> QED
      BY <2>1, <2>2, <2>3
<1> QED
    BY <1>2, <1>4, <1>5, <1>6

\* setLink on a hostname nobody raced for finds it free, so that it has no
\* other database; the links it deletes and enters are its own.
LEMMA SetLinkKeeps ==
    ASSUME LinksInv, NEW r \in Requests, SetLink(r)
    PROVE  LinksInv'
<1> DEFINE d == claims[r].db
           h == claims[r].host
<1>1. /\ claims[r] # Null /\ d \in Dbs /\ d \in dbs /\ h \in Names
      /\ raced' = raced /\ dbs' = dbs
      /\ claims' = [claims EXCEPT ![r] = Null]
    BY DEF LinksInv, TypeOK, SetLink, HasDB, Claim
<1>2. /\ d2h' \in [Dbs -> Hosts \cup {Null}]
      /\ d2h'[d] = IF h = NoHost THEN Null ELSE h
      /\ \A e \in Dbs : e # d => d2h'[e] = d2h[e]
    BY <1>1 DEF LinksInv, TypeOK, SetLink, Names
<1>3. /\ h2d' \in [Names -> dbs \cup {Null}]
      /\ h2d'[NoHost] = Null
      /\ h # NoHost => h2d'[h] = d
      /\ \A g \in Hosts : h = NoHost \/ g # h =>
            h2d'[g] = IF g = d2h[d] THEN Null ELSE h2d[g]
    BY <1>1, LinksAssumption DEF LinksInv, TypeOK, SetLink, Serving, WithoutOld, Names
<1>4. TypeOK'
    BY <1>1, <1>2, <1>3 DEF LinksInv, TypeOK
<1>5. h \in raced \/ h = NoHost \/ \A e \in Dbs : d2h[e] # h
    BY <1>1, LinksAssumption DEF LinksInv, TypeOK, ShownIsServed, ClaimsAreFree, Names
<1> HIDE DEF d, h
<1>6. ServedIsShown'
  <2> SUFFICES ASSUME NEW g \in Hosts, h2d'[g] # Null
               PROVE  d2h'[h2d'[g]] = g
      BY DEF ServedIsShown
  <2>1. CASE h # NoHost /\ g = h
      BY <1>1, <1>2, <1>3, <2>1
  <2>2. CASE h = NoHost \/ g # h
    <3>1. h2d'[g] = h2d[g] /\ g # d2h[d] /\ h2d[g] \in Dbs
        BY <1>3, <2>2 DEF LinksInv, TypeOK, Names
    <3>2. d2h[h2d[g]] = g
        BY <3>1 DEF LinksInv, ServedIsShown
    <3> QED
        BY <1>2, <3>1, <3>2
  <2> QED
      BY <2>1, <2>2
<1>7. ExclusiveUnlessRaced'
  <2> SUFFICES ASSUME NEW e \in Dbs, NEW f \in Dbs, e # f,
                      d2h'[e] # Null, d2h'[e] = d2h'[f]
               PROVE  d2h'[e] \in raced
      BY <1>1 DEF ExclusiveUnlessRaced
  <2>1. CASE e # d /\ f # d
      BY <1>2, <2>1 DEF LinksInv, ExclusiveUnlessRaced
  <2>2. CASE e = d
      BY <1>2, <1>5, <2>2
  <2>3. CASE f = d
      BY <1>2, <1>5, <2>3
  <2> QED
      BY <2>1, <2>2, <2>3
<1>8. ShownIsServed'
  <2> SUFFICES ASSUME NEW e \in Dbs, d2h'[e] # Null
               PROVE  h2d'[d2h'[e]] = e \/ d2h'[e] \in raced
      BY <1>1 DEF ShownIsServed
  <2>1. CASE e = d
      BY <1>2, <1>3, <2>1
  <2>2. CASE e # d
    <3>1. d2h'[e] = d2h[e] /\ d2h[e] \in Hosts
        BY <1>2, <2>2 DEF LinksInv, TypeOK
    <3>2. h2d[d2h[e]] = e \/ d2h[e] \in raced
        BY <3>1 DEF LinksInv, ShownIsServed
    <3>3. CASE h # NoHost /\ d2h[e] = h
        BY <1>5, <3>1, <3>3
    <3>4. CASE d2h[e] = d2h[d]
        BY <1>1, <2>2, <3>1, <3>4 DEF LinksInv, ExclusiveUnlessRaced
    <3>5. CASE (h = NoHost \/ d2h[e] # h) /\ d2h[e] # d2h[d]
        BY <1>3, <3>1, <3>2, <3>5
    <3> QED
        BY <3>3, <3>4, <3>5
  <2> QED
      BY <2>1, <2>2
<1>9. ClaimsDiffer'
    BY <1>1 DEF LinksInv, TypeOK, ClaimsDiffer
<1>10. ClaimsAreFree'
  <2> SUFFICES ASSUME NEW q \in Requests, claims'[q] # Null
               PROVE  h2d'[claims'[q].host] = Null \/ claims'[q].host \in raced
      BY <1>1 DEF ClaimsAreFree
  <2>1. q # r /\ claims'[q] = claims[q] /\ claims[q].host \in Names
      BY <1>1 DEF LinksInv, TypeOK, Claim
  <2>2. h2d[claims[q].host] = Null \/ claims[q].host \in raced
      BY <2>1 DEF LinksInv, ClaimsAreFree
  <2>3. CASE claims[q].host = h
      BY <1>1, <2>1, <2>3 DEF LinksInv, ClaimsDiffer, h
  <2>4. CASE claims[q].host # h
      BY <1>3, <2>1, <2>2, <2>4 DEF Names
  <2> QED
      BY <2>3, <2>4
<1> QED
    BY <1>4, <1>6, <1>7, <1>8, <1>9, <1>10 DEF LinksInv

\* The invariant of the links holds in every reachable state.
THEOREM LinksInvariant == Spec => []LinksInv
<1>1. LinksInv /\ [Next]_vars => LinksInv'
  <2> SUFFICES ASSUME LinksInv, [Next]_vars PROVE LinksInv'
      OBVIOUS
  <2>1. CASE UNCHANGED vars
      BY <2>1 DEF vars, LinksInv, TypeOK, ServedIsShown, ExclusiveUnlessRaced,
                  ShownIsServed, ClaimsDiffer, ClaimsAreFree
  <2>2. CASE \E d \in Dbs : CreateDB(d)
      BY <2>2, CreateDBKeeps
  <2>3. CASE \E r \in Requests, d \in Dbs, h \in Names : Check(r, d, h)
      BY <2>3, CheckKeeps
  <2>4. CASE \E r \in Requests : SetLink(r)
      BY <2>4, SetLinkKeeps
  <2> QED
      BY <2>1, <2>2, <2>3, <2>4 DEF Next
<1> QED
    BY <1>1, InitLinksInv, PTL DEF Spec

\* A web request is never routed to a database that has given the hostname up.
THEOREM LinksServeWhatIsShown == Spec => []ServedIsShown
<1>1. LinksInv => ServedIsShown
    BY DEF LinksInv
<1> QED
    BY <1>1, LinksInvariant, PTL

\* Two databases have one hostname only where two requests for it overlapped.
THEOREM LinksAreExclusive == Spec => []ExclusiveUnlessRaced
<1>1. LinksInv => ExclusiveUnlessRaced
    BY DEF LinksInv
<1> QED
    BY <1>1, LinksInvariant, PTL

\* And but for those a database is reached under the hostname it shows.
THEOREM LinksShowWhatIsServed == Spec => []ShownIsServed
<1>1. LinksInv => ShownIsServed
    BY DEF LinksInv
<1> QED
    BY <1>1, LinksInvariant, PTL
=============================================================================
