--------------------------- MODULE RequestProofs ---------------------------
(***************************************************************************)
(* Proofs about ClientRequest, for any requests, configurations and number *)
(* of requests of a connection, and about CacheLoad, for any callers and   *)
(* swarms and a cache of lookups of any size.                              *)
(***************************************************************************)
EXTENDS ClientRequest, CacheLoad, TLAPS

-----------------------------------------------------------------------------
(***************************************************************************)
(* CacheLoad: PeersAreRecent and WaitersAreServed.                         *)
(***************************************************************************)

Lookup == [swarm : SUBSET Swarm, job : BOOLEAN, last : {"none", "fresh", "old"}, found : BOOLEAN]

Load == [at : {"idle", "local", "create", "open"}, swarm : SUBSET Swarm,
         look : {"none", "dht", "get", "woken", "sleep", "done"},
         lookup : Id \cup {0}, ended : {"none", "found", "failed"}]

LoadTypeOK == lookups \in [Id -> Lookup] /\ loads \in [Caller -> Load]

\* Where the reader's coroutine of a call stands, given its lookup: it refers
\* to one while it looks up peers, the search it waits for runs, and one that
\* has found peers has left them as the fresh last result.
Served(l, objects) ==
  /\ l.look \in {"dht", "get", "woken", "sleep"} => l.lookup \in Id
  /\ l.look = "get" => objects[l.lookup].job
  /\ l.look = "woken" => l.ended = "failed" \/ objects[l.lookup].last = "fresh"

LoadInv == LoadTypeOK /\ \A c \in Caller : Served(loads[c], lookups)

\* What a step may do to a call: end the search of peers only with a fresh
\* result or after a failure.
Recent(c) ==
  loads[c].look # "done" /\ loads'[c].look = "done"
    => lookups[loads[c].lookup].last = "fresh" \/ loads[c].ended = "failed"

LEMMA LoadInitially == LoadInit => LoadInv
BY DEF LoadInit, LoadInv, LoadTypeOK, Served, Lookup, Load, NoLookup, NoLoad

\* A lookup that a call still refers to is not destroyed.
LEMMA ReferredStay ==
  ASSUME NEW objects, NEW q, NEW l, Become(objects, q, l),
         NEW c \in Caller, l[c].lookup \in Id
  PROVE  lookups'[l[c].lookup] = objects[l[c].lookup]
BY Zenon DEF Become, Referred

LEMMA BecomeTyped ==
  ASSUME NEW objects \in [Id -> Lookup], NEW q, NEW l \in [Caller -> Load], Become(objects, q, l)
  PROVE  LoadTypeOK'
BY Zenon DEF Become, LoadTypeOK, NoLookup, Lookup

\* The steps that change one call, and the objects only where others do not
\* look: its part of the invariant is all there is to show.
LEMMA BecomeServes ==
  ASSUME LoadInv, NEW objects \in [Id -> Lookup], NEW q, NEW l \in [Caller -> Load],
         Become(objects, q, l), NEW c \in Caller, Served(l[c], objects),
         \A d \in Caller \ {c} : l[d] = loads[d],
         \A d \in Caller \ {c} : loads[d].lookup \in Id =>
            /\ lookups[loads[d].lookup].job => objects[loads[d].lookup].job
            /\ objects[loads[d].lookup].last = lookups[loads[d].lookup].last
  PROVE  LoadInv'
<1>1. LoadTypeOK'
    BY Zenon, BecomeTyped
<1>2. loads' = l
    BY Zenon DEF Become
<1>3. ASSUME NEW d \in Caller PROVE Served(l[d], lookups')
  <2>1. Served(l[d], objects)
    <3>1. CASE d = c
        BY Zenon, <3>1
    <3>2. CASE d # c
        BY Zenon, <3>2 DEF Served, LoadInv
    <3>3. QED
        BY Zenon, <3>1, <3>2
  <2>2. l[d].lookup \in Id => lookups'[l[d].lookup] = objects[l[d].lookup]
      BY ReferredStay
  <2>3. QED
      BY Zenon, <2>1, <2>2 DEF Served
<1>4. QED
    BY Zenon, <1>1, <1>2, <1>3 DEF LoadInv

LEMMA MakeReader ==
  ASSUME LoadInv, NEW c \in Caller, loads[c].at = "local", LookupCached(c) \/ LookupMade(c)
  PROVE  LoadInv' /\ \A d \in Caller : Recent(d)
<1>1. ASSUME NEW i \in Id
      PROVE  /\ WithReader(c, i) \in [Caller -> Load]
             /\ WithReader(c, i)[c].look = "dht" /\ WithReader(c, i)[c].lookup = i
             /\ \A d \in Caller \ {c} : WithReader(c, i)[d] = loads[d]
    BY Zenon DEF WithReader, NoLoad, Load, LoadInv, LoadTypeOK
<1>2. ASSUME NEW i \in Id, NEW objects, NEW q, Become(objects, q, WithReader(c, i))
      PROVE  \A d \in Caller : Recent(d)
    BY Zenon, <1>1, <1>2 DEF Become, Recent
<1>3. ASSUME NEW i \in Id PROVE \A objects : Served(WithReader(c, i)[c], objects)
    BY Zenon, <1>1 DEF Served
<1>4. CASE LookupCached(c)
  <2>1. PICK i \in Id :
          Become(lookups, <<i>> \o SelectSeq(lru, LAMBDA j : j # i), WithReader(c, i))
      BY Zenon, <1>4 DEF LookupCached
  <2>2. LoadInv'
      BY <1>1, <1>3, <2>1, BecomeServes DEF LoadInv, LoadTypeOK
  <2>3. QED
      BY Zenon, <1>2, <2>1, <2>2
<1>5. CASE LookupMade(c)
  <2> DEFINE objects(i) == [lookups EXCEPT ![i] = NewLookup(loads[c].swarm)]
  <2>1. PICK i \in Id :
          /\ Unused(i)
          /\ Become(objects(i), <<i>> \o (IF Len(lru) < Capacity THEN lru ELSE Front(lru)),
                    WithReader(c, i))
      BY Zenon, <1>5 DEF LookupMade
  <2>2. objects(i) \in [Id -> Lookup]
      BY Zenon DEF LoadInv, LoadTypeOK, NewLookup, Lookup, Load
  <2>3. ASSUME NEW d \in Caller \ {c}, loads[d].lookup \in Id
        PROVE  objects(i)[loads[d].lookup] = lookups[loads[d].lookup]
      BY Zenon, <2>1, <2>3 DEF Unused, Referred, LoadInv, LoadTypeOK
  <2> DEFINE q == <<i>> \o (IF Len(lru) < Capacity THEN lru ELSE Front(lru))
             l == WithReader(c, i)
             o == objects(i)
  <2> HIDE DEF objects, q, l, o
  <2>6. /\ o \in [Id -> Lookup] /\ l \in [Caller -> Load] /\ Become(o, q, l)
        /\ Served(l[c], o) /\ \A d \in Caller \ {c} : l[d] = loads[d]
      BY Zenon, <1>1, <1>3, <2>1, <2>2 DEF q, l, o
  <2>7. \A d \in Caller \ {c} : loads[d].lookup \in Id =>
            /\ lookups[loads[d].lookup].job => o[loads[d].lookup].job
            /\ o[loads[d].lookup].last = lookups[loads[d].lookup].last
      BY Zenon, <2>3 DEF o
  <2>4. LoadInv'
      BY Zenon, <2>6, <2>7, BecomeServes
  <2>5. QED
      BY Zenon, <1>2, <2>1, <2>4
<1>6. QED
    BY Zenon, <1>4, <1>5

LEMMA ReturnsKeeps ==
  ASSUME LoadInv, NEW c \in Caller, Returns(c)
  PROVE  LoadInv' /\ \A d \in Caller : Recent(d)
<1> DEFINE l == [loads EXCEPT ![c] = NoLoad]
<1>1. /\ l \in [Caller -> Load] /\ l[c] = NoLoad /\ Become(lookups, lru, l)
      /\ \A d \in Caller \ {c} : l[d] = loads[d]
    BY Zenon DEF Returns, LoadInv, LoadTypeOK, Load, NoLoad
<1>2. Served(NoLoad, lookups)
    BY Zenon DEF Served, NoLoad
<1>3. \A d \in Caller : Recent(d)
    BY Zenon, <1>1 DEF Become, Recent, NoLoad
<1> HIDE DEF l
<1>4. LoadInv'
    BY Zenon, <1>1, <1>2, BecomeServes DEF LoadInv, LoadTypeOK
<1>5. QED
    BY Zenon, <1>3, <1>4

LEMMA TakesKeeps ==
  ASSUME LoadInv, NEW c \in Caller, NEW objects \in [Id -> Lookup], Takes(c, objects),
         loads[c].lookup \in Id,
         lookups[loads[c].lookup].last = "fresh" \/ loads[c].ended = "failed",
         \A i \in Id : /\ lookups[i].job => objects[i].job
                       /\ objects[i].last = lookups[i].last
  PROVE  LoadInv' /\ \A d \in Caller : Recent(d)
<1> DEFINE done == [loads EXCEPT ![c] = [@ EXCEPT !.look = "done", !.lookup = 0, !.ended = "none"]]
           sleep == [loads EXCEPT ![c] = [@ EXCEPT !.look = "sleep", !.ended = "none"]]
<1>1. PICK l \in {done, sleep} : Become(objects, lru, l)
    BY Zenon DEF Takes
<1>2. /\ l \in [Caller -> Load]
      /\ \A d \in Caller \ {c} : l[d] = loads[d]
      /\ l[c].look = "done" \/ (l[c].look = "sleep" /\ l[c].lookup \in Id)
  <2>1. loads \in [Caller -> Load]
      BY Zenon DEF LoadInv, LoadTypeOK
  <2> DEFINE r == [loads[c] EXCEPT !.look = "done", !.lookup = 0, !.ended = "none"]
             t == [loads[c] EXCEPT !.look = "sleep", !.ended = "none"]
  <2>5. r \in Load /\ r.look = "done"
      BY <2>1 DEF Load
  <2>6. t \in Load /\ t.look = "sleep" /\ t.lookup = loads[c].lookup
      BY Zenon, <2>1 DEF Load
  <2>7. done = [loads EXCEPT ![c] = r] /\ sleep = [loads EXCEPT ![c] = t]
      BY Zenon
  <2> HIDE DEF r, t, done, sleep
  <2>2. CASE l = done
      BY Zenon, <2>1, <2>2, <2>5, <2>7
  <2>3. CASE l = sleep
      BY Zenon, <2>1, <2>3, <2>6, <2>7
  <2>4. QED
      BY Zenon, <1>1, <2>2, <2>3
<1> HIDE DEF done, sleep
<1>3. Served(l[c], objects)
    BY Zenon, <1>2 DEF Served
<1>4. LoadInv'
    BY Zenon, <1>1, <1>2, <1>3, BecomeServes
<1>5. \A d \in Caller : Recent(d)
    BY Zenon, <1>1, <1>2 DEF Become, Recent
<1>6. QED
    BY Zenon, <1>4, <1>5

\* A search ends: everybody who waited for it goes on.
LEMMA SearchKeeps ==
  ASSUME LoadInv, NEW i \in Id,
         SearchFails(i) \/ \E found \in BOOLEAN : SearchEnds(i, found)
  PROVE  LoadInv' /\ \A c \in Caller : Recent(c)
<1> DEFINE Ended(how) ==
      /\ loads' = Notified(i, how)
      /\ lookups' \in [Id -> Lookup]
      /\ how = "found" => lookups'[i].last = "fresh"
      /\ how = "failed" => lookups'[i].last = lookups[i].last
      /\ \A j \in Id \ {i} : lookups'[j] = lookups[j]
<1>1. PICK how \in {"found", "failed"} : Ended(how)
  <2>1. lookups \in [Id -> Lookup]
      BY Zenon DEF LoadInv, LoadTypeOK
  <2>2. CASE SearchFails(i)
    <3>1. Ended("failed")
        BY Zenon, <2>1, <2>2 DEF SearchFails, Lookup
    <3>2. QED
        BY Zenon, <3>1
  <2>3. ASSUME NEW found \in BOOLEAN, SearchEnds(i, found) PROVE Ended("found")
      BY <2>1, <2>3 DEF SearchEnds, Lookup
  <2>4. QED
      BY Zenon, <2>2, <2>3
<1>2. ASSUME NEW c \in Caller
      PROVE  /\ loads'[c] \in Load /\ loads'[c].lookup = loads[c].lookup
             /\ IF loads[c].lookup = i /\ loads[c].look = "get"
                THEN loads'[c].look = "woken" /\ loads'[c].ended = how
                ELSE loads'[c] = loads[c]
    BY Zenon, <1>1 DEF Notified, LoadInv, LoadTypeOK, Load
<1>3. LoadTypeOK'
    BY Zenon, <1>1, <1>2 DEF LoadTypeOK, Notified
<1>4. ASSUME NEW c \in Caller PROVE Served(loads'[c], lookups')
    BY <1>1, <1>2 DEF Served, LoadInv
<1>5. ASSUME NEW c \in Caller PROVE Recent(c)
    BY Zenon, <1>2 DEF Recent
<1>6. QED
    BY Zenon, <1>3, <1>4, <1>5 DEF LoadInv

LEMMA LoadSteps ==
  ASSUME LoadInv, [LoadNext]_load_vars
  PROVE  LoadInv' /\ \A c \in Caller : Recent(c)
<1> USE DEF LoadInv, LoadTypeOK
<1>1. ASSUME NEW c \in Caller, NEW s \in Swarm, LoadBegins(c, s)
      PROVE  LoadInv' /\ \A d \in Caller : Recent(d)
    BY Zenon, <1>1 DEF LoadBegins, NoLoad, Load, Served, Recent
<1>2. ASSUME NEW c \in Caller, NEW copy, NEW head \in BOOLEAN, LocalRead(c, copy, head)
      PROVE  LoadInv' /\ \A d \in Caller : Recent(d)
    BY Zenon, <1>2, ReturnsKeeps, MakeReader DEF LocalRead
<1>3. ASSUME NEW c \in Caller, SessionCreated(c)
      PROVE  LoadInv' /\ \A d \in Caller : Recent(d)
    BY <1>3 DEF SessionCreated, Load, Served, Recent
<1>4. ASSUME NEW c \in Caller, SessionFails(c) \/ Leaves(c)
      PROVE  LoadInv' /\ \A d \in Caller : Recent(d)
    BY Zenon, <1>4, ReturnsKeeps DEF SessionFails, Leaves
<1>5. ASSUME NEW c \in Caller, Asks(c)
      PROVE  LoadInv' /\ \A d \in Caller : Recent(d)
  <2> DEFINE i == loads[c].lookup
             started == [lookups EXCEPT ![i].job = TRUE]
  <2>1. i \in Id
      BY Zenon, <1>5 DEF Asks, Served
  <2>2. started \in [Id -> Lookup] /\ started[i].job
      BY Zenon, <2>1 DEF Lookup
  <2>3. \A j \in Id : /\ lookups[j].job => started[j].job
                      /\ started[j].last = lookups[j].last
      BY Zenon, <2>1 DEF Lookup
  <2>4. CASE is_fresh(i)
    <3>1. Takes(c, started) /\ lookups[i].last = "fresh"
        BY Zenon, <1>5, <2>4 DEF Asks, is_fresh
    <3> HIDE DEF started
    <3>2. QED
        BY Zenon, <2>1, <2>2, <2>3, <3>1, TakesKeeps
  <2>5. CASE ~is_fresh(i)
    <3>1. loads' = [loads EXCEPT ![c].look = "get"] /\ lookups' = started
        BY Zenon, <1>5, <2>5 DEF Asks
    <3> HIDE DEF started
    <3>2. /\ loads' \in [Caller -> Load]
          /\ loads'[c].look = "get" /\ loads'[c].lookup = i
          /\ \A d \in Caller \ {c} : loads'[d] = loads[d]
        BY Zenon, <3>1 DEF Load
    <3>3. ASSUME NEW d \in Caller PROVE Served(loads'[d], lookups')
        BY Zenon, <2>1, <2>2, <2>3, <3>1, <3>2 DEF Served
    <3>4. QED
        BY Zenon, <2>2, <3>1, <3>2, <3>3 DEF Recent
  <2>6. QED
      BY Zenon, <2>4, <2>5
<1>6. ASSUME NEW c \in Caller, GetReturns(c)
      PROVE  LoadInv' /\ \A d \in Caller : Recent(d)
    BY Zenon, <1>6, TakesKeeps DEF GetReturns, Served
<1>7. ASSUME NEW i \in Id, SearchFails(i) \/ \E found \in BOOLEAN : SearchEnds(i, found)
      PROVE  LoadInv' /\ \A d \in Caller : Recent(d)
    BY Zenon, <1>7, SearchKeeps
<1>8. ASSUME NEW i \in Id, Outdated(i)
      PROVE  LoadInv' /\ \A d \in Caller : Recent(d)
  <2>1. /\ lookups' \in [Id -> Lookup]
        /\ \A j \in Id : lookups'[j].job = lookups[j].job
        /\ loads' = loads /\ \A d \in Caller : loads[d].look # "woken"
      BY Zenon, <1>8 DEF Outdated, Lookup
  <2>2. QED
      BY Zenon, <2>1 DEF Served, Recent
<1>9. CASE UNCHANGED load_vars
    BY Zenon, <1>9 DEF load_vars, Served, Recent
<1>10. QED
    BY Zenon, <1>1, <1>2, <1>3, <1>4, <1>5, <1>6, <1>7, <1>8, <1>9 DEF LoadNext

\* A call of PeerLookup::get that waits has a search to wait for, whatever
\* other calls do and even if the client has dropped the lookup.
THEOREM WaitersHaveSearches == LoadSpec => []WaitersAreServed
<1>1. LoadInv => WaitersAreServed
    BY Zenon DEF LoadInv, WaitersAreServed, Served
<1>2. QED
    BY <1>1, LoadInitially, LoadSteps, PTL DEF LoadSpec

\* Peers handed to a reader are at most five minutes old, or the search that
\* PeerLookup::get waited for has failed.
THEOREM ReadersGetRecentPeers == LoadSpec => PeersAreRecent
<1>1. LoadInv /\ [LoadNext]_load_vars
        => [\A c \in Caller :
              loads[c].look # "done" /\ loads'[c].look = "done"
                => lookups[loads[c].lookup].last = "fresh" \/ loads[c].ended = "failed"]_load_vars
    BY Zenon, LoadSteps DEF Recent
<1>2. QED
    BY <1>1, LoadInitially, LoadSteps, PTL DEF LoadSpec, PeersAreRecent

-----------------------------------------------------------------------------
(***************************************************************************)
(* ClientRequest: StaleIsMarked and FreshBeatsOld.                         *)
(***************************************************************************)

\* A result that may be returned: if it has expired or is too old, it is
\* marked, or confirmed, and the fresh response is not on its way any more.
Good(r) ==
  /\ r.entry.expired /\ r.fresh # "304" => r.warn # "none"
  /\ r.entry.old \/ r.entry.expired => r.fresh \in {"error", "304"}

AgeInv == freshR \in {"none", "ok", "error"} /\ Good(resp) /\ Good(sr)

LEMMA DirectIsGood ==
  /\ \A from : Good(Direct(from))
  /\ Good(NoResponse) /\ Good(Failed) /\ Good(Fresh)
BY Zenon DEF Good, Direct, Response, NoEntry, NoResponse, Failed, Fresh

LEMMA JobReturnsGood ==
  ASSUME AgeInv, NEW r, Good(r), JobReturns(r)
  PROVE  Good(resp') /\ Good(sr')
BY Zenon DEF AgeInv, JobReturns, Dispatched, raceVars

LEMMA EndRequestGood ==
  ASSUME NEW next, EndRequest(next)
  PROVE  Good(resp') /\ Good(sr')
BY Zenon, DirectIsGood DEF EndRequest

\* CacheControl::fetch goes on.
LEMMA FetchGood ==
  ASSUME AgeInv, FetchResumes
  PROVE  AgeInv'
<1>1. ASSUME NEW r, Good(r), FetchReturns(r)
      PROVE  AgeInv'
    BY Zenon, <1>1, JobReturnsGood DEF AgeInv, FetchReturns, LeaveFetch
<1>2. ASSUME NEW where, FetchGoesTo(where)
      PROVE  AgeInv'
    BY Zenon, <1>2 DEF AgeInv, FetchGoesTo, raceVars
<1>3. \A e, warn, fresh : /\ Stored(e, warn, fresh).entry = e
                          /\ Stored(e, warn, fresh).warn = warn
                          /\ Stored(e, warn, fresh).fresh = fresh
    BY Zenon DEF Stored, Response
<1>4. CASE Decide
  <2>1. ~storedR.old /\ ~storedR.expired => Good(Stored(storedR, "none", freshR))
      BY <1>3 DEF Good
  <2>2. QED
      BY Zenon, <1>1, <1>2, <1>4, <2>1, DirectIsGood DEF Decide
<1>5. CASE WaitOld
  <2>1. freshR \notin {"none", "ok"} =>
          Good(Stored(storedR, IF storedR.expired THEN "110" ELSE "none", freshR))
      BY <1>3 DEF Good, AgeInv
  <2>2. QED
      BY Zenon, <1>1, <1>5, <2>1, DirectIsGood DEF WaitOld
<1>6. CASE WaitNoEtag
  <2>1. freshR \notin {"none", "ok"} => Good(Stored(storedR, "110", freshR))
      BY <1>3 DEF Good, AgeInv
  <2>2. QED
      BY Zenon, <1>1, <1>6, <2>1, DirectIsGood DEF WaitNoEtag
<1>7. CASE Revalidate
  <2>1. Good(Stored(storedR, "110", "error")) /\ Good(Stored(storedR, "none", "304"))
      BY <1>3 DEF Good
  <2>2. QED
      BY Zenon, <1>1, <1>7, <2>1, DirectIsGood DEF Revalidate
<1>8. CASE ForceFresh
    BY Zenon, <1>1, <1>2, <1>8, DirectIsGood DEF ForceFresh
<1>9. CASE ForceStored
  <2>1. \A e : Good(Stored(e, "111", "error"))
      BY <1>3 DEF Good
  <2>2. QED
      BY Zenon, <1>1, <1>9, <2>1, DirectIsGood DEF ForceStored
<1>10. QED
    BY Zenon, <1>4, <1>5, <1>6, <1>7, <1>8, <1>9 DEF FetchResumes

LEMMA AgeSteps ==
  ASSUME AgeInv, [Next]_vars
  PROVE  AgeInv'
<1> USE DEF streamVars, fetchVars, raceVars
<1>1. CASE UNCHANGED <<resp, sr, freshR>>
    BY Zenon, <1>1 DEF AgeInv
<1>2. ASSUME NEW next, EndRequest(next), UNCHANGED freshR \/ freshR' = "none"
      PROVE  AgeInv'
    BY Zenon, <1>2, EndRequestGood DEF AgeInv
<1>3. ASSUME NEW q \in Requests,
             Unauthorized(q) \/ Connect(q) \/ Upgrade(q) \/ BadRequest(q) \/ Serve(q)
      PROVE  AgeInv'
    BY Zenon, <1>1, <1>3 DEF Unauthorized, Connect, Upgrade, BadRequest, Serve
<1>4. CASE ReadFails \/ WebsocketEnds \/ Fail
    BY Zenon, <1>2, <1>4 DEF ReadFails, WebsocketEnds, Fail
<1>5. CASE ServeThrows
    BY Zenon, <1>2, <1>5 DEF ServeThrows, LeaveFetch
<1>6. CASE Stop \/ PrimaryReturns \/ PrimaryThrows \/ SecondaryStarts \/ Expire
    BY Zenon, <1>1, <1>6 DEF Stop, PrimaryReturns, PrimaryThrows, SecondaryStarts, Expire
<1>7. CASE LeafReturns
  <2>1. PICK r \in Outcomes : JobReturns(r)
      BY Zenon, <1>7 DEF LeafReturns
  <2>2. Good(r)
      BY Zenon, <2>1, DirectIsGood DEF Outcomes
  <2>3. QED
      BY Zenon, <1>7, <2>1, <2>2, JobReturnsGood DEF LeafReturns, AgeInv
<1>8. CASE SecondaryThrows
    BY Zenon, <1>8, DirectIsGood DEF SecondaryThrows, LeaveFetch, AgeInv
<1>9. CASE RaceEnds
    BY Zenon, <1>9, DirectIsGood DEF RaceEnds, Dispatched, AgeInv
<1>10. CASE FetchResumes
    BY Zenon, <1>10, FetchGood
<1>11. CASE Wrap
    BY Zenon, <1>11, DirectIsGood DEF Wrap, AgeInv
<1>12. ASSUME Streamed, UNCHANGED freshR PROVE AgeInv'
    BY Zenon, <1>2, <1>12 DEF Streamed
<1>13. CASE WritePart \/ ReadPart \/ Push
    BY Zenon, <1>1, <1>12, <1>13 DEF WritePart, ReadPart, Push, StreamGoesTo, StreamFails
<1>14. ASSUME NEW i \in Ids, FreshReturns(i)
       PROVE  AgeInv'
    BY Zenon, <1>14 DEF FreshReturns, AgeInv
<1>15. ASSUME NEW i \in Ids, StoredReturns(i) \/ ChildThrows(i) \/ StorePart(i)
       PROVE  AgeInv'
    BY Zenon, <1>1, <1>15 DEF StoredReturns, ChildThrows, StorePart
<1>16. CASE UNCHANGED vars
    BY Zenon, <1>1, <1>16 DEF vars
<1>17. QED
    BY Zenon, <1>3, <1>4, <1>5, <1>6, <1>7, <1>8, <1>9, <1>10, <1>11, <1>13, <1>14, <1>15, <1>16
    DEF Next

LEMMA AgeInvariant == Spec => []AgeInv
<1>1. Init => AgeInv
    BY Zenon, DirectIsGood DEF Init, AgeInv
<1>2. QED
    BY <1>1, AgeSteps, PTL DEF Spec

\* A response from the cache that has expired when CacheControl::fetch returns
\* it carries a warning, unless the injector confirmed it.
THEOREM StaleResponsesAreMarked == Spec => []StaleIsMarked
<1>1. AgeInv => StaleIsMarked
    BY Zenon DEF AgeInv, Good, StaleIsMarked, Pending
<1>2. QED
    BY <1>1, AgeInvariant, PTL

\* A response that is too old or expired is returned only when the attempt to
\* get a fresh one has failed or confirmed it.
THEOREM FreshResponsesWin == Spec => []FreshBeatsOld
<1>1. AgeInv => FreshBeatsOld
    BY Zenon DEF AgeInv, Good, FreshBeatsOld, Pending
<1>2. QED
    BY <1>1, AgeInvariant, PTL

-----------------------------------------------------------------------------
(***************************************************************************)
(* ClientRequest: PushedIsStored.                                          *)
(***************************************************************************)

Part == {"head", "body", "end"}

StoreRecord ==
  [st : {"off", "run", "failed", "stored"}, q : Seq(Part), n : Nat, parts : Nat,
   signed : BOOLEAN]

\* The queue of a storing coroutine that runs: one part in front, only ends
\* behind it, and whatever was pushed is written or in front.
Queue(s) ==
  /\ \A k \in 2 .. Len(s.q) : s.q[k] = "end"
  /\ s.n + (IF s.q # << >> /\ Head(s.q) = "body" THEN 1 ELSE 0) = s.parts

StoreOK(s) ==
  /\ s \in StoreRecord
  /\ s.st = "run" => Queue(s)
  /\ s.st = "stored" => s.n = s.parts

\* No end has been pushed into the queue of the response that is streamed.
Open(s) ==
  /\ s.st # "stored"
  /\ s.st = "run" => s.q \in {<< >>, <<"head">>, <<"body">>}

StoresOK ==
  /\ rid \in Nat
  /\ DOMAIN stores = Ids
  /\ stores = [i \in Ids |-> stores[i]]
  /\ \A i \in Ids : StoreOK(stores[i]) /\ (i > rid => stores[i].st = "off")

StreamOK ==
  /\ pc \notin {"read", "end"} => rid \in Ids
  /\ pc \in {"job", "race", "wrap"} => stores[rid].st = "off"
  /\ pc = "stream" => Open(stores[rid])

StoreInv == StoresOK /\ StreamOK

\* What becomes of one storing coroutine.
LEMMA AddEnd ==
  ASSUME NEW s, StoreOK(s)
  PROVE  /\ StoreOK([s EXCEPT !.q = Append(@, "end")])
         /\ [s EXCEPT !.q = Append(@, "end")].st = s.st
<1>1. s.q \in Seq(Part) /\ s.n \in Nat /\ s.parts \in Nat
    BY Zenon DEF StoreOK, StoreRecord
<1> DEFINE t == [s EXCEPT !.q = Append(@, "end")]
<1>2. t \in StoreRecord /\ t.q = Append(s.q, "end") /\ t.st = s.st /\ t.n = s.n
      /\ t.parts = s.parts
    BY <1>1 DEF StoreOK, StoreRecord, Part
<1>3. ASSUME s.st = "run" PROVE Queue(t)
  <2>1. Queue(s)
      BY Zenon, <1>3 DEF StoreOK
  <2>2. \A k \in 2 .. Len(t.q) : t.q[k] = "end"
      BY <1>1, <1>2, <2>1 DEF Queue
  <2>3. CASE s.q = << >>
    <3>1. t.q # << >> /\ Head(t.q) = "end"
        BY <1>1, <1>2, <2>3
    <3>2. QED
        BY Zenon, <1>1, <1>2, <2>1, <2>2, <2>3, <3>1 DEF Queue
  <2>4. CASE s.q # << >>
    <3>1. t.q # << >> /\ Head(t.q) = Head(s.q)
        BY <1>1, <1>2, <2>4
    <3>2. QED
        BY Zenon, <1>1, <1>2, <2>1, <2>2, <2>4, <3>1 DEF Queue
  <2>5. QED
      BY Zenon, <2>3, <2>4
<1>4. QED
    BY Zenon, <1>2, <1>3 DEF StoreOK

LEMMA DropQueue ==
  ASSUME NEW s, StoreOK(s), s.st # "run"
  PROVE  /\ StoreOK([s EXCEPT !.q = << >>])
         /\ [s EXCEPT !.q = << >>].st = s.st
<1>1. << >> \in Seq(Part)
    OBVIOUS
<1>2. [s EXCEPT !.q = << >>] \in StoreRecord
    BY Zenon, <1>1 DEF StoreOK, StoreRecord
<1>3. QED
    BY Zenon, <1>2 DEF StoreOK, StoreRecord

LEMMA PushBody ==
  ASSUME NEW s, StoreOK(s), Open(s), Len(s.q) < 1
  PROVE  /\ StoreOK([s EXCEPT !.q = Append(@, "body"), !.parts = @ + 1])
         /\ Open([s EXCEPT !.q = Append(@, "body"), !.parts = @ + 1])
         /\ [s EXCEPT !.q = Append(@, "body"), !.parts = @ + 1].st = s.st
<1>1. s.q \in Seq(Part) /\ s.n \in Nat /\ s.parts \in Nat /\ s.q = << >>
    BY DEF StoreOK, StoreRecord
<1> DEFINE t == [s EXCEPT !.q = Append(@, "body"), !.parts = @ + 1]
<1>2. t \in StoreRecord /\ t.q = <<"body">> /\ t.st = s.st /\ t.n = s.n
      /\ t.parts = s.parts + 1
  <2>1. Append(s.q, "body") = <<"body">> /\ <<"body">> \in Seq(Part)
      BY <1>1 DEF Part
  <2>2. t.q = Append(s.q, "body") /\ t.st = s.st /\ t.n = s.n /\ t.parts = s.parts + 1
      BY Zenon DEF StoreOK, StoreRecord
  <2>3. Append(s.q, "body") \in Seq(Part) /\ s.parts + 1 \in Nat
      BY <1>1, <2>1
  <2>4. t \in StoreRecord
      BY Zenon, <2>3 DEF StoreOK, StoreRecord
  <2>5. QED
      BY Zenon, <2>1, <2>2, <2>4
<1>3. s.st = "run" => Queue(t)
    BY <1>1, <1>2 DEF StoreOK, Queue
<1>4. QED
    BY Zenon, <1>2, <1>3 DEF StoreOK, Open

\* The storing coroutine goes on.
Popped(s, ok) ==
  LET t == [s EXCEPT !.q = Tail(@)]
      p == Head(s.q)
  IN  CASE ~ok -> [t EXCEPT !.st = "failed"]
        [] ok /\ p = "body" -> [t EXCEPT !.n = @ + 1]
        [] ok /\ p = "end" -> [t EXCEPT !.st = "stored", !.q = << >>]
        [] OTHER -> t

LEMMA PopPart ==
  ASSUME NEW s, StoreOK(s), s.st = "run", s.q # << >>, NEW ok \in BOOLEAN
  PROVE  /\ StoreOK(Popped(s, ok))
         /\ Open(s) => Open(Popped(s, ok))
<1>1. s.q \in Seq(Part) /\ s.n \in Nat /\ s.parts \in Nat /\ s \in StoreRecord /\ Queue(s)
    BY Zenon DEF StoreOK, StoreRecord
<1> DEFINE t == [s EXCEPT !.q = Tail(@)]
<1>2. Head(s.q) \in Part /\ Tail(s.q) \in Seq(Part)
      /\ (\A k \in 1 .. Len(Tail(s.q)) : Tail(s.q)[k] = "end")
    BY <1>1 DEF Queue
<1>3. t \in StoreRecord /\ t.q = Tail(s.q) /\ t.st = "run" /\ t.n = s.n /\ t.parts = s.parts
    BY Zenon, <1>1, <1>2 DEF StoreRecord
<1>4. Tail(s.q) # << >> => Head(Tail(s.q)) = "end"
  <2>1. ASSUME NEW q \in Seq(Part), q # << >>
        PROVE  Head(q) = q[1] /\ 1 \in 1 .. Len(q)
      BY <2>1
  <2>2. QED
      BY Zenon, <1>2, <2>1
<1>5. s.q \in {<<"head">>, <<"body">>} => Tail(s.q) = << >> /\ Head(s.q) # "end"
  <2>1. \A x : Len(<<x>>) = 1 /\ Head(<<x>>) = x
      OBVIOUS
  <2>2. ASSUME NEW x \in {"head", "body"}, s.q = <<x>>
        PROVE  Len(Tail(s.q)) = 0 /\ Head(s.q) # "end"
    <3>1. Len(s.q) = 1 /\ Head(s.q) = x
        BY Zenon, <2>1, <2>2
    <3>2. Len(Tail(s.q)) = Len(s.q) - 1
        BY <1>1
    <3>3. QED
        BY <3>1, <3>2
  <2>3. Len(Tail(s.q)) = 0 => Tail(s.q) = << >>
    <3>1. \A q \in Seq(Part) : Len(q) = 0 => q = << >>
        OBVIOUS
    <3>2. QED
        BY Zenon, <1>2, <3>1
  <2>4. s.q \in {<<"head">>, <<"body">>} => \E x \in {"head", "body"} : s.q = <<x>>
      BY Zenon
  <2>5. QED
      BY Zenon, <2>2, <2>3, <2>4
<1> HIDE DEF t
<1>6. CASE ~ok
    BY Zenon, <1>3, <1>6 DEF Popped, t, StoreOK, StoreRecord, Open
<1>7. CASE ok /\ Head(s.q) = "body"
  <2> DEFINE u == [t EXCEPT !.n = @ + 1]
  <2>1. Popped(s, ok) = u
      BY Zenon, <1>7 DEF Popped, t
  <2>2. u \in StoreRecord /\ u.st = "run" /\ u.q = Tail(s.q) /\ u.n = s.n + 1
        /\ u.parts = s.parts
      BY <1>3 DEF StoreRecord
  <2> HIDE DEF u
  <2>3. s.n + 1 = s.parts
      BY Zenon, <1>1, <1>7 DEF Queue
  <2>4. Queue(u)
      BY <1>1, <1>2, <1>4, <2>2, <2>3 DEF Queue
  <2>5. QED
      BY Zenon, <1>5, <2>1, <2>2, <2>4 DEF StoreOK, Open
<1>8. CASE ok /\ Head(s.q) = "end"
  <2>1. Popped(s, ok) = [t EXCEPT !.st = "stored", !.q = << >>]
      BY Zenon, <1>8 DEF Popped, t
  <2>2. s.n = s.parts
      BY <1>1, <1>8 DEF Queue
  <2>3. << >> \in Seq(Part)
      OBVIOUS
  <2>4. [t EXCEPT !.st = "stored", !.q = << >>] \in StoreRecord
      BY Zenon, <1>3, <2>3 DEF StoreRecord
  <2>5. StoreOK([t EXCEPT !.st = "stored", !.q = << >>])
      BY Zenon, <1>3, <2>2, <2>4 DEF StoreOK, StoreRecord
  <2>6. ~Open(s)
      BY Zenon, <1>5, <1>8 DEF Open
  <2>7. QED
      BY Zenon, <2>1, <2>5, <2>6
<1>9. CASE ok /\ Head(s.q) = "head"
  <2>1. Popped(s, ok) = t
      BY Zenon, <1>9 DEF Popped, t
  <2>2. Queue(t)
      BY <1>1, <1>2, <1>3, <1>4, <1>9 DEF Queue
  <2>3. QED
      BY Zenon, <1>3, <1>5, <2>1, <2>2 DEF StoreOK, Open
<1>10. QED
    BY Zenon, <1>2, <1>6, <1>7, <1>8, <1>9 DEF Part

\* A step that replaces the storing coroutine of request i.
LEMMA OneStore ==
  ASSUME StoresOK, NEW i \in Ids, NEW s, StoreOK(s), i <= rid \/ s.st = "off",
         stores' = [stores EXCEPT ![i] = s], rid' = rid
  PROVE  StoresOK' /\ stores'[i] = s /\ \A j \in Ids \ {i} : stores'[j] = stores[j]
<1>1. \A j \in Ids : stores'[j] = IF j = i THEN s ELSE stores[j]
    BY Zenon DEF StoresOK
<1>2. DOMAIN stores' = Ids /\ stores' = [j \in Ids |-> stores'[j]]
    BY Zenon DEF StoresOK
<1>3. \A j \in Ids : StoreOK(stores'[j]) /\ (j > rid => stores'[j].st = "off")
    BY <1>1, RequestsAssumption DEF StoresOK, Ids
<1>4. Ids' = Ids
    BY Zenon DEF Ids
<1>5. QED
    BY Zenon, <1>1, <1>2, <1>3, <1>4 DEF StoresOK, StoreOK, StoreRecord, Queue

LEMMA RunningIsNow ==
  ASSUME StoresOK, NEW i \in Ids, stores[i].st # "off"
  PROVE  i <= rid
BY RequestsAssumption DEF StoresOK, Ids

LEMMA EndRequestStores ==
  ASSUME StoreInv, NEW next \in {"read", "end"}, EndRequest(next), pc # "end", rid' = rid
  PROVE  StoreInv'
<1>1. pc' \in {"read", "end"}
    BY Zenon DEF EndRequest
<1>2. StreamOK'
    BY Zenon, <1>1 DEF StreamOK
<1>3. CASE pc = "read"
    BY Zenon, <1>2, <1>3 DEF EndRequest, StoreInv, StoresOK, StoreOK, StoreRecord, Queue, Ids
<1>4. CASE pc # "read"
  <2>1. rid \in Ids /\ StoresOK /\ StoreOK(stores[rid]) /\ rid <= rid
      BY <1>4, RequestsAssumption DEF StoreInv, StoresOK, StreamOK, Ids
  <2>2. CASE stores[rid].st = "run"
    <3>1. stores' = [stores EXCEPT ![rid] = [stores[rid] EXCEPT !.q = Append(@, "end")]]
        BY Zenon, <1>4, <2>1, <2>2 DEF EndRequest, CloseReader, StoresOK
    <3>2. QED
        BY Zenon, <1>2, <2>1, <3>1, AddEnd, OneStore DEF StoreInv
  <2>3. CASE stores[rid].st # "run"
    <3>1. stores' = [stores EXCEPT ![rid] = [stores[rid] EXCEPT !.q = << >>]]
        BY Zenon, <1>4, <2>1, <2>3 DEF EndRequest, CloseReader, StoresOK
    <3>2. QED
        BY Zenon, <1>2, <2>1, <2>3, <3>1, DropQueue, OneStore DEF StoreInv
  <2>4. QED
      BY Zenon, <2>2, <2>3
<1>5. QED
    BY Zenon, <1>3, <1>4

\* A step that leaves the storing coroutines alone.
LEMMA SameStores ==
  ASSUME StoreInv, UNCHANGED <<rid, stores>>,
         \/ UNCHANGED pc
         \/ pc \in {"job", "race"} /\ pc' \in {"wrap", "fail"}
         \/ pc = "stream" /\ pc' = "fail"
  PROVE  StoreInv'
BY Zenon DEF StoreInv, StoresOK, StreamOK, StoreOK, StoreRecord, Queue, Open, Ids

\* A request is read.
LEMMA ReadStores ==
  ASSUME StoreInv, NEW q \in Requests, Read(q), UNCHANGED stores, pc' # "wrap",
         pc' # "stream"
  PROVE  StoreInv'
<1>1. rid \in Nat /\ rid' = rid + 1 /\ rid' \in Ids /\ rid' > rid
    BY RequestsAssumption DEF Read, StoreInv, StoresOK, Ids
<1>2. \A i \in Ids : i > rid' => i > rid
    BY <1>1, RequestsAssumption DEF Ids
<1>3. stores'[rid'].st = "off"
    BY Zenon, <1>1 DEF StoreInv, StoresOK
<1>4. StoresOK'
    BY <1>1, <1>2 DEF StoreInv, StoresOK, StoreOK, StoreRecord, Queue, Ids
<1>5. StreamOK'
    BY Zenon, <1>1, <1>3 DEF StreamOK, Ids
<1>6. QED
    BY Zenon, <1>4, <1>5 DEF StoreInv

LEMMA JobReturnsStores ==
  ASSUME StoreInv, NEW r, JobReturns(r), UNCHANGED <<rid, stores>>, JobRuns
  PROVE  StoreInv'
<1>1. \/ UNCHANGED pc
      \/ pc \in {"job", "race"} /\ pc' \in {"wrap", "fail"}
    BY Zenon DEF JobReturns, Dispatched, JobRuns
<1>2. QED
    BY Zenon, <1>1, SameStores

LEMMA WrapStores ==
  ASSUME StoreInv, Wrap
  PROVE  StoreInv'
<1>1. rid \in Ids /\ rid' = rid /\ rid <= rid /\ stores[rid].st = "off" /\ pc' = "stream"
    BY RequestsAssumption DEF StoreInv, StreamOK, Wrap, Ids
<1>2. CASE UNCHANGED stores
    BY Zenon, <1>1, <1>2 DEF StoreInv, StoresOK, StreamOK, StoreOK, StoreRecord, Queue, Open, Ids
<1>3. ASSUME NEW signed \in BOOLEAN,
             stores' = [stores EXCEPT ![rid] =
                          [NoStore EXCEPT !.st = "run", !.q = <<"head">>, !.signed = signed]]
      PROVE  StoreInv'
  <2> DEFINE s == [NoStore EXCEPT !.st = "run", !.q = <<"head">>, !.signed = signed]
  <2>1. s.st = "run" /\ s.q = <<"head">> /\ s.n = 0 /\ s.parts = 0
        /\ s \in [st : {"run"}, q : {<<"head">>}, n : Nat, parts : Nat, signed : BOOLEAN]
      BY Zenon DEF NoStore
  <2>2. <<"head">> \in Seq(Part) /\ Len(<<"head">>) = 1 /\ Head(<<"head">>) = "head"
      BY DEF Part
  <2> HIDE DEF s
  <2>3. s \in StoreRecord
      BY Zenon, <2>1, <2>2 DEF StoreRecord
  <2>4. Queue(s)
      BY <2>1, <2>2 DEF Queue
  <2>5. StoreOK(s) /\ Open(s)
      BY Zenon, <2>1, <2>3, <2>4 DEF StoreOK, Open
  <2>6. StoresOK' /\ stores'[rid] = s
      BY Zenon, <1>1, <1>3, <2>5, OneStore DEF StoreInv, s
  <2>7. StreamOK'
      BY Zenon, <1>1, <2>5, <2>6 DEF StreamOK, Ids, Open
  <2>8. QED
      BY Zenon, <2>6, <2>7 DEF StoreInv
<1>4. QED
    BY Zenon, <1>2, <1>3 DEF Wrap

LEMMA ReadPartStores ==
  ASSUME StoreInv, ReadPart
  PROVE  StoreInv'
<1>1. pc = "stream" /\ rid' = rid /\ rid \in Ids /\ StoreOK(stores[rid])
    BY Zenon DEF StoreInv, StoresOK, StreamOK, ReadPart
<1>2. CASE Streamed
    BY Zenon, <1>1, <1>2, EndRequestStores DEF Streamed
<1>3. ASSUME NEW where, StreamGoesTo(where), UNCHANGED stores
      PROVE  StoreInv'
    BY Zenon, <1>1, <1>3, SameStores DEF StreamGoesTo
<1>4. ASSUME StreamFails, UNCHANGED stores
      PROVE  StoreInv'
    BY Zenon, <1>1, <1>4, SameStores DEF StreamFails
<1>5. ASSUME StreamFails, Storing, stores' = [stores EXCEPT ![rid].q = Append(@, "end")]
      PROVE  StoreInv'
  <2>1. stores' = [stores EXCEPT ![rid] = [stores[rid] EXCEPT !.q = Append(@, "end")]]
      BY Zenon, <1>1, <1>5 DEF StoreInv, StoresOK
  <2>2. rid <= rid
      BY <1>1, RequestsAssumption DEF Ids
  <2>3. StoresOK'
      BY Zenon, <1>1, <2>1, <2>2, AddEnd, OneStore DEF StoreInv
  <2>4. StreamOK'
      BY Zenon, <1>1, <1>5 DEF StreamOK, StreamFails, Ids
  <2>5. QED
      BY Zenon, <2>3, <2>4 DEF StoreInv
<1>6. QED
    BY Zenon, <1>2, <1>3, <1>4, <1>5 DEF ReadPart

LEMMA PushStores ==
  ASSUME StoreInv, Push
  PROVE  StoreInv'
<1>1. /\ pc = "stream" /\ rid' = rid /\ rid \in Ids /\ StoreOK(stores[rid])
      /\ Open(stores[rid]) /\ Len(stores[rid].q) < 1 /\ rid <= rid
    BY RequestsAssumption DEF StoreInv, StoresOK, StreamOK, Push, Ids
<1>2. CASE Streamed
    BY Zenon, <1>1, <1>2, EndRequestStores DEF Streamed
<1>3. ASSUME StreamGoesTo("write"),
             stores' = [stores EXCEPT ![rid].q = Append(@, "body"), ![rid].parts = @ + 1]
      PROVE  StoreInv'
  <2> DEFINE s == [stores[rid] EXCEPT !.q = Append(@, "body"), !.parts = @ + 1]
  <2>1. stores' = [stores EXCEPT ![rid] = s]
      BY Zenon, <1>1, <1>3 DEF StoreInv, StoresOK
  <2>2. StoreOK(s) /\ Open(s)
      BY Zenon, <1>1, PushBody
  <2> HIDE DEF s
  <2>3. StoresOK' /\ stores'[rid] = s
      BY Zenon, <1>1, <2>1, <2>2, OneStore DEF StoreInv
  <2>4. StreamOK'
      BY Zenon, <1>1, <1>3, <2>2, <2>3 DEF StreamOK, StreamGoesTo, Ids, Open
  <2>5. QED
      BY Zenon, <2>3, <2>4 DEF StoreInv
<1>4. QED
    BY Zenon, <1>2, <1>3 DEF Push

LEMMA StorePartStores ==
  ASSUME StoreInv, NEW i \in Ids, StorePart(i)
  PROVE  StoreInv'
<1>1. /\ stores[i].st = "run" /\ stores[i].q # << >> /\ StoreOK(stores[i])
      /\ i <= rid /\ UNCHANGED <<pc, rid>>
    BY Zenon, RunningIsNow DEF StorePart, StoreInv, StoresOK, serveVars
<1>2. PICK ok \in BOOLEAN : stores' = [stores EXCEPT ![i] = Popped(stores[i], ok)]
    BY Zenon DEF StorePart, Popped
<1>3. StoreOK(Popped(stores[i], ok)) /\ (Open(stores[i]) => Open(Popped(stores[i], ok)))
    BY Zenon, <1>1, PopPart
<1>4. /\ StoresOK' /\ stores'[i] = Popped(stores[i], ok)
      /\ \A j \in Ids \ {i} : stores'[j] = stores[j]
    BY Zenon, <1>1, <1>2, <1>3, OneStore DEF StoreInv
<1>5. StreamOK'
  <2>1. pc \in {"job", "race", "wrap"} => rid # i
      BY Zenon, <1>1 DEF StoreInv, StreamOK
  <2>2. pc = "stream" => Open(stores[rid])'
      BY Zenon, <1>1, <1>3, <1>4 DEF StoreInv, StreamOK, Open
  <2>3. QED
      BY Zenon, <1>1, <1>4, <2>1, <2>2 DEF StoreInv, StreamOK, Ids
<1>6. QED
    BY Zenon, <1>4, <1>5 DEF StoreInv

LEMMA StoreSteps ==
  ASSUME StoreInv, [Next]_vars
  PROVE  StoreInv'
<1> USE DEF serveVars, streamVars, fetchVars, raceVars
<1>1. CASE UNCHANGED <<pc, rid, stores>>
    BY Zenon, <1>1, SameStores
<1>2. ASSUME NEW q \in Requests,
             Unauthorized(q) \/ Connect(q) \/ Upgrade(q) \/ BadRequest(q) \/ Serve(q)
      PROVE  StoreInv'
  <2>1. Read(q) /\ UNCHANGED stores /\ pc' # "wrap" /\ pc' # "stream"
      BY Zenon, <1>2 DEF Unauthorized, Connect, Upgrade, BadRequest, Serve, Read
  <2>2. QED
      BY Zenon, <2>1, ReadStores
<1>3. CASE ReadFails \/ WebsocketEnds \/ Fail \/ ServeThrows
    BY Zenon, <1>3, EndRequestStores DEF ReadFails, WebsocketEnds, Fail, ServeThrows
<1>4. CASE Stop \/ PrimaryReturns \/ PrimaryThrows \/ SecondaryStarts \/ SecondaryThrows
           \/ Expire
    BY Zenon, <1>1, <1>4 DEF Stop, PrimaryReturns, PrimaryThrows, SecondaryStarts,
                      SecondaryThrows, Expire
<1>5. CASE LeafReturns
    BY Zenon, <1>5, JobReturnsStores DEF LeafReturns
<1>6. CASE RaceEnds
    BY Zenon, <1>6, SameStores DEF RaceEnds, Dispatched
<1>7. CASE FetchResumes
  <2>1. ASSUME NEW r, FetchReturns(r) PROVE StoreInv'
      BY Zenon, <1>7, <2>1, JobReturnsStores DEF FetchResumes, FetchReturns
  <2>2. ASSUME NEW where, FetchGoesTo(where) PROVE StoreInv'
      BY Zenon, <1>1, <1>7, <2>2 DEF FetchResumes, FetchGoesTo
  <2>3. QED
      BY Zenon, <1>7, <2>1, <2>2
      DEF FetchResumes, Decide, WaitOld, WaitNoEtag, Revalidate, ForceFresh, ForceStored
<1>8. CASE Wrap \/ ReadPart \/ Push
    BY Zenon, <1>8, WrapStores, ReadPartStores, PushStores
<1>9. CASE WritePart
  <2>1. CASE Streamed
      BY Zenon, <1>9, <2>1, EndRequestStores DEF Streamed, WritePart
  <2>2. CASE StreamGoesTo("read") /\ UNCHANGED stores
      BY Zenon, <1>1, <1>9, <2>2 DEF StreamGoesTo, WritePart
  <2>3. CASE StreamFails /\ UNCHANGED stores
      BY Zenon, <1>9, <2>3, SameStores DEF StreamFails, WritePart
  <2>4. QED
      BY Zenon, <1>9, <2>1, <2>2, <2>3 DEF WritePart
<1>10. ASSUME NEW i \in Ids, FreshReturns(i) \/ StoredReturns(i) \/ ChildThrows(i)
       PROVE  StoreInv'
    BY Zenon, <1>1, <1>10 DEF FreshReturns, StoredReturns, ChildThrows
<1>11. ASSUME NEW i \in Ids, StorePart(i)
       PROVE  StoreInv'
    BY Zenon, <1>11, StorePartStores
<1>12. CASE UNCHANGED vars
    BY Zenon, <1>1, <1>12 DEF vars
<1>13. QED
    BY Zenon, <1>2, <1>3, <1>4, <1>5, <1>6, <1>7, <1>8, <1>9, <1>10, <1>11, <1>12 DEF Next

LEMMA StoreInitially == Init => StoreInv
<1>1. << >> \in Seq(Part)
    OBVIOUS
<1>2. NoStore \in StoreRecord /\ NoStore.st = "off"
    BY Zenon, <1>1 DEF NoStore, StoreRecord
<1>3. QED
    BY <1>2 DEF Init, StoreInv, StoresOK, StreamOK, StoreOK

LEMMA StoreInvariant == Spec => []StoreInv
BY StoreInitially, StoreSteps, PTL DEF Spec

\* Whatever StoringReader pushed before it was destroyed, its storing coroutine
\* has written when it reports success.
THEOREM PushesAreStored == Spec => []PushedIsStored
<1>1. StoreInv => PushedIsStored
    BY Zenon DEF StoreInv, StoresOK, StoreOK, PushedIsStored
<1>2. QED
    BY <1>1, StoreInvariant, PTL

-----------------------------------------------------------------------------
(***************************************************************************)
(* ClientRequest: PrivateStaysPrivate.                                     *)
(***************************************************************************)

PublicJobs == {"public", "dcache"}

\* The coroutines: those of a race run only while the client waits for it, and
\* CacheControl::fetch is suspended only in a job.
RaceInv ==
  /\ kid \in [primary : {"off", "run", "cancelled"},
              secondary : {"off", "delay", "run", "cancelled"}]
  /\ kid.secondary \in {"delay", "run"} => pc = "race" /\ ~stopped
  /\ cc # "none" => pc \in {"job", "race"} \/ (pc = "end" /\ stopped)
  /\ pc = "race" /\ kid.secondary \in {"off", "delay"} => cc = "none"

LEMMA JobReturnsRace ==
  ASSUME RaceInv, NEW r, JobRuns, JobReturns(r), UNCHANGED stopped, cc' = "none"
  PROVE  RaceInv'
BY DEF RaceInv, JobReturns, Dispatched, JobRuns, Cancelled, raceVars

LEMMA EndRequestRace ==
  ASSUME RaceInv, NEW next \in {"read", "end"}, EndRequest(next), UNCHANGED <<stopped, kid>>,
         pc \notin {"job", "race", "end"}, UNCHANGED cc
  PROVE  RaceInv'
BY Zenon DEF RaceInv, EndRequest

LEMMA RaceSteps ==
  ASSUME RaceInv, [Next]_vars
  PROVE  RaceInv'
<1> USE DEF serveVars, streamVars, fetchVars, raceVars
<1>1. CASE UNCHANGED <<kid, pc, stopped, cc>>
    BY Zenon, <1>1 DEF RaceInv
<1>2. ASSUME NEW q \in Requests,
             Unauthorized(q) \/ Connect(q) \/ Upgrade(q) \/ BadRequest(q)
      PROVE  RaceInv'
  <2>1. pc = "read" /\ UNCHANGED <<kid, stopped, cc>> /\ pc' \in {"read", "end", "websocket"}
      BY Zenon, <1>2 DEF Unauthorized, Connect, Upgrade, BadRequest, Read
  <2>2. QED
      BY Zenon, <2>1 DEF RaceInv
<1>3. ASSUME NEW q \in Requests, Serve(q)
      PROVE  RaceInv'
  <2>1. pc = "read" /\ ~stopped /\ ~stopped' /\ cc = "none"
        /\ kid.secondary \notin {"delay", "run"}
      BY Zenon, <1>3 DEF Serve, Read, RaceInv
  <2>2. CASE pc' = "fail" /\ UNCHANGED <<kid, cc>>
      BY Zenon, <2>1, <2>2 DEF RaceInv
  <2>3. CASE pc' = "race" /\ kid' = [primary |-> "run", secondary |-> "delay"] /\ UNCHANGED cc
      BY Zenon, <2>1, <2>3 DEF RaceInv
  <2>4. CASE pc' = "job" /\ UNCHANGED kid
      BY Zenon, <2>1, <2>4 DEF RaceInv
  <2>5. QED
      BY Zenon, <1>3, <2>2, <2>3, <2>4 DEF Serve
<1>4. CASE ReadFails \/ WebsocketEnds \/ Fail
    BY Zenon, <1>4, EndRequestRace DEF ReadFails, WebsocketEnds, Fail
<1>5. CASE Stop
  <2>1. kid' = [primary |-> Cancelled(kid.primary), secondary |-> Cancelled(kid.secondary)]
      BY Zenon, <1>5 DEF Stop, RaceInv
  <2>2. QED
      BY Zenon, <1>5, <2>1 DEF Stop, RaceInv, Cancelled
<1>6. CASE ServeThrows
    BY Zenon, <1>6 DEF ServeThrows, LeaveFetch, EndRequest, RaceInv
<1>7. CASE LeafReturns
    BY Zenon, <1>7, JobReturnsRace DEF LeafReturns
<1>8. CASE PrimaryReturns \/ PrimaryThrows
    BY <1>8 DEF PrimaryReturns, PrimaryThrows, RaceInv, Cancelled
<1>9. CASE SecondaryStarts
    BY Zenon, <1>9 DEF SecondaryStarts, RaceInv
<1>10. CASE SecondaryThrows
    BY Zenon, <1>10 DEF SecondaryThrows, LeaveFetch, RaceInv
<1>11. CASE RaceEnds
    BY Zenon, <1>11 DEF RaceEnds, Dispatched, NoKids, RaceInv
<1>12. CASE FetchResumes
  <2>1. ASSUME NEW r, FetchReturns(r) PROVE RaceInv'
      BY Zenon, <1>12, <2>1, JobReturnsRace DEF FetchResumes, FetchReturns, LeaveFetch
  <2>2. ASSUME NEW where, FetchGoesTo(where) PROVE RaceInv'
      BY Zenon, <1>12, <2>2 DEF FetchResumes, FetchGoesTo, RaceInv, JobRuns
  <2>3. QED
      BY Zenon, <1>12, <2>1, <2>2
      DEF FetchResumes, Decide, WaitOld, WaitNoEtag, Revalidate, ForceFresh, ForceStored
<1>13. CASE Wrap
    BY Zenon, <1>13 DEF Wrap, RaceInv
<1>14. CASE WritePart \/ ReadPart \/ Push
  <2>1. pc = "stream" /\ UNCHANGED <<stopped, kid, cc>>
      BY Zenon, <1>14 DEF WritePart, ReadPart, Push
  <2>2. pc' \in {"read", "end", "stream", "fail"}
      BY Zenon, <1>14, <2>1
      DEF WritePart, ReadPart, Push, StreamGoesTo, StreamFails, Streamed, EndRequest
  <2>3. QED
      BY Zenon, <2>1, <2>2 DEF RaceInv
<1>15. CASE Expire
    BY Zenon, <1>1, <1>15 DEF Expire
<1>16. ASSUME NEW i \in Ids,
              FreshReturns(i) \/ StoredReturns(i) \/ ChildThrows(i) \/ StorePart(i)
       PROVE  RaceInv'
    BY Zenon, <1>1, <1>16 DEF FreshReturns, StoredReturns, ChildThrows, StorePart
<1>17. CASE UNCHANGED vars
    BY Zenon, <1>1, <1>17 DEF vars
<1>18. QED
    BY Zenon, <1>2, <1>3, <1>4, <1>5, <1>6, <1>7, <1>8, <1>9, <1>10, <1>11, <1>12, <1>13, <1>14,
       <1>15, <1>16, <1>17 DEF Next

LEMMA RaceInvariant == Spec => []RaceInv
<1>1. Init => RaceInv
    BY DEF Init, RaceInv, NoKids
<1>2. QED
    BY <1>1, RaceSteps, PTL DEF Spec

\* The route of a request that must not be cached names no public mechanism,
\* whatever the request asks for and the configuration allows.
LEMMA PrivateRoutes ==
  ASSUME NEW q \in Requests, NEW c
  PROVE  /\ choose(q, c) \subseteq Mechanisms
         /\ NotCacheable(q) => choose(q, c) \cap PublicJobs = {}
<1>1. Mechanisms = {"front_end", "origin", "blind", "public", "dcache"}
    BY Zenon DEF Mechanisms, Routes, FrontEnd, Origin
<1>2. \A r \in Routes \cup {{}} : r \subseteq Mechanisms
    BY Zenon DEF Mechanisms
<1>3. \A r : r \subseteq Mechanisms =>
        /\ apply_safety_restrictions(r, q, c) \subseteq Mechanisms
        /\ NotCacheable(q) => apply_safety_restrictions(r, q, c) \cap PublicJobs = {}
    BY Zenon, <1>1 DEF apply_safety_restrictions, public_to_private, FrontEnd, Origin, PublicJobs
<1>4. \A r : apply_config_restrictions(r, c) \subseteq r
    BY Zenon DEF apply_config_restrictions
<1> DEFINE asked == IF q.field = {} THEN {"origin", "public", "dcache"} ELSE q.field
<1>5. asked \subseteq Mechanisms
    BY Zenon, <1>1, <1>2, RequestsAssumption
<1>6. choose(q, c) \subseteq apply_safety_restrictions(asked, q, c)
    BY Zenon, <1>4 DEF choose
<1> HIDE DEF asked
<1>7. QED
    BY Zenon, <1>3, <1>5, <1>6

\* Nothing of a request that must not be cached is public: neither its route, nor
\* the mechanisms it contacted, nor a response of its.
PrivateInv ==
  /\ NotCacheable(req) => /\ used \cap PublicJobs = {}
                          /\ route \cap PublicJobs = {}
                          /\ resp.from \notin Shared
                          /\ sr.from \notin Shared
                          /\ pc \in {"job", "race"} => cc = "none"
                          /\ pc = "stream" => stores[rid].st = "off"
  /\ route \subseteq Mechanisms
  /\ pc = "read" => /\ resp.from \notin Shared
                    /\ sr.from \notin Shared
                    /\ used = {}
                    /\ route = {}

LEMMA DirectIsPrivate ==
  /\ \A from : Direct(from).from = from
  /\ NoResponse.from \notin Shared
  /\ Failed.from \notin Shared
  /\ \A m \in Mechanisms : m \notin Shared
BY Zenon DEF Direct, Response, NoResponse, Failed, Shared, Mechanisms, Routes, FrontEnd, Origin

LEMMA EndRequestPrivate ==
  ASSUME NEW next \in {"read", "end"}, EndRequest(next)
  PROVE  PrivateInv'
BY Zenon, DirectIsPrivate DEF EndRequest, PrivateInv, Shared

\* A private job contacts no public mechanism, and not through CacheControl.
LEMMA PrivateJobs ==
  ASSUME NEW job, job \cap PublicJobs = {}, NEW i, NEW q, StartJob(job, i, q),
         used \cap PublicJobs = {}
  PROVE  used' \cap PublicJobs = {} /\ cc' = cc
BY Zenon DEF StartJob, PublicJobs

LEMMA ServePrivate ==
  ASSUME PrivateInv, RaceInv, NEW q \in Requests, Serve(q)
  PROVE  PrivateInv'
<1>1. /\ pc = "read" /\ used = {} /\ cc = "none" /\ req' = q /\ route' = choose(q, config)
      /\ resp' = resp /\ sr' = sr /\ resp.from \notin Shared /\ sr.from \notin Shared
      /\ pc' \in {"fail", "race", "job"}
    BY Zenon DEF Serve, Read, PrivateInv, RaceInv, streamVars
<1>2. route' \subseteq Mechanisms /\ (NotCacheable(q) => route' \cap PublicJobs = {})
    BY Zenon, <1>1, PrivateRoutes
<1>3. ASSUME NotCacheable(q)
      PROVE  used' \cap PublicJobs = {} /\ cc' = "none"
  <2>1. CASE UNCHANGED <<used, cc>>
      BY Zenon, <1>1, <2>1
  <2>2. CASE used' = Origin /\ UNCHANGED cc
      BY Zenon, <1>1, <2>2 DEF Origin, PublicJobs
  <2>3. CASE StartJob(route', rid', q)
      BY Zenon, <1>1, <1>2, <1>3, <2>3, PrivateJobs
  <2>4. QED
      BY Zenon, <2>1, <2>2, <2>3 DEF Serve
<1>4. QED
    BY Zenon, <1>1, <1>2, <1>3 DEF PrivateInv, Shared

\* What a private job returns is not shared.
LEMMA LeafPrivate ==
  ASSUME PrivateInv, LeafReturns
  PROVE  PrivateInv'
<1>1. PICK r \in Outcomes : JobReturns(r)
    BY Zenon DEF LeafReturns
<1>2. JobRuns /\ cc = "none" /\ UNCHANGED <<rid, req, route, used, cc, stores>>
    BY Zenon DEF LeafReturns, fetchVars
<1>3. pc' \in {"fail", "wrap", "race"}
    BY Zenon, <1>1, <1>2 DEF JobReturns, Dispatched, JobRuns
<1>4. ASSUME NotCacheable(req)
      PROVE  r.from \notin Shared
  <2>1. Job \cap PublicJobs = {} /\ Job \subseteq Mechanisms
      BY Zenon, <1>4 DEF PrivateInv, Job
  <2>2. Job # {"public"} /\ Job # {"dcache"}
      BY Zenon, <2>1 DEF PublicJobs
  <2>3. r = Failed \/ \E m \in Job : r = Direct(m)
      BY Zenon, <2>2 DEF Outcomes
  <2>4. QED
      BY Zenon, <2>1, <2>3, DirectIsPrivate
<1>5. \/ resp' = r /\ sr' = sr
      \/ sr' = r /\ resp' = resp
    BY Zenon, <1>1 DEF JobReturns, Dispatched, raceVars
<1>6. QED
    BY Zenon, <1>2, <1>3, <1>4, <1>5 DEF PrivateInv, Shared

LEMMA FetchPrivate ==
  ASSUME PrivateInv, RaceInv, FetchResumes
  PROVE  PrivateInv'
<1>1. cc # "none" /\ JobRuns /\ UNCHANGED <<rid, req, route, stores>>
    BY Zenon DEF FetchResumes, Decide, WaitOld, WaitNoEtag, Revalidate, ForceFresh, ForceStored
<1>2. ~NotCacheable(req)
    BY Zenon, <1>1 DEF PrivateInv, JobRuns
<1>3. pc' # "read"
  <2>1. ASSUME NEW r, FetchReturns(r) PROVE pc' # "read"
      BY Zenon, <1>1, <2>1 DEF FetchReturns, JobReturns, Dispatched, JobRuns
  <2>2. ASSUME NEW where, FetchGoesTo(where) PROVE pc' # "read"
      BY Zenon, <1>1, <2>2 DEF FetchGoesTo, JobRuns
  <2>3. QED
      BY Zenon, <2>1, <2>2
      DEF FetchResumes, Decide, WaitOld, WaitNoEtag, Revalidate, ForceFresh, ForceStored
<1>4. QED
    BY Zenon, <1>1, <1>2, <1>3 DEF PrivateInv

LEMMA PrivateSteps ==
  ASSUME PrivateInv, RaceInv, StoreInv, [Next]_vars
  PROVE  PrivateInv'
<1> USE DEF serveVars, streamVars, fetchVars, raceVars
<1>1. CASE UNCHANGED <<req, used, route, resp, sr, pc, cc, rid, stores>>
    BY Zenon, <1>1 DEF PrivateInv, Shared
<1>2. ASSUME NEW q \in Requests, Unauthorized(q) \/ Connect(q) \/ BadRequest(q)
      PROVE  PrivateInv'
  <2>1. pc = "read" /\ UNCHANGED <<req, used, route, resp, sr, cc>> /\ pc' \in {"read", "end"}
      BY Zenon, <1>2 DEF Unauthorized, Connect, BadRequest, Read
  <2>2. QED
      BY Zenon, <2>1 DEF PrivateInv, Shared
<1>3. ASSUME NEW q \in Requests, Upgrade(q)
      PROVE  PrivateInv'
  <2>1. /\ pc = "read" /\ UNCHANGED <<route, resp, sr>> /\ pc' = "websocket"
        /\ used' \cap PublicJobs = {}
      BY Zenon, <1>3 DEF Upgrade, Read, Origin, PublicJobs
  <2>2. QED
      BY Zenon, <2>1 DEF PrivateInv, Shared
<1>4. ASSUME NEW q \in Requests, Serve(q)
      PROVE  PrivateInv'
    BY Zenon, <1>4, ServePrivate
<1>5. CASE ReadFails \/ WebsocketEnds \/ Fail \/ ServeThrows
    BY Zenon, <1>5, EndRequestPrivate DEF ReadFails, WebsocketEnds, Fail, ServeThrows
<1>6. CASE Stop \/ PrimaryReturns \/ PrimaryThrows \/ Expire
    BY Zenon, <1>1, <1>6 DEF Stop, PrimaryReturns, PrimaryThrows, Expire
<1>7. CASE LeafReturns
    BY Zenon, <1>7, LeafPrivate
<1>8. CASE SecondaryStarts
  <2>1. pc = "race" /\ UNCHANGED <<pc, req, route, resp, sr, rid, stores>>
      BY Zenon, <1>8 DEF SecondaryStarts, RaceInv
  <2>2. ASSUME NotCacheable(req)
        PROVE  used' \cap PublicJobs = {} /\ cc' = "none"
    <3>1. (route \ Origin) \cap PublicJobs = {} /\ used \cap PublicJobs = {} /\ cc = "none"
        BY Zenon, <2>1, <2>2 DEF PrivateInv
    <3>2. QED
        BY Zenon, <1>8, <3>1, PrivateJobs DEF SecondaryStarts
  <2>3. QED
      BY Zenon, <2>1, <2>2 DEF PrivateInv, Shared
<1>9. CASE SecondaryThrows
    BY Zenon, <1>9, DirectIsPrivate DEF SecondaryThrows, LeaveFetch, PrivateInv, Shared
<1>10. CASE RaceEnds
  <2>1. "origin" \notin Shared
      BY Zenon DEF Shared
  <2>2. QED
      BY Zenon, <1>10, <2>1, DirectIsPrivate DEF RaceEnds, Dispatched, PrivateInv, Shared
<1>11. CASE FetchResumes
    BY Zenon, <1>11, FetchPrivate
<1>12. CASE Wrap
  <2>1. rid \in Ids /\ stores[rid].st = "off"
      BY Zenon, <1>12 DEF Wrap, StoreInv, StreamOK
  <2>2. resp.from \notin Shared => UNCHANGED stores
      BY Zenon, <1>12 DEF Wrap
  <2>3. QED
      BY Zenon, <1>12, <2>1, <2>2, DirectIsPrivate DEF Wrap, PrivateInv, Shared
<1>13. CASE WritePart \/ ReadPart \/ Push
  <2>1. CASE Streamed
      BY Zenon, <2>1, EndRequestPrivate DEF Streamed
  <2>2. CASE /\ pc' \in {"stream", "fail"}
             /\ UNCHANGED <<req, route, used, sr, resp>>
    <3>1. NotCacheable(req) => stores'[rid'].st = "off"
      <4>1. rid' = rid /\ rid \in Ids /\ DOMAIN stores = Ids /\ pc = "stream"
          BY Zenon, <1>13 DEF WritePart, ReadPart, Push, StoreInv, StoresOK, StreamOK
      <4>2. stores[rid].st = "off" => stores'[rid].st = "off"
        <5>1. CASE UNCHANGED stores
            BY Zenon, <5>1
        <5>2. CASE ReadPart /\ stores' = [stores EXCEPT ![rid].q = Append(@, "end")]
            BY <4>1, <5>2
        <5>3. CASE stores' = [stores EXCEPT ![rid].q = Append(@, "body"), ![rid].parts = @ + 1]
            BY <4>1, <5>3
        <5>4. QED
            BY Zenon, <1>13, <2>2, <4>1, <5>1, <5>2, <5>3
            DEF WritePart, ReadPart, Push, Streamed, EndRequest, StreamFails, StreamGoesTo
      <4>3. QED
          BY Zenon, <4>1, <4>2 DEF PrivateInv
    <3>2. QED
        BY Zenon, <2>2, <3>1 DEF PrivateInv, Shared
  <2>3. QED
      BY Zenon, <1>13, <2>1, <2>2 DEF WritePart, ReadPart, Push, StreamGoesTo, StreamFails
<1>14. ASSUME NEW i \in Ids, FreshReturns(i) \/ StoredReturns(i) \/ ChildThrows(i)
       PROVE  PrivateInv'
    BY Zenon, <1>1, <1>14 DEF FreshReturns, StoredReturns, ChildThrows
<1>15. ASSUME NEW i \in Ids, StorePart(i)
       PROVE  PrivateInv'
  <2>1. UNCHANGED <<req, used, route, resp, sr, pc, cc, rid>>
      BY Zenon, <1>15 DEF StorePart
  <2>2. pc = "stream" /\ stores[rid].st = "off" => stores'[rid].st = "off"
    <3>1. stores[i].st = "run" /\ \E s : stores' = [stores EXCEPT ![i] = s]
        BY Zenon, <1>15 DEF StorePart
    <3>2. QED
        BY Zenon, <3>1 DEF StoreInv, StoresOK, StreamOK
  <2>3. QED
      BY Zenon, <2>1, <2>2 DEF PrivateInv, Shared
<1>16. CASE UNCHANGED vars
    BY Zenon, <1>1, <1>16 DEF vars
<1>17. QED
    BY Zenon, <1>2, <1>3, <1>4, <1>5, <1>6, <1>7, <1>8, <1>9, <1>10, <1>11, <1>12, <1>13, <1>14,
       <1>15, <1>16 DEF Next

\* A request that must not be cached is neither sent to an injector as a public
\* one nor looked up in the cache, and its response is not stored, whatever its
\* route, the configuration, and the order in which the coroutines run.
THEOREM PrivateRequestsStayPrivate == Spec => []PrivateStaysPrivate
<1>1. Init => PrivateInv
    BY Zenon, DirectIsPrivate DEF Init, PrivateInv, Shared
<1>2. PrivateInv => PrivateStaysPrivate
    BY Zenon DEF PrivateInv, PrivateStaysPrivate, BeingStored, Storing, PublicJobs
<1>3. QED
    BY <1>1, <1>2, PrivateSteps, RaceInvariant, StoreInvariant, PTL DEF Spec

=============================================================================
