--------------------------- MODULE ClientRequest ---------------------------
(***************************************************************************)
(* The client serving the requests of one user agent's connection:         *)
(* Client::State::serve_request with Dispatcher, CacheControl and          *)
(* StoringReader.                                                          *)
(*                                                                         *)
(* Each request is routed; the mechanisms of the route race in coroutines  *)
(* of their own; the first response is streamed to the user agent, and a   *)
(* second coroutine may store it through a queue of one part.  Coroutines  *)
(* of one executor interleave where they suspend.  A cancelled coroutine   *)
(* throws when it resumes: until then it is "cancelled".                   *)
(*                                                                         *)
(* A response is its source, the stored entry it comes from (if any) and   *)
(* the warning added to it; its body is a number of parts.                 *)
(***************************************************************************)
EXTENDS Route, Sequences

CONSTANTS
  Requests,     \* the requests that the user agent may send
  Configs,      \* the configurations of the client
  MaxRequests,  \* bound on the requests sent over the connection
  MaxParts      \* bound on the body parts of a response

ASSUME RequestsAssumption ==
  /\ MaxRequests \in Nat
  /\ \A q \in Requests : q.field \in Routes \cup {{}}

VARIABLES
  config,   \* _config
  stopped,  \* _shutdown_signal has been fired
  pc,       \* where serve_request is suspended
  mitm,     \* the local variable of serve_request
  rid,      \* next_request_id: the number of the request being served
  req,      \* the request being served
  route,    \* its route
  used,     \* mechanisms contacted for it
  kid,      \* the coroutines of primary_or_secondary
  pr,       \* primary_r
  sr,       \* secondary_r
  cc,       \* where CacheControl::fetch is suspended
  freshR,   \* fresh_result
  storedR,  \* stored_result, cache_entry
  fkid,     \* the coroutines spawned by CacheControl::fetch, per request
  resp,     \* the response that dispatch returned, until it is moved into a session
  at,       \* where Session::flush_response is suspended
  got,      \* body parts read from the response's source
  stores    \* the storing coroutine of each request and its queue

serveVars == <<config, stopped, pc, mitm, rid, req, route>>
raceVars == <<kid, pr, sr>>
fetchVars == <<cc, freshR, storedR, fkid>>
streamVars == <<resp, at, got>>
vars == <<serveVars, used, raceVars, fetchVars, streamVars, stores>>

Ids == 1..MaxRequests

Entries ==
  [from : {"dist_cache", "local_cache"},
   expired : BOOLEAN,   \* is_expired, at the time
   old : BOOLEAN,       \* private, older than max_cached_age, or temporary
   etag : BOOLEAN]      \* it has an entity tag, and the request has none

NoEntry == [from |-> "none", expired |-> FALSE, old |-> FALSE, etag |-> FALSE]
FailedEntry == [NoEntry EXCEPT !.from = "error"]

\* fresh: what had come of fetch_fresh when the response was chosen.
Response(from, entry, warn, fresh) ==
  [from |-> from, entry |-> entry, warn |-> warn, fresh |-> fresh]

Direct(from) == Response(from, NoEntry, "none", "none")
NoResponse == Direct("none")
Failed == Direct("error")
Fresh == Direct("injector")
Stored(e, warn, fresh) == Response(e.from, e, warn, fresh)

\* A storing coroutine: its queue, the body parts written (n), and the body
\* parts pushed (parts).
NoStore == [st |-> "off", q |-> << >>, n |-> 0, parts |-> 0, signed |-> TRUE]

Cancelled(st) == IF st \in {"delay", "run"} THEN "cancelled" ELSE st

NoRequest == CHOOSE q \in Requests : TRUE

NoKids == [primary |-> "off", secondary |-> "off"]
NoFetchKids == [fresh |-> "off", stored |-> "off"]

Init ==
  /\ config \in Configs
  /\ stopped = FALSE
  /\ pc = "read"
  /\ mitm = FALSE
  /\ rid = 0
  /\ req = NoRequest
  /\ route = {}
  /\ used = {}
  /\ kid = NoKids
  /\ pr = "none"
  /\ sr = NoResponse
  /\ cc = "none"
  /\ freshR = "none"
  /\ storedR = NoEntry
  /\ fkid = [i \in Ids |-> NoFetchKids]
  /\ resp = NoResponse
  /\ at = "none"
  /\ got = 0
  /\ stores = [i \in Ids |-> NoStore]

-----------------------------------------------------------------------------
(***************************************************************************)
(* serve_request                                                           *)
(***************************************************************************)

\* Mutant of CloseReader: what has been pushed is dropped.
CloseReaderDrops ==
  [stores EXCEPT ![rid].q = IF stores[rid].st = "run" THEN <<"end">> ELSE << >>]

\* The destructor of StoringReader: the storing coroutine, which outlives the
\* response, finds the end after what has been pushed.
CloseReader ==
  [stores EXCEPT ![rid].q =
     IF stores[rid].st = "run" THEN Append(@, "end") ELSE << >>]

\* The iteration of the loop is over: go on with the next request, or close the
\* connection.
EndRequest(next) ==
  /\ pc' = next
  /\ stores' = IF pc = "read" THEN stores ELSE CloseReader
  /\ req' = NoRequest
  /\ route' = {}
  /\ used' = {}
  /\ pr' = "none"
  /\ sr' = NoResponse
  /\ resp' = NoResponse
  /\ at' = "none"
  /\ got' = 0

\* Why a job fails before it contacts anybody: CacheRequest::from wants a group and
\* no body (grouped), checks method and tag again, but not the method override;
\* InsecureRequest::from refuses the tag.
Refused(job, q) ==
  \/ /\ job \cap {"public", "dcache"} # {}
     /\ ~q.grouped \/ q.method \notin {"GET", "HEAD"} \/ q.private
  \/ job = {"blind"} /\ q.private /\ ~q.https

\* A job of request i starts.  CacheControl::fetch first fetches a fresh response
\* if the request must be revalidated; otherwise it fetches a fresh and a stored
\* one at the same time.
StartJob(job, i, q) ==
  CASE Refused(job, q) -> UNCHANGED <<used, cc, fkid>>
    [] ~Refused(job, q) /\ job # {"public", "dcache"} ->
         used' = used \cup job /\ UNCHANGED <<cc, fkid>>
    [] OTHER ->
         IF q.reval
         THEN used' = used \cup {"public"} /\ cc' = "force" /\ UNCHANGED fkid
         ELSE /\ used' = used \cup job
              /\ cc' = "wait"
              /\ fkid' = [fkid EXCEPT ![i] = [fresh |-> "run", stored |-> "run"]]

\* A request is read: the guard of the actions on it.
Read(q) ==
  /\ pc = "read"
  /\ ~stopped
  /\ rid < MaxRequests
  /\ q \in Requests
  /\ rid' = rid + 1

\* async_read fails, or the user agent closes the connection.
ReadFails ==
  /\ pc = "read"
  /\ ~stopped
  /\ EndRequest("end")
  /\ UNCHANGED <<config, stopped, mitm, rid, kid, fetchVars>>

\* authenticate answers by itself; the loop goes on whatever becomes of that.
Unauthorized(q) ==
  /\ Read(q)
  /\ q.fault = "auth"
  /\ ~mitm
  /\ UNCHANGED <<config, stopped, pc, mitm, req, route, used, raceVars, fetchVars,
                 streamVars, stores>>

\* ssl_mitm_handshake succeeds or not.
Connect(q) ==
  /\ Read(q)
  /\ q.fault = "connect"
  /\ ~mitm
  /\ \/ mitm' = TRUE /\ pc' = pc
     \/ pc' = "end" /\ UNCHANGED mitm
  /\ UNCHANGED <<config, stopped, req, route, used, raceVars, fetchVars, streamVars,
                 stores>>

\* maybe_handle_websocket_upgrade goes to the origin, whatever the configuration,
\* unless the target cannot be made one of a web socket.
Upgrade(q) ==
  /\ Read(q)
  /\ q.fault = "websocket"
  /\ pc' = "websocket"
  /\ req' = q
  /\ used' \in {{}, Origin}
  /\ UNCHANGED <<config, stopped, mitm, route, raceVars, fetchVars, streamVars, stores>>

WebsocketEnds ==
  /\ pc = "websocket"
  /\ ~stopped
  /\ EndRequest("end")
  /\ UNCHANGED <<config, stopped, mitm, rid, kid, fetchVars>>

\* Not a proxy request, no token, or no host.  The result of handle_bad_request is
\* an error code, so the loop goes on only if the answer could not be written.
BadRequest(q) ==
  /\ Read(q)
  /\ q.fault \in {"token", "host"} \/ (q.fault = "target" /\ ~mitm)
  /\ \E written \in BOOLEAN : pc' = IF ~written /\ q.keep_alive THEN "read" ELSE "end"
  /\ UNCHANGED <<config, stopped, mitm, req, route, used, raceVars, fetchVars,
                 streamVars, stores>>

\* The request is routed and dispatched.  A route with the origin and something
\* else goes to primary_or_secondary.
Serve(q) ==
  /\ Read(q)
  /\ q.fault = "none" \/ (mitm /\ q.fault \in {"auth", "connect", "target"})
  /\ req' = q
  /\ route' = choose(q, config)
  /\ IF route' = {}
     THEN /\ pc' = "fail"
          /\ UNCHANGED <<kid, used, cc, fkid>>
     ELSE IF Origin \subseteq route' /\ route' # Origin
     THEN /\ pc' = "race"
          /\ kid' = [primary |-> "run", secondary |-> "delay"]
          /\ used' = Origin
          /\ UNCHANGED <<cc, fkid>>
     ELSE /\ pc' = "job"
          /\ StartJob(route', rid', q)
          /\ UNCHANGED kid
  /\ UNCHANGED <<config, stopped, mitm, pr, sr, freshR, storedR, streamVars, stores>>

\* retrieval_failure_response is written.
Fail ==
  /\ pc = "fail"
  /\ ~stopped
  /\ \E written \in BOOLEAN :
       EndRequest(IF written /\ req.keep_alive THEN "read" ELSE "end")
  /\ UNCHANGED <<config, stopped, mitm, rid, kid, fetchVars>>

\* Client::stop: the coroutines under the shutdown signal are cancelled.
Stop ==
  /\ ~stopped
  /\ stopped' = TRUE
  /\ kid' = [k \in DOMAIN kid |-> Cancelled(kid[k])]
  /\ UNCHANGED <<config, pc, mitm, rid, req, route, used, pr, sr, fetchVars, streamVars,
                 stores>>

-----------------------------------------------------------------------------
(***************************************************************************)
(* Dispatcher                                                              *)
(***************************************************************************)

\* The job of the coroutine that runs a job other than the origin's in a race.
Job == IF pc = "race" THEN route \ Origin ELSE route

\* That coroutine is suspended in its job, and will not throw.
JobRuns ==
  \/ pc = "job" /\ ~stopped
  \/ pc = "race" /\ kid.secondary = "run"

\* serve_request has the result of dispatch.
Dispatched(r) ==
  /\ pc' = IF r = Failed THEN "fail" ELSE "wrap"
  /\ resp' = r

\* The job returns r.  The first success of a race cancels the other coroutine.
JobReturns(r) ==
  IF pc = "job"
  THEN Dispatched(r) /\ UNCHANGED raceVars
  ELSE /\ sr' = r
       /\ kid' = [primary |-> IF r = Failed THEN kid.primary ELSE Cancelled(kid.primary),
                  secondary |-> "off"]
       /\ UNCHANGED <<pc, resp, pr>>

\* What the mechanisms return (fetch_fresh_from_origin and so on).  All of them
\* end: they are under a time out.
Outcomes ==
  {Failed} \cup
  (CASE Refused(Job, req) -> {}
     [] ~Refused(Job, req) /\ Job = {"public"} -> {Fresh}
     [] ~Refused(Job, req) /\ Job = {"dcache"} ->
          {Direct("dist_cache"), Direct("local_cache")}
     [] OTHER -> {Direct(m) : m \in Job})

\* fetch_from_front_end, _origin, _private_injector, _public_injector, _dcache
\* return; or CacheControl was not reached.
LeafReturns ==
  /\ JobRuns
  /\ cc = "none"
  /\ \E r \in Outcomes : JobReturns(r)
  /\ UNCHANGED <<config, stopped, mitm, rid, req, route, used, fetchVars, at, got, stores>>

PrimaryReturns ==
  /\ kid.primary = "run"
  /\ pr' \in {"ok", "error"}
  /\ kid' = [primary |-> "off",
             secondary |-> IF pr' = "ok" THEN Cancelled(kid.secondary) ELSE kid.secondary]
  /\ UNCHANGED <<serveVars, used, sr, fetchVars, streamVars, stores>>

\* The delay is over, or the primary task is.
SecondaryStarts ==
  /\ kid.secondary = "delay"
  /\ kid' = [kid EXCEPT !.secondary = "run"]
  /\ StartJob(route \ Origin, rid, req)
  /\ UNCHANGED <<serveVars, pr, sr, freshR, storedR, streamVars, stores>>

\* The cancelled task throws; unless the client stops, its result is an error.
PrimaryThrows ==
  /\ kid.primary = "cancelled"
  /\ kid' = [kid EXCEPT !.primary = "off"]
  /\ pr' = IF stopped THEN pr ELSE "error"
  /\ UNCHANGED <<serveVars, used, sr, fetchVars, streamVars, stores>>

\* CacheControl::fetch returns or throws: the children are cancelled.
LeaveFetch ==
  /\ cc' = "none"
  /\ freshR' = "none"
  /\ storedR' = NoEntry
  /\ fkid' = [fkid EXCEPT ![rid] = [k \in DOMAIN @ |-> Cancelled(@[k])]]

SecondaryThrows ==
  /\ kid.secondary = "cancelled"
  /\ kid' = [kid EXCEPT !.secondary = "off"]
  /\ sr' = IF stopped THEN sr ELSE Failed
  /\ LeaveFetch
  /\ UNCHANGED <<serveVars, used, pr, streamVars, stores>>

\* Both tasks have released their locks: the end of primary_or_secondary.
RaceEnds ==
  /\ pc = "race"
  /\ ~stopped
  /\ kid = NoKids
  /\ Dispatched(IF pr = "ok" THEN Direct("origin") ELSE sr)
  /\ pr' = "none"
  /\ sr' = NoResponse
  /\ UNCHANGED <<config, stopped, mitm, rid, req, route, used, kid, fetchVars, at, got,
                 stores>>

\* serve_request throws when it resumes: it does not wait for the tasks of a race.
ServeThrows ==
  /\ stopped
  /\ pc # "end"
  /\ EndRequest("end")
  /\ IF pc = "job" THEN LeaveFetch ELSE UNCHANGED fetchVars
  /\ UNCHANGED <<config, stopped, mitm, rid, kid>>

-----------------------------------------------------------------------------
(***************************************************************************)
(* CacheControl::fetch, in the coroutine of its caller, and its children   *)
(***************************************************************************)

\* A child returns.  It writes to the frame of fetch.
FreshReturns(i) ==
  /\ fkid[i].fresh = "run"
  /\ fkid' = [fkid EXCEPT ![i].fresh = "off"]
  /\ freshR' \in {"ok", "error"}
  /\ UNCHANGED <<serveVars, used, raceVars, cc, storedR, streamVars, stores>>

StoredReturns(i) ==
  /\ fkid[i].stored = "run"
  /\ fkid' = [fkid EXCEPT ![i].stored = "off"]
  /\ storedR' \in Entries \cup {FailedEntry}
  /\ UNCHANGED <<serveVars, used, raceVars, cc, freshR, streamVars, stores>>

ChildThrows(i) ==
  /\ \E k \in DOMAIN fkid[i] :
       /\ fkid[i][k] = "cancelled"
       /\ fkid' = [fkid EXCEPT ![i][k] = "off"]
  /\ UNCHANGED <<serveVars, used, raceVars, cc, freshR, storedR, streamVars, stores>>

\* Time passes, and the stored response expires.
Expire ==
  /\ storedR \in Entries
  /\ ~storedR.expired
  /\ storedR' = [storedR EXCEPT !.expired = TRUE]
  /\ UNCHANGED <<serveVars, used, raceVars, cc, freshR, fkid, streamVars, stores>>

FetchReturns(r) ==
  /\ JobReturns(r)
  /\ LeaveFetch
  /\ UNCHANGED used

FetchGoesTo(where) ==
  /\ cc' = where
  /\ UNCHANGED <<pc, resp, raceVars, freshR, storedR>>

\* Mutant of Decide: the wait is for a success, whatever fails.
DecideWaitsForSuccess ==
  /\ cc = "wait"
  /\ freshR = "ok"
  /\ FetchReturns(Fresh)

\* The first wait: until one child succeeded or both failed.
Decide ==
  /\ cc = "wait"
  /\ CASE freshR = "ok" -> FetchReturns(Fresh)
       [] freshR # "ok" /\ storedR \in Entries ->
            CASE storedR.old -> FetchGoesTo("old") /\ UNCHANGED <<fkid, used>>
              [] ~storedR.old /\ ~storedR.expired ->
                   FetchReturns(Stored(storedR, "none", freshR))
              [] ~storedR.old /\ storedR.expired /\ storedR.etag ->
                   /\ FetchGoesTo("revalidate")
                   /\ fkid' = [fkid EXCEPT ![rid] = [k \in DOMAIN @ |-> Cancelled(@[k])]]
                   /\ used' = used \cup {"public"}
              [] OTHER -> FetchGoesTo("no_etag") /\ UNCHANGED <<fkid, used>>
       [] OTHER -> freshR = "error" /\ storedR = FailedEntry /\ FetchReturns(Failed)

\* Mutant of WaitOld: the age of the entry is tested before the wait, that is,
\* the warning is not added to an entry that expires meanwhile.
WaitOldStale ==
  /\ cc = "old"
  /\ freshR # "none"
  /\ FetchReturns(IF freshR = "ok" THEN Fresh ELSE Stored(storedR, "none", freshR))

\* Mutant of WaitOld: the entry is returned without waiting for a fresh response.
WaitOldHasty ==
  /\ cc = "old"
  /\ FetchReturns(IF freshR = "ok" THEN Fresh
                  ELSE Stored(storedR, IF storedR.expired THEN "110" ELSE "none", freshR))

\* The stored response is private, too old, or a temporary redirection.
WaitOld ==
  /\ cc = "old"
  /\ freshR # "none"
  /\ FetchReturns(IF freshR = "ok" THEN Fresh
                  ELSE Stored(storedR, IF storedR.expired THEN "110" ELSE "none", freshR))

\* The stored response has expired, and has no entity tag.
WaitNoEtag ==
  /\ cc = "no_etag"
  /\ freshR # "none"
  /\ FetchReturns(IF freshR = "ok" THEN Fresh ELSE Stored(storedR, "110", freshR))

\* The stored response has expired: fetch_fresh again, with If-None-Match.
Revalidate ==
  /\ cc = "revalidate"
  /\ \E r \in {Stored(storedR, "110", "error"), Stored(storedR, "none", "304"), Fresh} :
       FetchReturns(r)

\* The request asks for revalidation.  An aborted fetch_fresh is not an occasion
\* to use the cache.
ForceFresh ==
  /\ cc = "force"
  /\ \/ \E r \in {Fresh, Failed} : FetchReturns(r)
     \/ /\ FetchGoesTo("force_stored")
        /\ used' = used \cup {"dcache"}
        /\ UNCHANGED fkid

ForceStored ==
  /\ cc = "force_stored"
  /\ \E r \in {Failed} \cup {Stored(e, "111", "error") : e \in Entries} : FetchReturns(r)

FetchResumes ==
  /\ JobRuns
  /\ Decide \/ WaitOld \/ WaitNoEtag \/ Revalidate \/ ForceFresh \/ ForceStored
  /\ UNCHANGED <<config, stopped, mitm, rid, req, route, at, got, stores>>

-----------------------------------------------------------------------------
(***************************************************************************)
(* Streaming the response to the user agent, and StoringReader             *)
(***************************************************************************)

Storing == stores[rid].st # "off"

\* The sources of responses that are stored.
Shared == {"dist_cache", "injector"}

\* maybe_wrap_in_storing_session: the response is stored if CacheControl::ok_to_cache
\* and the other tests on its head allow it (storable).  The head has been read:
\* StoringReader pushes it at once, and the response is moved.  Responses of peers are signed.
Wrap ==
  /\ pc = "wrap"
  /\ ~stopped
  /\ pc' = "stream"
  /\ at' = "write"
  /\ \E storable, signed \in BOOLEAN :
       IF storable /\ req.method = "GET" /\ resp.from \in Shared
       THEN /\ resp.from = "dist_cache" => signed
            /\ stores' = [stores EXCEPT ![rid] =
                            [NoStore EXCEPT !.st = "run", !.q = <<"head">>, !.signed = signed]]
       ELSE UNCHANGED stores
  /\ resp' = NoResponse
  /\ UNCHANGED <<config, stopped, mitm, rid, req, route, used, raceVars, fetchVars, got>>

\* The last part has been sent; the response too says whether to keep the
\* connection.
Streamed ==
  \E keep \in BOOLEAN : EndRequest(IF req.keep_alive /\ keep THEN "read" ELSE "end")

StreamGoesTo(where) ==
  /\ at' = where
  /\ UNCHANGED <<pc, req, route, used, pr, sr, resp>>

StreamFails ==
  /\ pc' = "fail"
  /\ UNCHANGED <<req, route, used, pr, sr, resp, at, got>>

\* The part is written to the user agent.
WritePart ==
  /\ pc = "stream"
  /\ ~stopped
  /\ at = "write"
  /\ \/ req.method = "HEAD" /\ Streamed
     \/ req.method # "HEAD" /\ StreamGoesTo("read") /\ UNCHANGED <<got, stores>>
     \/ StreamFails /\ UNCHANGED stores
  /\ UNCHANGED <<config, stopped, mitm, rid, kid, fetchVars>>

\* A part is read from the source of the response.
ReadPart ==
  /\ pc = "stream"
  /\ ~stopped
  /\ at = "read"
  /\ \/ /\ got < MaxParts
        /\ StreamGoesTo(IF Storing THEN "push" ELSE "write")
        /\ got' = got + 1
        /\ UNCHANGED stores
     \/ Storing /\ StreamGoesTo("push_end") /\ UNCHANGED <<got, stores>>
     \/ ~Storing /\ Streamed
     \/ /\ StreamFails
        /\ stores' = IF Storing THEN [stores EXCEPT ![rid].q = Append(@, "end")] ELSE stores
  /\ UNCHANGED <<config, stopped, mitm, rid, kid, fetchVars>>

\* async_push, once the queue of size 1 has room.  The part goes on to the user
\* agent.  After the end, the reader is destroyed, which pushes the end again.
Push ==
  /\ pc = "stream"
  /\ ~stopped
  /\ at \in {"push", "push_end"}
  /\ Len(stores[rid].q) < 1
  /\ IF at = "push"
     THEN /\ StreamGoesTo("write")
          /\ stores' = [stores EXCEPT ![rid].q = Append(@, "body"), ![rid].parts = @ + 1]
          /\ UNCHANGED got
     ELSE Streamed
  /\ UNCHANGED <<config, stopped, mitm, rid, kid, fetchVars>>

\* The storing coroutine of request i pops a part.  cache->store refuses a head
\* without signature, and any write may fail; then it returns, and nobody pops.
\* Nothing after the first end is read.
StorePart(i) ==
  /\ stores[i].st = "run"
  /\ stores[i].q # << >>
  /\ LET s == [stores[i] EXCEPT !.q = Tail(@)]
         p == Head(stores[i].q)
     IN \E ok \in BOOLEAN :
          /\ ok /\ p = "head" => s.signed
          /\ stores' = [stores EXCEPT ![i] =
               CASE ~ok -> [s EXCEPT !.st = "failed"]
                 [] ok /\ p = "body" -> [s EXCEPT !.n = @ + 1]
                 [] ok /\ p = "end" -> [s EXCEPT !.st = "stored", !.q = << >>]
                 [] OTHER -> s]
  /\ UNCHANGED <<serveVars, used, raceVars, fetchVars, streamVars>>

-----------------------------------------------------------------------------
Next ==
  \/ \E q \in Requests :
       Unauthorized(q) \/ Connect(q) \/ Upgrade(q) \/ BadRequest(q) \/ Serve(q)
  \/ ReadFails \/ WebsocketEnds \/ Fail \/ Stop \/ ServeThrows
  \/ LeafReturns \/ PrimaryReturns \/ PrimaryThrows
  \/ SecondaryStarts \/ SecondaryThrows \/ RaceEnds
  \/ FetchResumes \/ Expire
  \/ Wrap \/ WritePart \/ ReadPart \/ Push
  \/ \E i \in Ids :
       FreshReturns(i) \/ StoredReturns(i) \/ ChildThrows(i) \/ StorePart(i)

\* A coroutine that can resume does, and every mechanism answers or times out.
\* The code has no time out on the streaming of a response: that its source and
\* the user agent make progress is an assumption on them (WritePart, ReadPart).
\* Nothing says that the client stops, that an entry expires, that another
\* request comes, or that a web socket ends.
Fairness ==
  /\ WF_vars(Fail) /\ WF_vars(ServeThrows)
  /\ WF_vars(LeafReturns) /\ WF_vars(PrimaryReturns) /\ WF_vars(PrimaryThrows)
  /\ WF_vars(SecondaryStarts) /\ WF_vars(SecondaryThrows) /\ WF_vars(RaceEnds)
  /\ WF_vars(FetchResumes)
  /\ WF_vars(Wrap) /\ WF_vars(WritePart) /\ WF_vars(ReadPart) /\ WF_vars(Push)
  /\ \A i \in Ids : /\ WF_vars(FreshReturns(i)) /\ WF_vars(StoredReturns(i))
                   /\ WF_vars(ChildThrows(i)) /\ WF_vars(StorePart(i))

Spec == Init /\ [][Next]_vars /\ Fairness

-----------------------------------------------------------------------------
(***************************************************************************)
(* Properties                                                              *)
(***************************************************************************)

Results ==
  {Direct(f) : f \in Mechanisms \cup {"injector", "dist_cache", "local_cache", "none", "error"}}
  \cup {Stored(e, w, f) : e \in Entries, w \in {"none", "110", "111"},
                        f \in {"none", "error", "304"}}

BeingStored == pc = "stream" /\ Storing

\* A request that must not be cached (tagged private, with another method than GET
\* and HEAD, or overriding its method) goes neither to an injector as a public one
\* nor to the distributed cache, and its response is not stored: for the override
\* only the route sees to that.
PrivateStaysPrivate ==
  NotCacheable(req) => used \cap {"public", "dcache"} = {} /\ ~BeingStored

\* The results on their way to the user agent.
Pending == {resp, sr}

\* A response from the cache that has expired when CacheControl::fetch returns it
\* carries a warning, unless the injector confirmed that it is not modified: the
\* expiry is read after the waits during which the response may expire.
StaleIsMarked ==
  \A r \in Pending : r.entry.expired /\ r.fresh # "304" => r.warn # "none"

\* A response that is too old, private, or expired is returned only after the
\* attempt to get a fresh one failed or confirmed it, never in place of one that
\* is still on its way.
FreshBeatsOld ==
  \A r \in Pending : r.entry.old \/ r.entry.expired => r.fresh \in {"error", "304"}

\* Everything that was pushed before the StoringReader was destroyed is written,
\* also when the connection or the client ends in the middle of the response.
PushedIsStored ==
  \A i \in Ids :
    stores[i].st = "stored" => stores[i].n = stores[i].parts

\* Dispatcher::dispatch returns: no combination of failures, cancellations and
\* expiries leaves primary_or_secondary or CacheControl::fetch waiting.
DispatchEnds == pc \in {"job", "race"} ~> pc \notin {"job", "race"}

\* "When a client receives a response containing neither the X-Ouinet-Sig1 or
\* X-Ouinet-Sig0 headers, this reply can be served to the user application as
\* normal, but it cannot be stored": the streaming of such a response ends.
ServedAsNormal ==
  pc = "stream" /\ Storing /\ ~stores[rid].signed ~> pc # "stream"

=============================================================================
