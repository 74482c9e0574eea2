----------------------------- MODULE ClientSetup -----------------------------
(***************************************************************************)
(* The life of Client::State (client.cpp): start_ouinet and the coroutines *)
(* it leaves behind (the listeners, setup_injectors, setup_cache),         *)
(* stop_ouinet, the sessions of serve_peer_request, and the functions that *)
(* fetch a response for a user under a time out.  Everything runs on one   *)
(* executor: an action is what a coroutine does between two suspensions.   *)
(*                                                                         *)
(* A coroutine whose Cancel fired throws Async::Cancelled when it is       *)
(* resumed, so a cancelled fetch or set-up only has its throwing step.     *)
(*                                                                         *)
(* Two kinds of time out are in use.  fetch_fresh_from_origin and          *)
(* fetch_stored_in_dcache run in the caller's coroutine under a copy of    *)
(* its Async that a watch dog cancels.  The two fetches through an         *)
(* injector use timeout(), that is select() over a timer branch and a body *)
(* branch, each a coroutine holding references to the caller's frame.      *)
(***************************************************************************)
EXTENDS Naturals, Sequences

CONSTANTS
  \* The configurations: records of bep5, i2p (which caches are enabled) and
  \* injector (how the one configured injector is reached, or "none").
  Configs

VARIABLES
  config,     \* the configuration of this client
  internal,   \* _internal_state
  cache,      \* is there a _cache
  starting,   \* is there a _cache_starting
  setup,      \* where the coroutine of setup_cache is
  injector,   \* the task of setup_injectors
  dht,        \* _bt_dht: "none", "made", or "ready" (is_bootstrapped)
  upnp,       \* does _upnps_ptr hold an updater
  server,     \* is there a _multi_utp_server with its accept loop
  i2p,        \* the task _i2p_session_create
  listen,     \* where listen_tcp is
  fetch,      \* the fetch of the accepted user connection
  peer        \* where the session of the accepted peer is

setup_vars == <<config, internal, cache, starting, setup, injector,
                dht, upnp, server, i2p, listen, fetch, peer>>

\* The suspension points of each fetch, in the order of its code.
connect_to_origin == <<"resolve", "connect", "handshake">>
fetch_fresh_from_origin == connect_to_origin \o <<"write", "head">>
get_injector_connection == <<"pick", "connect">>
fetch_fresh_through_simple_proxy == get_injector_connection \o <<"write", "head">>
fetch_fresh_through_connect_proxy ==
  <<"pick", "connect", "tunnel", "handshake", "write", "head">>
fetch_stored_in_dcache == <<"cache", "load">>
fetch_fresh_from_front_end == <<"serve">>

Stages == [origin    |-> fetch_fresh_from_origin,
           private   |-> fetch_fresh_through_connect_proxy,
           public    |-> fetch_fresh_through_simple_proxy,
           dcache    |-> fetch_stored_in_dcache,
           ouisync   |-> <<"load">>,
           front_end |-> fetch_fresh_from_front_end]

Kinds == DOMAIN Stages

\* The fetches that go through timeout(), and those under a watch dog.  The
\* load from Ouisync is in the same function as the one from the distributed
\* cache, but is given the caller's Async: its watch dog cancels nothing.
Selects == {"private", "public"}
Dogs == {"origin", "dcache"}

\* Stages that a fetch may skip: the handshake for a plain http target, and
\* connecting when there is a pooled connection.
Skipped(kind, stage) == stage = "handshake" \/ (kind = "public" /\ stage = "connect")
FirstStages(kind) == {1} \cup (IF kind = "origin" THEN {Len(connect_to_origin) + 1} ELSE {})

NoFetch == [kind |-> "none", at |-> 0, timer |-> "off", holder |-> "none",
            phase |-> "returned", cancelled |-> FALSE, result |-> "none"]

\* The states that setup_cache waits in.
SetupWaits == {"build", "i2p"}
was_stopped == internal = "Stopped"
UsesCache == config.bep5 \/ config.i2p

SetupInit ==
  /\ config \in Configs
  /\ internal = "Created"
  /\ cache = FALSE /\ starting = TRUE
  /\ setup = "unborn" /\ injector = "none" /\ listen = "unborn"
  /\ dht = "none" /\ upnp = FALSE /\ server = FALSE /\ i2p = "none"
  /\ fetch = NoFetch /\ peer = "off"

-----------------------------------------------------------------------------
(* Starting, stopping and listening. *)

\* make_acceptor throws when its end point is busy.
make_acceptor == {"acceptor", "thrown"}

\* Like the acceptors, the certificates may make start_ouinet throw, which
\* leaves the client Failed with nothing spawned.
start_ouinet ==
  /\ internal = "Created"
  /\ \E made \in make_acceptor :
     \/ /\ made = "thrown" /\ internal' = "Failed"
        /\ UNCHANGED <<setup, injector, listen>>
     \/ /\ made = "acceptor" /\ internal' = "Started"
        /\ setup' = "posted" /\ listen' = "posted"
        /\ injector' = IF config.injector = "none" THEN "none" ELSE "posted"
  /\ UNCHANGED <<config, cache, starting, dht, upnp, server, i2p,
                 fetch, peer>>

\* Mutant of stop_ouinet: the DHT is stopped but not let go.
stop_ouinet_keeps_dht ==
  /\ internal \in {"Created", "Started"}
  /\ internal' = "Stopped"
  /\ IF internal = "Created"
     THEN UNCHANGED <<cache, injector, upnp, server, fetch>>
     ELSE /\ cache' = FALSE /\ upnp' = FALSE /\ server' = FALSE
          /\ injector' = IF injector = "none" THEN "none" ELSE "reset"
          /\ fetch' = [fetch EXCEPT !.cancelled = @ \/ fetch.phase # "returned"]
  /\ UNCHANGED <<config, starting, setup, dht, i2p, listen, peer>>

\* _shutdown_signal cancels every coroutine, whose next step is then to
\* throw; the cancel slot of the uTP accept loop drops the server at once.
stop_ouinet ==
  /\ internal \in {"Created", "Started"}
  /\ internal' = "Stopped"
  /\ IF internal = "Created"
     THEN UNCHANGED <<cache, injector, dht, upnp, server, fetch>>
     ELSE /\ cache' = FALSE /\ upnp' = FALSE /\ server' = FALSE /\ dht' = "none"
          /\ injector' = IF injector = "none" THEN "none" ELSE "reset"
          /\ fetch' = [fetch EXCEPT !.cancelled = @ \/ fetch.phase # "returned"]
  /\ UNCHANGED <<config, starting, setup, i2p, listen, peer>>

listen_tcp ==
  /\ listen = "posted"
  /\ listen' = IF was_stopped THEN "ended" ELSE "listening"
  /\ UNCHANGED <<config, internal, cache, starting, setup, injector,
                 dht, upnp, server, i2p, fetch, peer>>

\* The closed acceptor ends the loop; wait_condition then holds the function
\* until every connection handler has ended.
ListenEnds ==
  /\ was_stopped
  /\ \/ listen = "listening" /\ listen' = "draining"
     \/ listen = "draining" /\ fetch.phase = "returned" /\ listen' = "ended"
  /\ UNCHANGED <<config, internal, cache, starting, setup, injector,
                 dht, upnp, server, i2p, fetch, peer>>

-----------------------------------------------------------------------------
(* Setting up the cache and the injector. *)

\* bittorrent_dht creates the DHT on the first call, idempotent_start_
\* accepting_on_utp the server; neither suspends.
bittorrent_dht == IF dht = "none" THEN "made" ELSE dht

SetupBegins ==
  /\ setup = "posted"
  /\ \/ was_stopped /\ setup' = "ended" /\ UNCHANGED starting
     \/ /\ ~was_stopped /\ ~UsesCache
        /\ setup' = "ended" /\ starting' = FALSE
     \/ /\ ~was_stopped /\ UsesCache
        /\ setup' = "build" /\ UNCHANGED starting
  /\ UNCHANGED <<config, internal, cache, injector, dht, upnp, server, i2p,
                 listen, fetch, peer>>

\* cache::Client::build returned.  do_notify_ready reads the variable ec,
\* which nothing sets: a failure is announced as a success.
Built ==
  /\ setup = "build" /\ ~was_stopped
  /\ starting' = FALSE
  /\ \/ /\ setup' = "ended"
        /\ UNCHANGED <<cache, dht, server, i2p>>
     \/ /\ cache' = TRUE /\ server' = TRUE
        /\ dht' = IF config.bep5 THEN bittorrent_dht ELSE dht
        /\ IF config.i2p
           THEN /\ setup' = "i2p"
                /\ i2p' = IF i2p = "none" THEN "creating" ELSE i2p
           ELSE setup' = "ended" /\ UNCHANGED i2p
  /\ UNCHANGED <<config, internal, injector, upnp, listen, fetch, peer>>

\* start_accepting_i2p once the session task has a result.
I2pAccepts ==
  /\ setup = "i2p" /\ ~was_stopped
  /\ i2p \in {"ok", "failed"}
  /\ setup' = IF i2p = "ok" THEN "accepting" ELSE "ended"
  /\ UNCHANGED <<config, internal, cache, starting, injector, dht,
                 upnp, server, i2p, listen, fetch, peer>>

\* The coroutine of setup_cache, or the accept loop it left, is cancelled.
SetupThrows ==
  /\ setup \in SetupWaits \cup {"accepting"} /\ was_stopped
  /\ setup' = "ended" /\ starting' = FALSE
  /\ UNCHANGED <<config, internal, cache, injector, dht, upnp,
                 server, i2p, listen, fetch, peer>>

\* The task of setup_injectors begins.  A TCP or uTP end point is verified
\* and the client made at once; a swarm needs the DHT and waits for it; I2P
\* waits for the session.
InjectorBegins ==
  /\ injector = "posted"
  /\ \/ /\ config.injector = "direct"
        /\ injector' \in {"ok", "failed"}
        /\ UNCHANGED <<dht, server, i2p>>
     \/ /\ config.injector = "bep5"
        /\ injector' = "start" /\ dht' = bittorrent_dht /\ server' = TRUE
        /\ UNCHANGED i2p
     \/ /\ config.injector = "i2p"
        /\ injector' = "session"
        /\ i2p' = IF i2p = "none" THEN "creating" ELSE i2p
        /\ UNCHANGED <<dht, server>>
  /\ UNCHANGED <<config, internal, cache, starting, setup, upnp,
                 listen, fetch, peer>>

\* Bep5Client::start returns when one of the two swarms is ready.
InjectorReady ==
  /\ \/ /\ injector = "start" /\ dht = "ready"
        /\ injector' = "ok"
     \/ /\ injector = "session" /\ i2p \in {"ok", "failed"}
        /\ injector' = i2p
  /\ UNCHANGED <<config, internal, cache, starting, setup, dht,
                 upnp, server, i2p, listen, fetch, peer>>

\* I2pSession::create.  Stopping does not let the task go, it only ends it.
I2pCreated ==
  /\ i2p = "creating"
  /\ i2p' \in (IF was_stopped THEN {"failed"} ELSE {"ok", "failed"})
  /\ UNCHANGED <<config, internal, cache, starting, setup, injector,
                 dht, upnp, server, listen, fetch, peer>>

\* The DHT node bootstraps, which tells the external port: setup_upnp.
Bootstrapped ==
  /\ \/ dht = "made" /\ dht' = "ready" /\ UNCHANGED upnp
     \/ dht = "ready" /\ ~upnp /\ upnp' = TRUE /\ UNCHANGED dht
  /\ UNCHANGED <<config, internal, cache, starting, setup, injector,
                 server, i2p, listen, fetch, peer>>

-----------------------------------------------------------------------------
(* A fetch for the user whose connection was accepted. *)

Here == Stages[fetch.kind][fetch.at]

\* Is the coroutine that runs the fetch's stages still suspended in one.
InBody == fetch.kind \in Kinds /\ fetch.at # 0

\* The request of a fetch through a tunnel is written without a cancel slot
\* that closes the connection: the write ends only when the other side reads,
\* or the connection fails.
WritesOn == InBody /\ fetch.kind = "private" /\ Here = "write"

\* The Async that the stages run under is cancelled: by the caller, by the
\* watch dog, or by select() once it has a result.
BodyCancelled ==
  \/ fetch.cancelled
  \/ fetch.kind \in Dogs /\ fetch.timer = "fired"
  \/ fetch.phase = "cleanup"

Fetch(rest) ==
  /\ fetch' = rest
  /\ UNCHANGED <<config, internal, cache, starting, setup, injector,
                 dht, upnp, server, i2p, listen, peer>>

\* A connection is accepted and its request is fetched in the way k.
FetchBegins(k) ==
  /\ internal = "Started" /\ listen = "listening"
  /\ fetch.phase = "returned"
  /\ \E first \in FirstStages(k) :
       Fetch([NoFetch EXCEPT !.kind = k, !.at = first, !.timer = "on",
                !.phase = IF k \in Selects THEN "select" ELSE "direct"])

\* What the body ends with: a direct fetch returns it, a branch of select()
\* puts it in the holder unless the holder has a result already.
Ended(result) ==
  IF fetch.kind \in Selects
  THEN [fetch EXCEPT !.at = 0,
                     !.holder = IF @ = "none" THEN result ELSE @]
  ELSE [fetch EXCEPT !.at = 0, !.timer = "off", !.phase = "returned",
                     !.result = result]

\* The stages after the current one that may come next; 0 is the end.
NextStages ==
  LET n == Len(Stages[fetch.kind])
      reach(j) == /\ j > fetch.at
                  /\ \A m \in (fetch.at + 1) .. (j - 1) :
                       Skipped(fetch.kind, Stages[fetch.kind][m])
  IN  {j \in 1 .. n : reach(j)} \cup (IF fetch.at = n THEN {0} ELSE {})

\* pick_injector and wait_for_cache suspend until there is an answer, which
\* is good or not; the other stages get theirs from the network or the disk.
pick_injector(ok) == IF ok THEN injector = "ok" ELSE injector \in {"none", "failed"}
wait_for_cache(ok) == IF ok THEN cache ELSE ~cache /\ ~starting

Answered(ok) ==
  /\ Here = "pick" => pick_injector(ok)
  /\ Here = "cache" => wait_for_cache(ok)

StageDone ==
  /\ InBody /\ ~BodyCancelled
  /\ \/ /\ Answered(TRUE)
        /\ \E next \in NextStages :
             Fetch(IF next = 0 THEN Ended("ok") ELSE [fetch EXCEPT !.at = next])
     \/ Answered(FALSE) /\ Fetch(Ended("error"))

\* Mutant of TimerFires: only the fetches under a watch dog time out.
TimerFiresOnlyAsDog ==
  /\ fetch.timer = "on" /\ fetch.kind \in Dogs
  /\ Fetch([fetch EXCEPT !.timer = "fired"])

\* The watch dog bites, or the timer branch of select() ends first.  The
\* watch dog of a load from Ouisync cancels an Async that nothing runs under.
TimerFires ==
  /\ fetch.timer = "on" /\ fetch.kind # "front_end"
  /\ IF fetch.kind \in Selects
     THEN /\ ~BodyCancelled
          /\ Fetch([fetch EXCEPT !.timer = "off",
                                 !.holder = IF @ = "none" THEN "timed_out" ELSE @])
     ELSE Fetch([fetch EXCEPT !.timer = "fired"])

\* Something cancels the fetch: another one won, or the user went away.
CallerCancels ==
  /\ fetch.phase # "returned" /\ ~fetch.cancelled
  /\ Fetch([fetch EXCEPT !.cancelled = TRUE])

\* Async::Cancelled leaves the body.  A direct fetch catches it and reports
\* a time out unless its caller is the one that was cancelled.
BodyThrows ==
  /\ InBody /\ BodyCancelled
  /\ Fetch(IF fetch.kind \in Selects THEN [fetch EXCEPT !.at = 0]
           ELSE Ended(IF fetch.cancelled THEN "thrown" ELSE "timed_out"))

TimerThrows ==
  /\ fetch.kind \in Selects /\ fetch.timer = "on" /\ BodyCancelled
  /\ Fetch([fetch EXCEPT !.timer = "off"])

\* select() is woken by the first result, or throws out of its wait; either
\* way it cancels the branches and waits for them.
SelectWakes ==
  /\ fetch.phase = "select"
  /\ fetch.holder # "none" \/ fetch.cancelled
  /\ Fetch([fetch EXCEPT !.phase = "cleanup"])

\* Mutant of SelectReturns: a cancellation during the clean-up is not
\* propagated.
SelectReturnsResult ==
  /\ fetch.phase = "cleanup"
  /\ fetch.at = 0 /\ fetch.timer = "off"
  /\ Fetch([fetch EXCEPT !.phase = "returned",
              !.result = IF fetch.holder = "none" THEN "thrown" ELSE fetch.holder])

SelectReturns ==
  /\ fetch.phase = "cleanup"
  /\ fetch.at = 0 /\ fetch.timer = "off"
  /\ Fetch([fetch EXCEPT !.phase = "returned",
              !.result = IF fetch.cancelled THEN "thrown" ELSE fetch.holder])

-----------------------------------------------------------------------------
(* serve_peer_request. *)

Peer(from, to) ==
  /\ peer = from /\ ~was_stopped
  /\ peer' \in to
  /\ UNCHANGED <<config, internal, cache, starting, setup, injector,
                 dht, upnp, server, i2p, listen, fetch>>

PeerArrives == server /\ Peer("off", {"read"})

\* A request for the cache is served, or refused when there is no cache, and
\* the loop goes on; a CONNECT goes to an injector; the read may also fail,
\* or be ended by its watch dog.
PeerRequests ==
  \/ Peer("read", {"off", "serve", "pick"})
  \/ Peer("serve", {"read", "off"})

\* Nothing bounds the time a peer waits for an injector or a connection.
PeerPicks ==
  \E ok \in BOOLEAN :
    pick_injector(ok) /\ Peer("pick", {IF ok THEN "connect" ELSE "reply"})

PeerTunnels ==
  \/ Peer("connect", {"reply", "tunnel"})
  \/ Peer("reply", {"off"})
  \/ Peer("tunnel", {"off"})

PeerThrows ==
  /\ peer # "off" /\ was_stopped
  /\ peer' = "off"
  /\ UNCHANGED <<config, internal, cache, starting, setup, injector,
                 dht, upnp, server, i2p, listen, fetch>>
-----------------------------------------------------------------------------
SetupStep ==
  \/ SetupBegins \/ Built \/ I2pAccepts \/ SetupThrows
  \/ InjectorBegins \/ InjectorReady \/ I2pCreated \/ Bootstrapped

FetchStep ==
  \/ StageDone \/ TimerFires \/ BodyThrows \/ TimerThrows
  \/ SelectWakes \/ SelectReturns

SetupNext ==
  \/ start_ouinet \/ stop_ouinet
  \/ listen_tcp \/ ListenEnds
  \/ SetupStep
  \/ \E k \in Kinds : FetchBegins(k)
  \/ FetchStep \/ CallerCancels
  \/ PeerArrives \/ PeerRequests \/ PeerPicks \/ PeerTunnels \/ PeerThrows

\* Timers expire and coroutines that can be resumed are resumed.  A cancelled
\* stage is resumed at once, as its wait or its connection is ended, except a
\* write that nothing ends.  Nothing is assumed of the network, the disk, the
\* caller or the user: a stage may never get its answer.
SetupFair ==
  /\ WF_setup_vars(TimerFires \/ TimerThrows \/ (~WritesOn /\ BodyThrows)
                   \/ SelectWakes \/ SelectReturns)
  /\ WF_setup_vars(SetupBegins \/ SetupThrows)
  /\ WF_setup_vars(listen_tcp \/ ListenEnds)
  /\ WF_setup_vars(PeerThrows)

SetupSpec == SetupInit /\ [][SetupNext]_setup_vars
-----------------------------------------------------------------------------
\* When a fetch returns to its caller, no branch of it is left running (the
\* branches of select() hold references into the frame that is gone), and it
\* throws exactly when its caller was cancelled: a time out is never mistaken
\* for a cancellation, nor a cancellation during the clean-up lost.
FetchReturnsClean ==
  (fetch.phase = "returned" /\ fetch.kind # "none") =>
    /\ fetch.at = 0 /\ fetch.timer = "off"
    /\ (fetch.result = "thrown") = fetch.cancelled

\* After stop_ouinet there is no cache, DHT, port mapping or uTP server, and
\* no coroutine of the set-up brings one back.
StopLeavesNothing ==
  was_stopped => ~cache /\ dht = "none" /\ ~upnp /\ ~server

\* A fetch from the origin, through an injector or from the distributed cache
\* returns even if no stage of it ever gets an answer, the injector never
\* becomes ready or the cache never starts.  One write is excepted: if the
\* other end of a tunnel never reads the request of a fetch through it,
\* timeout() cancels the write in vain and waits for it in the clean-up of
\* select().
FetchEnds ==
  (fetch.kind \in Selects \cup Dogs /\ fetch.phase # "returned")
    ~> (fetch.phase = "returned" \/ []WritesOn)

=============================================================================
