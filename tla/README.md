# Ouinet in TLA+

Ouinet is a network of clients and injectors that lets browsers reach Web
content by sharing it. An *injector* fetches a page from its origin and signs
it; a *client* is an HTTP proxy that gets a page from its origin, from an
injector, or from the copies other clients keep, stores it, and announces that
it has it. This directory holds TLA+ modules for the parts of Ouinet whose
correctness depends on the order of events, the TLC models that check them and
TLAPS proofs about them.

All of Ouinet's C++ code runs as stackful coroutines on one executor
(`asio::yield_context`, `async::Yield`): a coroutine keeps running until it
suspends, so two of them interleave only at suspension points (a read, a
write, a timer, a queue, a wait condition). File system operations (create,
rename, remove) do not suspend; reading and writing a file does. One action of
a module is what a coroutine does from one suspension point to the next.

## 1. Inventory

| Part | State | Operations | Talks to | What makes it hard |
|---|---|---|---|---|
| Announcer (`cache/announcer.cpp`) | queue of entries, loop, batch of announcing coroutines | add, remove, pick, announce, sleep | cache client, DHT or I2P tracker | calls arrive while an entry is held by a coroutine |
| Group index (`cache/dht_groups.cpp`) | map in memory, directories on disk | load, add, remove, pin | cache client | add suspends; stops and failures between files |
| HTTP store (`cache/http_store.cpp`) | directories of head, sigs, body | store, read, remove, walk | cache client, file system | overlapping stores, readers, collector, stops |
| Signed responses (`cache/http_sign.cpp`, `resource.h`, `hash_list.cpp`) | buffers, running hash, files | sign, split, read, verify, list hashes | injector, store, peers | blocks against pieces, ranges, one signature late |
| Cache client (`cache/client.cpp`) | store, index, announcers, collector | store, load, serve, purge, pin, start | all of the above | one operation spans three stores |
| Multi-peer reader (`cache/multi_peer_reader.cpp`) | peers, hash lists, block fetches | read part, close | DHT, peers | answers in any order, prefetch, timeouts |
| Client process (`client.cpp`) | set-up coroutines, cache, DHT, fetches | start, stop, fetch, serve peers | all of the client | time outs against answers, stop anywhere |
| Client proxy (`client.cpp`, `route.cpp`, `cache_control.cpp`) | sessions, jobs per request | fetch stored, fetch fresh, store, tunnel | cache client, injectors, origin | races of mechanisms, cancellation, stop |
| Injector (`injector.cpp`) | origin pools, sessions | proxy, inject | origin, clients | reuse of connections, stop |
| BEP5 client and server (`ouiservice/bep5/`) | swarms, peers, pings, bridges | connect, ping, wait for injectors | DHT, uTP | connects race, peers come and go |
| Mainline DHT (`bittorrent/`) | routing table, transactions, tracker, stored data | query, answer, lookup, announce, put, bootstrap | UDP | lost, late and repeated datagrams |
| Lookups (`cache/dht_lookup.h`, `peer_lookup.h`) | shared job, last result | get | DHT | stale result, job shared by several callers |
| Local peer discovery (`cache/local_peer_discovery.cpp`) | peers by id | hello, reply, bye | multicast UDP | lost and repeated datagrams |
| I2P (`ouiservice/i2p/`) | SAM session, tracker | connect, announce, look up | router | retries, session loss |
| Connection pools (`connection_pool.h`, `origin_pools.h`) | idle connections | get, insert | client, injector | a connection breaks while idle |
| Listening services (`ouiservice/`) | channels between layers | accept, handshake, hand on, stop | sockets, injector | a connection stuck between layers |
| UDP multiplexer (`bittorrent/udp_multiplexer.h`) | queues, one timer | send, receive | DHT nodes, uTP | two coroutines share a timer |
| UPnP (`upnp_updater.h`) | lease per device | add mapping, sleep | gateways | leases run out while others are asked |
| Metrics (`rust/src/metrics/`) | collector, records on disk | collect, store, send, rotate | client, servers | threads, restarts, torn files |
| Primitives (`util/`) | queues, conditions, semaphores, timers | wait, notify, cancel, select | everything | cancellation against completion |
| Rest | see `components` in PROJECT.json | | | text, codecs, wrappers |

What has to be right, in one sentence each: what a user is given is what an
injector signed; an entry in the store is one response, never a mix; what is
stored can be found through the index, and what is indexed is announced;
wanted content goes on being announced and removed content does not; a start
copes with what a stop left on disk; a node of the DHT believes only answers to
its own questions; a pooled connection is used by one session at a time; every
call returns if its peers answer or time out; nothing survives the stop of a
client. `hazards` in PROJECT.json lists, line
by line, where the code could break them.

## 2. Modules

| Module | Models | Runs |
|---|---|---|
| `Announcer` | `cache/announcer.cpp`, with the queue and wait condition it uses | `cache`, `announcer_removed_stays` |
| `HttpStore`, `ResponseStore` | `cache/http_store.cpp`, `util/atomic_dir`, `util/temp_dir`; what the store promises | `cache`, `http_store_gc` |
| `MultiPeerReader` | `cache/multi_peer_reader.cpp`, the first byte of an answer in `peer_message.cpp` | `cache`, `multi_peer_timeout` |
| `SignedResponse` | `cache/http_sign.cpp`, `chain_hasher.h`, `resource.h`, `hash_list.cpp`, `signed_head.cpp`, `quantized_buffer.h` and what `serve_local` and `Peer::read_block` do with them | `cache` |
| `DhtGroups`, `CacheClient` | `cache/dht_groups.cpp`; `cache/client.cpp` over it (by EXTENDS) | `cache_client`, `dht_groups_names` |
| `Route`, `ClientRequest` | `route.cpp`; `serve_request` of `client.cpp`, `dispatcher.cpp`, `cache_control.cpp`, `request.cpp`, `util/storing_reader.cpp`, `session.h` | `client_request`, `client_request_unsigned` |
| `CacheLoad` | `load` of `cache/client.cpp`, `cache/peer_lookup.h`, `dht_lookup.h`, `util/async_job.h` | `client_request` |
| `RoutingTable`, `DhtStorage`, `DhtNode` | `bittorrent/routing_table.cpp`, `dht_storage.cpp`; queries, receiving loop and handlers of `mainline_dht.cpp` | `dht` |
| `DhtLookup` | `bittorrent/collect.h`, `proximity_map.h` and the operations of `mainline_dht.cpp` that search the DHT | `dht` |
| `MainlineDht` | bootstrap, stored contacts, `MainlineDht` of `mainline_dht.cpp`; `bep5_announcer.cpp` | `network` |
| `Bep5Client` | `ouiservice/bep5/client.cpp` | `network` |
| `UdpMultiplexer` | `bittorrent/udp_multiplexer.h` | `network` |
| `UPnPUpdater` | `upnp_updater.h` | `network` |
| `LocalDiscovery` | `cache/local_peer_discovery.cpp` | `network` |
| `OriginPool`, `Injector` | `connection_pool.h`, `origin_pools.h`; `injector.cpp` | `injector` |
| `Listeners` | listening sides of `ouiservice/`, `ouiservice.cpp`, `listen` of `injector.cpp` | `injector` |
| `ClientSetup` | start, stop, set-up, peer sessions and fetches of `client.cpp`, `util/async`, watch dogs | `client` |
| `Metrics` | `rust/src/metrics/`, `rust/cxx`, sending of records in `client.cpp` | `client` |
| `CacheProofs`, `HttpStoreProofs`, `RetrievalProofs`, `RequestProofs`, `DhtProofs`, `NetworkProofs`, `InjectorProofs`, `ClientProofs` | proofs, see section 4 | |

`map` in PROJECT.json gives the source lines of every definition. Definitions
are named after the function they stand for where there is one
(`add`, `remove`, `pick_entry`, `process_end`, `verify_chunk_hdr`); where a
function suspends, its segments are actions of their own. Each `Mutant of X`
definition, placed before X, is X with a plausible slip; replacing X by it
violates one of the properties, which shows that the property depends on X.

`MCCache`, `MCClientRequest`, `MCDht`, `MCNetwork`, `MCInjector` and `MCClient`
each hold several components. A behaviour of them is about one component, chosen by its initial
state; the others start where they have no enabled action. The states of such a
run are the sum, not the product, of those of its components. Components that do
interact are composed in the modules themselves: `CacheClient` over `DhtGroups`,
`DhtNode` over `RoutingTable` and `DhtStorage`, `ClientRequest` over `Route`,
`Injector` over `OriginPool`.

### Announcer

`entries` is the queue, `jobs` the announcing coroutines of a batch, `pc`, `n`
and `timer` the loop coroutine. The loop picks the first due entry, spawns a
coroutine that holds it, fills a batch of `Simultaneous` and waits for all to
end; each announces up to three times and pushes its entry back. Time is
counted in ticks to the next update of each entry, because only differences of
time points matter to the code. `wanted` is a history variable: was the last
call for the key an `add`?

### DhtGroups

`groups` is the map in memory and `disk` the directories. `add` suspends once,
between creating a group's directory and having written its `group_name`.
`may`, chosen initially from `Worlds`, says which events a behaviour can have
(overlapping adds, stops between or inside file operations, cancellation,
failing operations), so that properties that need one of them excluded say so
in terms of `may`, and one run covers both.

### HttpStore

A file holds the number of the `store` call that wrote it, so a mixed entry is
visible. `stalled` is a history variable: did the writing of a response pause
for the ten minutes after which the collector takes its directory for a
leftover? The collector (`gc`) suspends while it reads the head it judges.
`ResponseStore` is what a caller may rely on: under a key there are files of one
response or nothing, and a response gets there whole, in one step and at most
once. `HttpStore!Abstract` instantiates it with `contents <- Contents` (which
response the files of an entry come from) and `taken <- Taken` (the responses
that are not being stored any more).

### CacheClient

Extends `DhtGroups` with the store (one state per item), the announcers (the
set of names each was told to announce), the coroutines inside `store`, and
the walks of the collector and of a purge. A step of the index inside
`store` is the action of `DhtGroups`, conjoined with what the client does with
its result. The static groups behind the index are `FallbackItems`; `remove` of
a resource with `group_pinned` does not leave them out (section 5).

### MultiPeerReader

An injection is a time stamp with a sequence of blocks; each peer has a copy of
one. `candidates`, `good` and `reader` are the fields of the class, `fetch` and
`pre_fetch` the two requests of blocks in flight, `out` the parts returned. All
three constructors (DHT, local network, I2P) are modelled (`kind`). A fetch is
`"asked"` until the peer's first byte arrives, which the code waits for without
a time limit, and `"answered"` while the rest is read, part by part, with one.

### SignedResponse

A behaviour takes one response from its origin in pieces of any size through
`SigningReader` and `SplittedWriter` to the files, optionally damages the files
in one of the ways a static cache or a stop could (an older head, signatures
missing, a line lost or mixed with another injection's, a body missing, linked,
cut, changed or mixed), and then reads it as a whole, as a range, as a hash
list or as a single block, with or without verification, possibly while the
entry is replaced. Hashes and signatures are the values they cover, hence
injective.

### Route and ClientRequest

`Route` is the choice of mechanisms as a function of request and configuration;
a route is the set of its mechanisms. `ClientRequest` is one connection of a
user agent: `pc` is where the loop of `serve_request` is suspended, `kid` the
two tasks of `primary_or_secondary` with their results `pr` and `sr`, `cc` where
`CacheControl::fetch` is suspended with its results `freshR` and `storedR`,
`fkid` the children it spawned (per request: they may outlive it), `at` where
the streaming is suspended, and `stores` the storing coroutine of each request
with its queue. A cancelled coroutine is `"cancelled"` until it resumes and
throws. The mechanisms are outcomes: the origin, the injectors and the caches
answer or fail. `used` is a history variable, the mechanisms contacted for the
request; so are the fields of a response that say which entry it came from and
what had become of the fresh one.

### CacheLoad

`lookups` are the `PeerLookup` objects, each with its search and what is left of
its last result (`"fresh"` for five minutes, then `"old"`), `lru` the client's
cache of them and `loads` the calls of `load` with the coroutines of the readers
they made. An object lives while the cache or a reader refers to it.

### RoutingTable, DhtStorage and DhtNode

`RoutingTable` and `DhtStorage` are operators on buckets, tokens, swarms and
items; `DhtNode` owns the variables and has an action per query, time out,
datagram and handler. Ids are distances from the own id, tokens are records of
what is hashed, time points are kept as what the code asks of them. The network
loses, delays, repeats and reorders: a reply to a query may arrive at any time,
any number of times or never. `w` is the *world* of a behaviour, which of the
node's duties it is about. `heard` is a history variable. A query is registered
before its datagram is sent, so a reply counts from then on. `tokens` holds the
tokens each address was given, by id and by use (tracker or data store); a query
that needs a token may come with any of those its address has or with none.
As `is_good` asks for a message of the last fifteen minutes, a questionable node
is never good and is replaced at once; the code that queues candidates for it is
in the model but finds no questionable node, and the lists stay empty.

### DhtLookup

`collect` with its queue of new candidates, slots of the scheduler, jobs and
their watch dogs, and the six operations on top of it: `find_closest_nodes`,
`tracker_announce` (whose search is that of `tracker_get_peers`) and the get and
put of immutable and mutable items, with writes and their retries. A contact is
its rank in distance from the target. That a query ends is what
`QueriesEnd` of `DhtNode` shows.

### MainlineDht

One node per local endpoint: bootstrap in rounds with scores, the endpoint it
is seen at, ready, contacts written to a file and read by the next run, stop;
and the loops of periodic and manual `Bep5Announcer`s with `update`.

### Bep5Client

`swarm` holds the loop and the LRU list of peers of each swarm; `call` is one
`connect()` with its lookups, channel, candidates and attempts; `pinger` the
injector pinger. What lookups find and which peers accept is free.

### UdpMultiplexer, UPnPUpdater, LocalDiscovery

`UdpMultiplexer` has the sending and the receiving coroutine with the one timer
both use. `UPnPUpdater` has discrete time that passes in sleeps and requests,
devices that renew a mapping (`Renews`) and devices that only say so; a round may
take any time. `missed`, `slow` and `lapsed` are history: the devices that were
not asked or failed, those after whose request the round went on for the margin,
and those whose mapping ran out for neither reason. `LocalDiscovery` has clients that come, query, answer
and leave; what one sends to another arrives in order and is not lost, because
the code sends its query once and has no retry.

### OriginPool, Injector and Listeners

`OriginPool` is what happens to one pooled connection, including the read that
watches it while idle and the byte it may have taken. `Injector` has the
sessions of clients over it; the origin answers, stalls, sends too much or
closes at any point. `Listeners` has the layers a connection passes: socket, uTP,
TLS handshake, `MultiUtpServer`, `OuiServiceServer`, `listen`.

### ClientSetup

`start_ouinet`, `setup_cache`, `setup_injectors`, `listen_tcp`, the I2P session
task, the uTP server and `stop_ouinet`, each suspended at any of its waits when
the stop comes; and one fetch of each kind with its stages. The two kinds of
time out are kept apart: a watch dog on the caller's own coroutine, and
`select()` over two coroutines that refer to the caller's frame.

### Metrics

The runner with its `select`, the store of records with the files of device id
and record number, the collector other threads add to, the watch that starts and
stops the backoff, enabling and disabling, and starts of the process with files
cut short. A collected datum is the device id that was current then.

## 3. Runs

Sizes are distinct states found by TLC.

| Run | Size | Shows |
|---|---|---|
| `cache` (`MCCache`) | 476 k | `KeptWhileWanted`, `KeepsAnnouncing`: wanted keys are neither lost nor forgotten; `StoresWholeResponses` (refinement of `ResponseStore`), `StoreOnlyReplaces`, `LeftoversVanish`: the store; `DeliversReference`, `CallsReturn`: downloads from several peers return what one of them has, and return while peers answer or time out; `StoredIsChain`, `AcceptedIsSigned`, `RangeIsServed`: signatures and ranges |
| `announcer_removed_stays` | | violation of `RemovedIsDropped`, see section 5 |
| `http_store_gc` | | violation of `RemovesOnlyTheJudged` |
| `multi_peer_timeout` | | violation of `EndedIsFailed` |
| `cache_client` (`MCCacheClient`) | 2.1 M | `DiskMirrorsMemory` without overlap and torn files; `GroupsAreAnnounced` for the groups of the own index, always; `EntriesAreIndexed` when nothing fails; `StartDropsDeadGroups` after anything |
| `dht_groups_names` | | violation of `GroupsHaveNames` |
| `client_request` (`MCClientRequest`) | 507 k | `PrivateStaysPrivate`: what is contacted and stored; `StaleIsMarked`, `FreshBeatsOld`: what the cache may answer; `PushedIsStored`: storing while streaming; `DispatchEnds` (liveness); `PeersAreRecent`: shared lookups |
| `client_request_unsigned` | | violation of `ServedAsNormal` |
| `dht` (`MCDht`) | 294 k | `TableSound`, `OnlyHeardInTable`: the routing table; `AnnouncersHoldTokens`: the tracker; `QueriesEnd`; `NothingCloserLeft`, `LookupEnds`: searches |
| `network` (`MCNetwork`) | 189 k | `FailureIsExhaustive`: connecting to a swarm; `MappingKept`: port mappings; `UpdateIsAnnounced`, `SendEnds`, `LocalViewsSettle` (liveness) |
| `injector` (`MCInjector`) | 363 k | `ReadInOrder`, `PooledIsIdle`: pooled connections; `InjectEnds`, `NoneLeftBehind` (liveness) |
| `client` (`MCClient`) | 579 k | `StopLeavesNothing`, `FetchReturnsClean`, `FetchEnds`: the process; `RecordsDoNotMix`, `StoredAreSent`: metrics |

The comment before each property says it in full.

**Bounds, and why they are enough.**

* `MCCache`: 2 keys, 2 slots, periods 2 and 1, 4 calls, which allow add, remove,
  add on one key around an add on the other; 1 key, 2 storers, 1 reader, 2
  stores, 1 stop, since the conflicts in the store are between two operations on
  one key; 3 peers (1 local) and 3 injections, a reference, a peer that agrees
  and one that does not; blocks of 2 units over 2 values, all bodies of at most 3
  units and those of 4 and 5 units that begin with one given block, which have
  zero to three blocks, full and partial last ones.
* `MCCacheClient`: 1 group, 2 items, 2 adders (symmetric; the run has no liveness
  property), 1 announcer, three worlds: overlapping adds, stops between file
  operations, and stops inside them with cancellation and failing operations.
* `MCClientRequest`: 15 requests, 3 configurations, 2 requests on a connection,
  so that what the first leaves behind overlaps with the second, and 1 part of
  body, which with the head fills the queue of a `StoringReader`; 2 loads of 2
  swarms and room for 1 lookup, so that a lookup is dropped while it is used.
* `MCDht`: ids of 3 bits and buckets of 2, so that four contacts split, fill and
  replace; seven worlds, one of which has tokens of two swarms and of the data
  store offered with an announcement; a map of 2, 2 slots, 3 nodes for a plain
  search and 2 for the others, and a bootstrap endpoint.
* `MCNetwork`: an IPv4 node run twice, or an IPv4 and an IPv6 node with two
  announcers and 2 updates; 2 injectors and 2 helpers of which one is both, a
  cache too small for all; 2 messages and 3 packets; 2 gateways, one that renews,
  with a lease of two margins (4 and 2), a wait of 2 after a failure and rounds
  of any length up to 5, more than the lease; 3 clients.
* `MCInjector`: a client with 2 requests and one with 1, 2 origin connections, 2
  hosts of which one is private, an injector that proxies and one that does not
  and allows private targets, both restricted; 3 listeners, 4 connections.
* `MCClient`: 4 configurations, one fetch; a week of 1 hour, 2 starts, 3 events.

`CHECK_DEADLOCK FALSE` is set everywhere but for `cache_client`: behaviours end
when the response was read, the connection or the client is gone, or a bound is
reached.

**Fairness.** Weak fairness of the steps of each coroutine: the executor is a
FIFO of ready handlers, so a coroutine that is ready runs. Weak fairness of time
(`Tick`, `TempAges`, timers). Weak fairness of the end of each network operation
that has a time out in the code, where timing out is one of the ends: queries of
a DHT node (`QueryExpires`), jobs of a search, hash lists and the parts of a
block, `inject_fresh` and `flush_response` of the injector, TLS handshakes, the
fetches of a client. Where the code waits without a time limit there is no
fairness, and the property says what becomes of it:

* `ReaderFair`: none for the first byte of a peer's answer to a request for a
  block (`peer_message.cpp:94`, read before `multi_peer_reader.cpp:198` listens
  to cancellation). `CallsReturn` says that a call returns, or waits for that byte
  for ever, or a hash list timed out (`multi_peer_timeout`).
* `SetupFair`: none for a private fetch that writes its request
  (`client.cpp:1226`), which neither its time out nor the stop ends. `FetchEnds`
  says that a fetch returns or is in that write for ever.
* `InjectorFair` is the fairness of all sessions together: some session that can
  step does. A session may wait for its client or tunnel for ever.

Four assumptions are about the surroundings and not the code:

* `ClientRequest`: the source of a response and the user agent go on, as streaming
  to the user agent has no time out. `DispatchEnds` does not depend on it.
* `MainlineFair`: a bootstrap node that keeps being asked answers in the end
  (strong fairness), or no node ever becomes ready and nothing is announced.
* `LocalFair`: the local network delivers.
* `MetricsFair`: sending a record that keeps being tried succeeds in the end
  (strong fairness), or nothing could ever be sent.

Nothing is assumed about callers, about peers answering rather than failing, or
about stops of the process.

## 4. Proofs

Each theorem holds for every value of the constants that satisfies the named
assumptions of its module. Proofs that a step preserves an invariant have one
step per action; the leaves cite the definitions they expand.

| Module | About | Theorem | Establishes |
|---|---|---|---|
| `CacheProofs` | `Announcer` | `TypeCorrect`, `BatchesAreBounded` | types; at most `Simultaneous` coroutines in a batch |
| | | `WantedIsKept` | `[]KeptWhileWanted` |
| `HttpStoreProofs` | `HttpStore` | `StoreRefines` | `StoreSpec` implements `ResponseStore` (`StoresWholeResponses`) |
| | | `StoringReplaces` | the action property `StoreOnlyReplaces` |
| `RetrievalProofs` | `DhtLookup` | `SearchesAreExhaustive` | `[]NothingCloserLeft` |
| | `MultiPeerReader` | `ReadersDeliverTheReference` | `[]DeliversReference` |
| `RequestProofs` | `CacheLoad` | `ReadersGetRecentPeers` | the action property `PeersAreRecent` |
| | | `WaitersHaveSearches` | a call that waits has a search to wait for |
| | `ClientRequest` | `StaleResponsesAreMarked`, `FreshResponsesWin` | `[]StaleIsMarked`, `[]FreshBeatsOld` |
| | | `PushesAreStored` | `[]PushedIsStored` |
| | | `PrivateRequestsStayPrivate` | `[]PrivateStaysPrivate` |
| `DhtProofs` | `DhtNode`, `RoutingTable` | `TableStaysSound`, `TableHoldsWhoAnswered` | `[]TableSound`, `[]OnlyHeardInTable` |
| `NetworkProofs` | `Bep5Client` | `FailuresAreExhaustive` | `[]FailureIsExhaustive` |
| | | `HelpersReachInjectors` | the client is announced as a helper only after an injector was reached (`HelperNeedsInjector`, in no run) |
| | `UPnPUpdater` | `MappingsAreKept` | `[]MappingKept` |
| `InjectorProofs` | `Injector`, `OriginPool` | `PoolsHoldIdleConnections`, `NothingReadIsLost` | `[]PooledIsIdle`, `[]ReadInOrder` |
| `ClientProofs` | `ClientSetup` | `StoppedIsBare`, `FetchesReturnClean` | `[]StopLeavesNothing`, `[]FetchReturnsClean` |
| | `Metrics` | `RecordsStayPure` | `[]RecordsDoNotMix` |
| | `CacheClient`, `DhtGroups` | `AnnouncesItsGroups` | `[]GroupsAreAnnounced` |
| | | `StartsDropDeadGroups` | the action property `StartDropsDeadGroups` |
| | | `DiskIsMemory`, `StoredIsIndexed` | `[]DiskMirrorsMemory`, `[]EntriesAreIndexed` |

**The invariants, and why they are needed.**

* `KeptInv` adds to `KeptWhileWanted` that copies held by coroutines are never
  marked for removal (`JobsUnmarked`: a marked copy would not be pushed back) and
  that a slot is free when the loop spawns into it (`BatchBounded`).
* `StoreInv` (`HttpStoreProofs`): the versions of calls of `store` in progress
  are distinct and a temporary directory holds only files of its own version.
  Without it a commit could bring a mixed entry, or one twice. The refinement then
  has a lemma per kind of step on what it does to `Contents` and `Taken`.
  `LiveInv` adds that, while no writing stalled, the directory of an active store
  is there and recent, so that the collector does not take it.
* `LookupInv`: a contact is picked once and is then still to be asked, was asked,
  was passed by enough closer ones, or the search has its item (`JobsSound`); the
  collecting coroutine stops only when nothing is active, queued or unpicked, or
  with an item (`StopsSound`).
* `ReadInv`: the reader stands at the block after those it returned, the fetch in
  progress is for that block and the prepared one for the next that will be asked
  for, each from a peer whose list agrees with the reference there.
* `LoadInv`: a coroutine that looks up peers refers to a lookup; the search it waits
  for runs; and when it is woken the search failed or left a fresh result.
* `AgeInv`: what may be returned (`Good`) holds of the response and of the result
  of the secondary task, not only at the end. `StoreInv` (`RequestProofs`): the
  queue of a storing coroutine has one part in front and only ends behind it, and
  what was pushed is written or in front. `RaceInv` and `PrivateInv`: which
  coroutines of a race may be suspended where; neither the route, nor the
  mechanisms, nor any result of a request that must not be cached is public.
* `NodeInv`: the table is `Sound` (each node is in the bucket of its id and in it
  once, no bucket is too large, and there are never candidates), nothing was sent
  before there is a table, and the destination of every query with a reply was
  heard.
* `ListsInv`: each endpoint offered to a call of `connect()` was tried, once, is a
  candidate or is still in the channel, and no candidate was tried. `CallInv`:
  while no attempt has succeeded the channel stays open until the last lookup has
  sent, and the counter of jobs is the number of active ones, so that the call
  does not give up early. `SeenInv`:
  `_injector_was_seen` is set only with evidence.
* `LeaseInv`: how much of a lease is left at each point of the loop. A device
  renewed in this round has had `elapsed` at most taken off its lease, and has
  counted as a success unless the margin is used up (`Renewed`); after a round that
  did not go on for the margin, the lease outlasts the sleep by a margin. Nothing
  is assumed of the length of rounds.
* `TypeInv` (`InjectorProofs`), `PooledIsIdle` and `InOrder`: only one of the idle
  read, the queue and a waiting reader has the next part of a connection, and a
  session holds a connection only while it sends or reads.
* `StopInv`, `FetchInv`: what may exist in each state of the client; a fetch that
  cleans up has a result or was cancelled.
* `MixInv`: between publishing a new device id and clearing the collector, the
  runner stores nothing.
* `AnnounceInv`: a call of `store` that waits for its group adds the item and the
  group it was called for, and nothing is announced while the client is down.
  `MirrorInv`, for the behaviours `DiskMirrorsMemory` is about: only the group
  being added may be on disk and not in memory, and its directory was made by the
  one adder. `EntryInv`, while nothing fails: an entry is in the index or some call
  of `store` is adding it. `CheckedGroups` is the lemma on what a start leaves of
  the groups.

**Assumptions.** All are `ASSUME`s of the component modules, evaluated by TLC in
the runs: batch sizes, capacities and sizes of ids and buckets are positive,
periods and bounds are in `Nat`; `StoredAssumption`, `NamesAssumption`,
`FallbackAssumption` and `WorldsAssumption` of the index; finite sets of swarms
and of callers; requests of the injector name known hosts; injections are numbered
from 1; for port mappings `0 < recent_margin /\ 2 * recent_margin <= lease_duration`
(ten seconds and three minutes in the code). `MaxRound` only bounds TLC's time:
`MappingsAreKept` holds for every value of it.

**Model-checked only.** Liveness (`KeepsAnnouncing`, `LeftoversVanish`,
`CallsReturn`, `DispatchEnds`, `QueriesEnd`, `LookupEnds`, `UpdateIsAnnounced`,
`SendEnds`, `LocalViewsSettle`, `InjectEnds`, `NoneLeftBehind`, `FetchEnds`,
`StoredAreSent`): it needs fairness and `ENABLED`, which the prover does not
support. `StoredIsChain`, `AcceptedIsSigned` and `RangeIsServed` of
`SignedResponse`, and `AnnouncersHoldTokens`, about a swarm that expires and
removes its peers in a fold: they would need induction over data.

## 5. Disagreements between code and documentation

Shown by a run (quoted under `findings`):

* A key removed while it is being announced is put back and announced for ever
  (`announcer.cpp:272`).
* Two overlapping adds and a remove leave a group directory without
  `group_name`, and the next load of the whole index fails
  (`dht_groups.cpp:411`).
* The collector removes a fresh entry that replaced the one it judged
  (`http_store.cpp:946`).
* A peer whose hash list timed out stays a candidate and the reader waits for
  it for ever (`multi_peer_reader.cpp:669`).
* A response of an injector that the cache refuses to store, because it has no
  signature, or fails to write, stalls on its way to the user agent: the storing
  coroutine has ended and nobody empties the queue (`storing_reader.cpp:62`).

Met while modelling, without a run of their own. Those of the cache and of the
requests are as follows:

* A static group stops being announced when the last item the client itself
  stored in it is removed: `unpublish_cache_entry` (`cache/client.cpp:682`) calls
  `remove(id, group_pinned)`, and `BackedDhtGroups` overrides only `remove(id)`
  (`dht_groups.cpp:631`, with the comment "Do not report groups still in fallback
  as emptied."; `dht_groups.h:67` "Removal of items does not return groups which
  remain in fallback groups."). `Backed_remove_pinned_returns` has it, and
  `GroupsAreAnnounced` is about the own index.
* If adding a stored response to its group fails, the entry stays in the store
  without a group, so `EntriesAreIndexed` is stated without failures.
* The first byte of the answer to a request for a block has no time limit, and a
  reader that is closed meanwhile does not end the wait (`multi_peer_reader.cpp:192`).
* Writing the request of a private fetch has no time out that ends it
  (`client.cpp:1226`).
* A reader whose sigs file ends early ends without an error when the head has a
  data size, and with a missing body serves an empty one (`resource.h:311`),
  where `http_store.h:96` and `:208` say the connection is aborted; a
  `VerifyingReader` then ends without having checked the body.
* A truncated line of sigs is treated as the end of the file
  (`resource.h:76`).
* A range that does not start at 0 never verifies, as the signer's chain cannot
  be resumed (a TODO in `http_store.cpp:740`).
* The comments at `http_sign.cpp:878` and `http_store.cpp:204` leave the
  previous signature out of the chain hash; the code has it in.
* The last byte of `Content-Range` wraps around for an empty body
  (`resource.h:207`).
* A static store cannot open an entry with an empty body unless the link to its
  content exists.
* `add` in the announcer means to wake the loop's sleep and does not
  (`announcer.cpp:219`); the delay is bounded by the sleep.
* A web socket goes to the origin also when access to it is disabled
  (`client.cpp:1666`; `client_config.cpp:250` "Disable direct access to the
  origin").
* A request to a private address that is tagged private or not a GET or HEAD
  returns before the rule at `route.cpp:345` that keeps it off the network.
* After a bad request the connection is kept only if the answer could not be
  written (`client.cpp:1987`).
* A lookup of peers returns a result older than five minutes when the job it
  waited for failed, since a failure leaves `_last_result` alone
  (`peer_lookup.h:50` "Use previously returned result if it's not older than
  5mins").

Those of the client and its metrics:

* `setup_cache` never sets the error its caller looks at (`client.cpp:2068`), so
  the state is Started also when the cache failed (`client.h:30` "told to start,
  all operations succeeded"); `get_state` ignores an I2P injector.
* `primary_or_secondary` leaves its tasks behind on shutdown (`dispatcher.cpp:71`).
* `id_delay >= sq_delay` chooses the later of two alarms (`runner.rs:243`).
* Failing to send a record throws out of a detached coroutine
  (`client.cpp:1398`), where `record_processor.rs:24` says "`Some(false)` if
  processing failed. We should wait and retry".
* A torn `record_number.json` restarts the numbers; purging keeps
  `oldest_record` cached; `increment_transfer_size` does not mark the collector
  as modified; what a thread adds between publishing and clearing is lost.

Those of the network:

* The sending and the receiving coroutine of the UDP multiplexer share a timer
  (`udp_multiplexer.h:218`): a delay cut short is reported as an error and can end
  the receive loop of a DHT node. A cancelled send leaves its entry queued.
* The receive loop of a DHT node ends after one reply that could not be sent; the
  handlers of get and put use `_routing_table` without looking whether there is
  one; two nodes share `stored_peers-ipv4.txt`; the comment at
  `mainline_dht.cpp:2027` has five tries of a write where `TRIES` is 3, and any
  answer counts as success.
* `connect()` of the BEP5 client waits for its slowest attempt, where the comment
  at line 602 says that it cancels all; timers that should hold a lock of its
  semaphore are destroyed at once (678); a swarm whose peers are all filtered is
  looked up again without delay (168).
* A round of the UPnP updater that goes on for `recent_margin` after a device was
  asked, or makes the device wait for that long, lets its mapping run out although
  the device renews: the margin is for one request (`upnp_updater.h:84` "max RPC
  round-trip time") and a round makes several for each device. `MappingKept` says
  that there is no other way.
* A local query is sent once and not repeated.

Those of the injector:

* After a proxied response failed half-way the loop for the next request goes on
  (`injector.cpp:708`); a pool is erased when it is emptied, and the
  connection taken from it is then not put back, as the NOTE at `injector.cpp:508`
  says it is; a proxied request waits for the origin's
  head without a time out; `MultiUtpServer::start_listen` returns the first error
  although other listeners started.

## 6. Not modelled, and why

* Text in and text out: bencoding, SAM replies, URLs, peer messages, pages of the
  front end, option parsing, HTTP headers, logging. Models of these would restate
  parsers character by character.
* Cryptography, hashing, certificates and key derivation are injective
  constructors or outcomes; which headers a signature covers, and
  `KeepSignedReader`.
* The arithmetic of ages and dates and `ok_to_cache` in `cache_control.cpp`:
  `ClientRequest` chooses their results.
* An empty body part between two non-empty ones, which would flush a partial
  block (`http_sign.cpp:492`): the readers in the repository do not make them.
* I2P sessions and tracker beyond their outcomes, Ouisync, the wrappers for
  Android and iOS: they drive external programs and libraries. Also external:
  Boost.Beast, asio-utp, i2pd, miniupnpc.
* `timeout_stream.h` and full duplex forwarding: a tunnel is something that ends.
* Loads before `enable_dht` has run, which `setup_cache` lets through, and the
  I2P branch of `load`: `CacheLoad` begins when the DHT is set.
* `PeerLimiter` and `persistent_lru_cache.h`, which only tests use or nobody.
* The contents of metrics records and the clock being set back.
* Debug assertions.

Each is a component in PROJECT.json with its status.

## 7. Plan

1. I2P: session set-up with retries, the tracker client and its announcer.
2. Age arithmetic and `ok_to_cache`; `serve_peer_request` down to `serve_local`.
3. A run on the announcement of static groups (section 5).
4. A proof of `AnnouncersHoldTokens`, with the expiry of peers described rather
   than folded.

## 8. Running

    tlc -config MCCache.cfg MCCache      # one of the runs
    tlapm ClientProofs.tla               # the proofs of one module

`runs` in PROJECT.json lists the pairs of module and configuration.
