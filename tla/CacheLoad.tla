----------------------------- MODULE CacheLoad -----------------------------
(***************************************************************************)
(* Loading a response from the cache (load in src/cache/client.cpp) and    *)
(* the lookups of peers that loads of the same swarm share (PeerLookup in  *)
(* src/cache/peer_lookup.h, on top of src/util/async_job.h).               *)
(*                                                                         *)
(* A load first reads the local copy; unless that is enough it makes a     *)
(* reader, whose coroutine asks the lookup of the swarm for peers until    *)
(* there are some.  The client keeps the lookups it used last; a lookup    *)
(* lives while the client or a reader refers to it, and its destructor     *)
(* cancels the search it runs.  A search may fail or time out; what it     *)
(* found is used for five minutes without waiting for the next search.     *)
(*                                                                         *)
(* Modelled from the moment at which enable_dht has set _dht, which        *)
(* dht_peer_lookup asserts.  The reader's other half is in                 *)
(* MultiPeerReader.                                                        *)
(***************************************************************************)
EXTENDS Naturals, Sequences, SequencesExt, FiniteSets

CONSTANTS
  Caller,     \* coroutines that call load
  Swarm,      \* the swarms of the groups that are asked for
  Capacity    \* of _dht_peer_lookups (256)

ASSUME LoadAssumption == Capacity \in Nat \ {0} /\ IsFiniteSet(Caller)

VARIABLES
  lru,      \* _dht_peer_lookups, the last used first
  lookups,  \* the DhtLookup objects
  loads     \* the calls of load, with the readers they made

load_vars == <<lru, lookups, loads>>

\* Addresses of lookups: enough for those that can be alive.
Id == 1 .. Capacity + Cardinality(Caller)

\* _last_result is "none" until a search succeeds, "fresh" and then "old".
NewLookup(s) == [swarm |-> s, job |-> FALSE, last |-> "none", found |-> FALSE]
NoLookup == [swarm |-> {}, job |-> FALSE, last |-> "none", found |-> FALSE]

\* at is where load is, look where the reader's coroutine is, lookup is its
\* _dht_lookup, and ended how the search it waited for went.
NoLoad == [at |-> "idle", swarm |-> {}, look |-> "none", lookup |-> 0, ended |-> "none"]

LoadInit ==
  /\ lru = <<>>
  /\ lookups = [i \in Id |-> NoLookup]
  /\ loads = [c \in Caller |-> NoLoad]

------------------------------------------------------------------------------
(***************************************************************************)
(* The objects: an LRU cache of shared pointers.                           *)
(***************************************************************************)

Referred(q, l) == Range(q) \cup {l[c].lookup : c \in Caller}

\* The cache and the calls become q and l; lookups nobody refers to any more
\* are destroyed, and their searches cancelled.
Become(objects, q, l) ==
  /\ lru' = q
  /\ loads' = l
  /\ lookups' = [i \in Id |-> IF i \in Referred(q, l) THEN objects[i] ELSE NoLookup]

Cached(s, i) == i \in Range(lru) /\ lookups[i].swarm = s

Unused(i) == i \notin Referred(lru, loads)

\* The reader that load makes for a request of a swarm, with its lookup.
WithReader(c, i) ==
  [loads EXCEPT ![c] = [NoLoad EXCEPT !.at = "create", !.look = "dht", !.lookup = i]]

\* dht_peer_lookup finds the lookup of the swarm in the cache ...
LookupCached(c) ==
  \E i \in Id :
    /\ Cached(loads[c].swarm, i)
    /\ Become(lookups, <<i>> \o SelectSeq(lru, LAMBDA j : j # i), WithReader(c, i))

\* ... or makes one, which may drop the lookup that was not used for longest.
LookupMade(c) ==
  \E i \in Id :
    /\ \A j \in Id : ~Cached(loads[c].swarm, j)
    /\ Unused(i) /\ \A j \in 1 .. i - 1 : ~Unused(j)
    /\ Become([lookups EXCEPT ![i] = NewLookup(loads[c].swarm)],
              <<i>> \o (IF Len(lru) < Capacity THEN lru ELSE Front(lru)),
              WithReader(c, i))

------------------------------------------------------------------------------
(***************************************************************************)
(* load.                                                                   *)
(***************************************************************************)

LoadBegins(c, s) ==
  /\ loads[c].at = "idle"
  /\ loads' = [loads EXCEPT ![c] = [NoLoad EXCEPT !.at = "local", !.swarm = {s}]]
  /\ UNCHANGED <<lru, lookups>>

\* Whether the local copy is returned without asking peers.
Enough(copy, is_head_request) == copy = "complete" \/ (copy = "partial" /\ is_head_request)

Returns(c) == Become(lookups, lru, [loads EXCEPT ![c] = NoLoad])

\* load_from_local returns: there is no copy, a part of it, or all of it.
LocalRead(c, copy, is_head_request) ==
  /\ loads[c].at = "local"
  /\ IF Enough(copy, is_head_request) THEN Returns(c) ELSE LookupCached(c) \/ LookupMade(c)

\* Session::create reads the head of the reference, from peers of the local
\* network or from some that were found.
SessionCreated(c) ==
  /\ loads[c].at = "create"
  /\ loads[c].look # "dht"
  /\ loads' = [loads EXCEPT ![c].at = "open"]
  /\ UNCHANGED <<lru, lookups>>

\* No peer has it: an incomplete copy is returned with a warning, or an error.
SessionFails(c) ==
  /\ loads[c].at = "create"
  /\ loads[c].look = "done"
  /\ Returns(c)

\* The session is closed, or the call of load is cancelled.
Leaves(c) ==
  /\ loads[c].at # "idle"
  /\ Returns(c)

------------------------------------------------------------------------------
(***************************************************************************)
(* The reader's coroutine, PeerLookup::get and the search.                 *)
(***************************************************************************)

\* Mutant of is_fresh: the age of the result is not looked at.
is_fresh_forever(i) == lookups[i].last # "none"

is_fresh(i) == lookups[i].last = "fresh"

\* The coroutine gets the last result: it ends if there are peers, and tries
\* again after a while if there are none or there is no result.
Takes(c, objects) ==
  LET i == loads[c].lookup
  IN  IF objects[i].last # "none" /\ objects[i].found
      THEN Become(objects, lru, [loads EXCEPT ![c] = [@ EXCEPT !.look = "done", !.lookup = 0, !.ended = "none"]])
      ELSE Become(objects, lru, [loads EXCEPT ![c] = [@ EXCEPT !.look = "sleep", !.ended = "none"]])

\* A call of get: a search is started unless one runs, even if the last
\* result is still fresh and is returned at once.
Asks(c) ==
  /\ loads[c].look \in {"dht", "sleep"}
  /\ LET i == loads[c].lookup
         started == [lookups EXCEPT ![i].job = TRUE]
     IN  IF is_fresh(i)
         THEN Takes(c, started)
         ELSE /\ loads' = [loads EXCEPT ![c].look = "get"]
              /\ lookups' = started
              /\ UNCHANGED lru

\* The waiting calls of get are notified; they go on later.
Notified(i, how) ==
  [c \in Caller |->
     IF loads[c].lookup = i /\ loads[c].look = "get"
     THEN [loads[c] EXCEPT !.look = "woken", !.ended = how]
     ELSE loads[c]]

\* dht->tracker_get_peers returns some peers, or none.
SearchEnds(i, found) ==
  /\ lookups[i].job
  /\ lookups' = [lookups EXCEPT ![i].job = FALSE, ![i].last = "fresh", ![i].found = found]
  /\ loads' = Notified(i, "found")
  /\ UNCHANGED lru

\* It fails or times out: the last result stays as it is.
SearchFails(i) ==
  /\ lookups[i].job
  /\ lookups' = [lookups EXCEPT ![i].job = FALSE]
  /\ loads' = Notified(i, "failed")
  /\ UNCHANGED lru

GetReturns(c) ==
  /\ loads[c].look = "woken"
  /\ Takes(c, lookups)

\* Five minutes pass.  A call that was notified goes on long before that.
Outdated(i) ==
  /\ lookups[i].last = "fresh"
  /\ \A c \in Caller : loads[c].look # "woken"
  /\ lookups' = [lookups EXCEPT ![i].last = "old"]
  /\ UNCHANGED <<lru, loads>>

LoadNext ==
  \/ \E c \in Caller :
       \/ \E s \in Swarm : LoadBegins(c, s)
       \/ \E copy \in {"none", "partial", "complete"}, head \in BOOLEAN : LocalRead(c, copy, head)
       \/ SessionCreated(c) \/ SessionFails(c) \/ Leaves(c)
       \/ Asks(c) \/ GetReturns(c)
  \/ \E i \in Id :
       \/ \E found \in BOOLEAN : SearchEnds(i, found)
       \/ SearchFails(i) \/ Outdated(i)

LoadSpec == LoadInit /\ [][LoadNext]_load_vars

------------------------------------------------------------------------------

\* Peers that were found more than five minutes ago are handed to a reader
\* only after a search that it waited for has failed (PeerLookup::get).
PeersAreRecent ==
  [][\A c \in Caller :
       loads[c].look # "done" /\ loads'[c].look = "done"
         => lookups[loads[c].lookup].last = "fresh" \/ loads[c].ended = "failed"]_load_vars

\* A call of get that waits has a search to wait for, although the client may
\* have dropped the lookup from its cache (AsyncJob::wait_for_finish).
WaitersAreServed ==
  \A c \in Caller :
    loads[c].look = "get" => loads[c].lookup \in Id /\ lookups[loads[c].lookup].job
=============================================================================
