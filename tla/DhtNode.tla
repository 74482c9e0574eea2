------------------------------ MODULE DhtNode ------------------------------
(***************************************************************************)
(* A DHT node (src/bittorrent/mainline_dht.cpp) between its socket and its *)
(* routing table, tracker and data store: the queries it sends and waits   *)
(* for, the loop that receives datagrams, and the handlers of the queries  *)
(* of other nodes.                                                         *)
(*                                                                         *)
(* The network may lose, delay, duplicate and reorder datagrams: a reply   *)
(* to a query that was sent may arrive at any time, any number of times or *)
(* never, so no datagram is kept.  The coroutines run on one executor; an  *)
(* action is what one of them does between two suspensions.  A handler     *)
(* suspends only to send its reply, so it is one action and an element of  *)
(* handlers until the reply is sent.                                       *)
(*                                                                         *)
(* A node may be asked to store things before it has a routing table: the  *)
(* handlers of get and put use the table without looking whether there is  *)
(* one, and are modelled from then on.                                     *)
(***************************************************************************)
EXTENDS RoutingTable, DhtStorage

CONSTANTS
    Worlds,        \* what may happen in a behaviour; see World
    InfoHash,      \* ids of swarms and of mutable items
    Value,         \* values of stored items
    MAX_HANDLE_QUERY_CONCURRENCY,
    RESPONSIBLE_TRACKERS_PER_SWARM,
    MaxQueries,    \* bound: number of queries sent, in any world
    MaxNow,        \* bound: clock ticks
    MaxSeq         \* bound: sequence numbers of mutable items

NUM_PEERS == 50

\* Which contacts there are, which queries they send and for which ids, whether
\* the node sends queries of its own, time passes for the table (ages) or for the storage
\* (ticks), and whether sending a reply may fail.  The bounds of the queries
\* of the node: how many it sends, and how many it waits for at a time.
World == [contacts : SUBSET [id : Nat, endpoint : [address : Nat, port : Nat]],
          kinds    : SUBSET {"find_node", "get_peers", "announce_peer", "get", "put"},
          ids      : SUBSET InfoHash,
          lookups  : BOOLEAN,
          ages     : BOOLEAN,
          ticks    : BOOLEAN,
          fails    : BOOLEAN,
          queries  : 0 .. MaxQueries,
          active   : Nat]

ASSUME WorldsAssumption == Worlds \subseteq World

VARIABLES
    w,                \* the world of this behaviour
    table,            \* _routing_table; <<>> before there is one
    requests,         \* the queries sent, by transaction
    handle_query_ok,
    receiving,        \* is receive_loop running?
    handlers,         \* handlers that wait for their reply to be sent
    now,
    tracker_secrets,  \* the tokens of _tracker
    store_secrets,    \* the tokens of _data_store
    swarms,           \* Tracker::_swarms
    mutables,         \* DataStore::_mutable_data
    immutables,       \* DataStore::_immutable_data
    tokens,           \* the tokens each address last received for an id
    heard             \* history: the contacts that replied

netvars == <<requests, handle_query_ok, receiving, handlers>>
storage == <<tracker_secrets, store_secrets, swarms, mutables, immutables, tokens>>
vars == <<w, table, netvars, now, storage, heard>>

-----------------------------------------------------------------------------
Done == [st |-> "done"]

Active(t) == t \in DOMAIN requests /\ requests[t] # Done

\* A query is registered before its datagram is sent; y is the type of its
\* response, once there is one.  Whether dst has an id is what makes the outcome
\* count for the table.
Request(c, known) == [st |-> "sending", dst |-> c, known |-> known, y |-> "none"]

\* The requests with a ping to each of the contacts (DhtNode::send_ping).
Pinging(reqs, contacts) ==
    reqs \o [i \in DOMAIN SetToSeq(contacts) |->
               Request(SetToSeq(contacts)[i], TRUE)]

Bounded ==
    /\ Len(requests') <= w.queries
    /\ Len(SelectSeq(requests', LAMBDA r : r # Done)) <= w.active

\* The end of a query to a contact with an id, answered (ok) or not.
Settle(t, ok) ==
    LET reqs == [requests EXCEPT ![t] = Done]
        c    == requests[t].dst
        outs == IF ~requests[t].known THEN {[table |-> table, pings |-> {}]}
                ELSE IF ok THEN {try_add_node(table, c, TRUE)}
                ELSE fail_node(table, c)
    IN  \E out \in outs :
            /\ table' = out.table
            /\ requests' = Pinging(reqs, out.pings)
            /\ Bounded

-----------------------------------------------------------------------------
\* send_query_await_reply, called by a lookup or by a ping of its own.
send_query(c, known) ==
    /\ w.lookups
    /\ table # <<>>
    /\ requests' = Append(requests, Request(c, known))
    /\ Bounded
    /\ UNCHANGED <<w, table, handle_query_ok, receiving, handlers, now, storage, heard>>

QuerySent(t) ==
    /\ Active(t)
    /\ requests[t].st = "sending" /\ requests[t].y = "none"
    /\ requests' = [requests EXCEPT ![t].st = "waiting"]
    /\ UNCHANGED <<w, table, handle_query_ok, receiving, handlers, now, storage, heard>>

QueryNotSent(t) ==
    /\ Active(t)
    /\ requests[t].st = "sending"
    /\ Settle(t, FALSE)
    /\ UNCHANGED <<w, handle_query_ok, receiving, handlers, now, storage, heard>>

\* The coroutine that waits for the response resumes, or has sent the datagram
\* and finds that the response is there already.
QueryAnswered(t) ==
    /\ Active(t)
    /\ requests[t].y # "none"
    /\ Settle(t, requests[t].y = "r")
    /\ UNCHANGED <<w, handle_query_ok, receiving, handlers, now, storage, heard>>

\* Mutant of QueryExpires: there is no time limit once the query is sent.
QueryExpiresUnsent(t) ==
    /\ Active(t)
    /\ requests[t].st = "sending"
    /\ Settle(t, FALSE)
    /\ UNCHANGED <<w, handle_query_ok, receiving, handlers, now, storage, heard>>

\* The ten seconds are over; a response that is there but not yet seen by the
\* coroutine that waits for it is lost.
QueryExpires(t) ==
    /\ Active(t)
    /\ Settle(t, FALSE)
    /\ UNCHANGED <<w, handle_query_ok, receiving, handlers, now, storage, heard>>

-----------------------------------------------------------------------------
\* A round of receive_loop ends: its condition is tested again.
PacketHandled == receiving' = handle_query_ok

\* A reply ("r") or an error ("e") with the transaction t; a late or a stray
\* one matches no active request of its sender and is dropped.  A request is
\* active, and a reply to it counts, even before its datagram is sent; another
\* reply replaces one that was not yet seen.
ReceiveReply(t, sender, y) ==
    /\ receiving
    /\ PacketHandled
    /\ t \in DOMAIN requests
    /\ LET expected == Active(t) /\ requests[t].dst.endpoint = sender.endpoint
       IN  \/ /\ expected
              /\ requests' = [requests EXCEPT ![t].y = y]
              /\ heard' = IF y = "r" THEN heard \cup {requests[t].dst} ELSE heard
           \/ /\ ~expected
              /\ UNCHANGED <<requests, heard>>
    /\ UNCHANGED <<w, table, handle_query_ok, handlers, now, storage>>

\* The reply of a handler is sent, or it is not and the loop shall end.
HandlerReturns ==
    /\ handlers > 0
    /\ handlers' = handlers - 1
    /\ \/ UNCHANGED handle_query_ok
       \/ w.fails /\ handle_query_ok' = FALSE
    /\ UNCHANGED <<w, table, requests, receiving, now, storage, heard>>

QueryIgnored ==
    /\ receiving
    /\ handlers >= MAX_HANDLE_QUERY_CONCURRENCY
    /\ PacketHandled
    /\ UNCHANGED <<w, table, requests, handle_query_ok, handlers, now, storage, heard>>

\* What every query of contact c starts with.  A read-only node (ro) is not
\* considered for the table.
Handle(c, kind, ro) ==
    /\ receiving
    /\ handlers < MAX_HANDLE_QUERY_CONCURRENCY
    /\ PacketHandled
    /\ kind \in w.kinds
    /\ handlers' = handlers + 1
    /\ LET out == IF table = <<>> \/ ro THEN [table |-> table, pings |-> {}]
                  ELSE try_add_node(table, c, FALSE)
       IN  /\ table' = out.table
           /\ requests' = Pinging(requests, out.pings)
           /\ Bounded
    /\ UNCHANGED <<w, handle_query_ok, now, heard>>

\* ping, find_node, a query of an unknown type and a malformed query: the
\* node replies and changes nothing else.
handle_find_node(c, ro) ==
    /\ Handle(c, "find_node", ro)
    /\ UNCHANGED storage

\* The reply carries a token; it may be lost.
Grant(c, id, salt, grant) ==
    \/ tokens' = [tokens EXCEPT ![<<c.endpoint.address, id, salt>>] =
                     {[token |-> grant.token, at |-> now]}]
    \/ UNCHANGED tokens

handle_get_peers(c, h, ro) ==
    /\ Handle(c, "get_peers", ro)
    /\ LET grant == generate_token("tracker", tracker_secrets, now, c.endpoint.address, h)
       IN  /\ tracker_secrets' = grant.secrets
           /\ Grant(c, h, "tracker", grant)
    /\ \E s \in list_swarm(swarms[h], NUM_PEERS) : swarms' = [swarms EXCEPT ![h] = s]
    /\ UNCHANGED <<store_secrets, mutables, immutables>>

\* infohash.closer_to(_node_id, id): in the highest bit in which id differs
\* from the node's own id, the target does not.
SelfCloser(target, id) ==
    \E k \in 0 .. Bits - 1 :
        /\ id \in 2^k .. 2^(k + 1) - 1
        /\ (target \div 2^k) % 2 = 0

\* contains_self; the sender is in the table by now, or being pinged.
Responsible(target) ==
    \E c \in ToSet(find_closest_routing_nodes(table', target,
                                              4 * RESPONSIBLE_TRACKERS_PER_SWARM)) :
        SelfCloser(target, c.id)

\* A query comes with a token that some address holds for some id: its sender
\* may have moved, or mixed up its tokens.
AnyToken == UNION {tokens[a] : a \in DOMAIN tokens}

handle_announce_peer(c, h, ro, token, port) ==
    /\ Handle(c, "announce_peer", ro)
    /\ LET mine == table = <<>> \/ Responsible(h)
           good == verify_token("tracker", tracker_secrets, now, c.endpoint.address, h, token.token)
           ep   == [c.endpoint EXCEPT !.port = port]
       IN  /\ tracker_secrets' = IF mine THEN expire_secrets(tracker_secrets, now)
                                 ELSE tracker_secrets
           /\ swarms' = IF mine /\ good
                        THEN [swarms EXCEPT ![h] = add_to_swarm(@, ep, now)]
                        ELSE swarms
    /\ UNCHANGED <<store_secrets, mutables, immutables, tokens>>

-----------------------------------------------------------------------------
handle_get(c, id, ro) ==
    /\ table # <<>>
    /\ Handle(c, "get", ro)
    /\ LET grant == generate_token("store", store_secrets, now, c.endpoint.address, id)
       IN  /\ store_secrets' = grant.secrets
           /\ Grant(c, id, "store", grant)
    /\ UNCHANGED <<tracker_secrets, swarms, mutables, immutables>>

\* The checks against the item that is there; cas is {} when it is not given.
Accepts(id, item, cas) ==
    id \in DOMAIN mutables =>
        /\ item.seq >= mutables[id].seq
        /\ item.seq = mutables[id].seq => item.value = mutables[id].value
        /\ cas \subseteq {mutables[id].seq}

\* item.signed is what MutableDataItem::verify finds.
handle_put_mutable(c, id, ro, token, item, cas) ==
    /\ table # <<>>
    /\ Handle(c, "put", ro)
    /\ store_secrets' = expire_secrets(store_secrets, now)
    /\ LET stores == /\ verify_token("store", store_secrets, now, c.endpoint.address, id, token.token)
                     /\ Responsible(id)
                     /\ item.signed
                     /\ Accepts(id, item, cas)
           new    == [seq |-> item.seq, value |-> item.value, last_seen |-> now]
       IN  mutables' = IF stores THEN put_item(mutables, id, new) ELSE mutables
    /\ UNCHANGED <<tracker_secrets, swarms, immutables, tokens>>

\* The id of an immutable item is the hash of its value: one of them is stored
\* under every id.
handle_put_immutable(c, id, ro, token) ==
    /\ table # <<>>
    /\ Handle(c, "put", ro)
    /\ store_secrets' = expire_secrets(store_secrets, now)
    /\ LET stores == /\ verify_token("store", store_secrets, now, c.endpoint.address, id, token.token)
                     /\ Responsible(id)
       IN  immutables' = IF stores THEN put_item(immutables, id, [last_seen |-> now])
                         ELSE immutables
    /\ UNCHANGED <<tracker_secrets, swarms, mutables, tokens>>

-----------------------------------------------------------------------------
\* bootstrap makes the table.
TableReady ==
    /\ table = <<>>
    /\ table' = EmptyTable
    /\ UNCHANGED <<w, netvars, now, storage, heard>>

Age(c, field) ==
    /\ w.ages
    /\ table # <<>>
    /\ table' = Forget(table, c, field)
    /\ table' # table
    /\ UNCHANGED <<w, netvars, now, storage, heard>>

Tick ==
    /\ w.ticks
    /\ now < MaxNow
    /\ now' = now + 1
    /\ UNCHANGED <<w, table, netvars, storage, heard>>

\* The loop in the constructor of Tracker.
ExpireSwarms ==
    /\ swarms' = [h \in InfoHash |-> expire_swarm(swarms[h], now)]
    /\ UNCHANGED <<w, table, netvars, now, heard, tokens,
                   tracker_secrets, store_secrets, mutables, immutables>>

ExpireItems ==
    /\ mutables' = expire_items(mutables, now)
    /\ immutables' = expire_items(immutables, now)
    /\ UNCHANGED <<w, table, netvars, now, heard, tokens,
                   tracker_secrets, store_secrets, swarms>>

Init ==
    /\ w \in Worlds
    /\ table = <<>>
    /\ requests = <<>>
    /\ handle_query_ok = TRUE
    /\ receiving = TRUE
    /\ handlers = 0
    /\ now = 0
    /\ tracker_secrets = {}
    /\ store_secrets = {}
    /\ swarms = [h \in InfoHash |-> EmptySwarm]
    /\ mutables = <<>>
    /\ immutables = <<>>
    /\ tokens = [a \in {c.endpoint.address : c \in w.contacts} \X w.ids \X {"tracker", "store"} |-> {}]
    /\ heard = {}

Item == [seq : 0 .. MaxSeq, value : Value, signed : BOOLEAN]

HandleQuery(c, ro) ==
    \/ handle_find_node(c, ro)
    \/ \E h \in w.ids :
        \/ handle_get_peers(c, h, ro)
        \/ handle_get(c, h, ro)
        \/ \E token \in AnyToken :
            \/ \E port \in {0, c.endpoint.port} :
                  handle_announce_peer(c, h, ro, token, port)
            \/ \E item \in Item, cas \in {{}} \cup {{s} : s \in 0 .. MaxSeq} :
                  handle_put_mutable(c, h, ro, token, item, cas)
            \/ handle_put_immutable(c, h, ro, token)

Next ==
    \/ TableReady
    \/ \E c \in w.contacts :
        \/ \E known \in BOOLEAN : send_query(c, known)
        \/ \E t \in 1 .. MaxQueries, y \in {"r", "e"} : ReceiveReply(t, c, y)
        \/ \E ro \in BOOLEAN : HandleQuery(c, ro)
        \/ \E field \in {"recent", "replied"} : Age(c, field)
    \/ \E t \in 1 .. MaxQueries :
        QuerySent(t) \/ QueryNotSent(t) \/ QueryAnswered(t) \/ QueryExpires(t)
    \/ QueryIgnored
    \/ HandlerReturns
    \/ Tick
    \/ ExpireSwarms
    \/ ExpireItems

Spec == Init /\ [][Next]_vars

\* A timer fires, a coroutine that was notified resumes.  Nothing is assumed
\* of the network or of other nodes.
Fair == WF_vars(\E t \in 1 .. MaxQueries : QueryExpires(t))

-----------------------------------------------------------------------------
\* Every node of the table is in the bucket of its id and there only once, no
\* bucket has more than BUCKET_SIZE nodes, and there are no more candidates
\* than questionable nodes: what try_add_node and split_bucket assert and what
\* the comment on Bucket promises, over any sequence of additions, splits,
\* replacements and failures.
TableSound ==
    \A b \in DOMAIN table :
        /\ Len(table[b].nodes) <= BUCKET_SIZE
        /\ Len(table[b].verified) + Len(table[b].unverified)
              <= Questionable(table[b].nodes)
        /\ \A i \in DOMAIN table[b].nodes :
             /\ find_bucket_id(table, table[b].nodes[i].contact.id) = b
             /\ \A j \in DOMAIN table[b].nodes :
                  table[b].nodes[i].contact = table[b].nodes[j].contact => i = j

\* A node is in the table only if it answered a query of this node: the sender
\* of a query is pinged first, and a reply counts only if it comes from the
\* endpoint its query is for, while the query is active: from when its
\* transaction is registered, before it is sent, until it is answered or given
\* up.
OnlyHeardInTable == InTable(table) \subseteq heard

\* Does any query wait for its reply?
Waiting == \E t \in 1 .. MaxQueries : Active(t)

\* Every query ends (send_query_await_reply returns and gives up its
\* transaction), even if its datagram or the reply is lost or the receiving
\* loop has ended.
QueriesEnd == Waiting ~> ~Waiting

\* An endpoint is added to a swarm, or renewed, only while its own address
\* holds a tracker token for this very swarm that is at most TOKEN_VALIDITY
\* old: a token of another address, of another swarm or of the data store is
\* refused (handle_query of announce_peer and TokenStorage::verify_token).
AnnouncersHoldTokens ==
    [][\A h \in InfoHash : \A p \in ToSet(swarms'[h].peers) \ ToSet(swarms[h].peers) :
          \E t \in tokens[p.endpoint.address, h, "tracker"] :
              now <= t.at + TOKEN_VALIDITY]_vars

=============================================================================
