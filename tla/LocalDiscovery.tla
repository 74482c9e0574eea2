--------------------------- MODULE LocalDiscovery ---------------------------
(***************************************************************************)
(* cache/local_peer_discovery.cpp: the clients on a local network find     *)
(* each other with multicast queries, unicast replies and a multicast      *)
(* farewell.  A member of Node is one LocalPeerDiscovery object: a client  *)
(* that is started again has a new random id.  The network delivers what   *)
(* one node sends to another in order; a datagram sent to the group        *)
(* reaches the nodes whose socket has joined it then, the sender too.      *)
(***************************************************************************)
EXTENDS Naturals, Sequences

CONSTANTS
  Node,        \* the objects
  Address,     \* the address of each node's socket
  Advertised   \* the end points each advertises: <<address, port>>

\* The unspecified address, which stands for the sender's.
Unspecified == "0.0.0.0"

VARIABLES
  life,        \* "unborn", "up", "deaf" (its socket could not be bound), "gone"
  asking,      \* the nodes whose query is still to be sent
  peers,       \* _peers: what each node knows of others
  wire         \* the datagrams under way between each two nodes

lpd_vars == <<life, asking, peers, wire>>

Unknown == {}
Pairs == Node \X Node

LocalInit ==
  /\ life = [n \in Node |-> "unborn"] /\ asking = {}
  /\ peers = [n \in Node |-> [m \in Node |-> Unknown]]
  /\ wire = [p \in Pairs |-> <<>>]

Members == {n \in Node : life[n] = "up"}

Message(cmd, n) == [cmd |-> cmd, eps |-> IF cmd = "BYE" THEN {} ELSE Advertised[n]]

Sent(w, n, to, cmd) ==
  [p \in Pairs |-> IF p[1] = n /\ p[2] \in to THEN Append(w[p], Message(cmd, n)) ELSE w[p]]

\* The constructor binds the socket and joins the group, and spawns the
\* coroutines that listen and that send the query.
StartDiscovery(n) ==
  /\ life[n] = "unborn"
  /\ \/ life' = [life EXCEPT ![n] = "up"] /\ asking' = asking \cup {n}
     \/ life' = [life EXCEPT ![n] = "deaf"] /\ UNCHANGED asking
  /\ UNCHANGED <<peers, wire>>

broadcast_search_query(n) ==
  /\ n \in asking
  /\ asking' = asking \ {n}
  /\ wire' = Sent(wire, n, Members, "QUERY")
  /\ UNCHANGED <<life, peers>>

consume_endpoints(eps, from) == {<<IF e[1] = Unspecified THEN from ELSE e[1], e[2]>> : e \in eps}

Datagram(m, n) == Head(wire[<<m, n>>])
Taken(m, n) == [wire EXCEPT ![<<m, n>>] = Tail(@)]

\* Mutant of on_broadcast_receive: a query is noted but not answered.
on_broadcast_receive_silent(m, n) ==
  /\ life[n] = "up" /\ wire[<<m, n>>] # <<>>
  /\ IF m = n THEN UNCHANGED peers
     ELSE peers' = [peers EXCEPT ![n][m] =
                      IF Datagram(m, n).cmd = "BYE" THEN Unknown
                      ELSE consume_endpoints(Datagram(m, n).eps, Address[m])]
  /\ wire' = Taken(m, n)
  /\ UNCHANGED <<life, asking>>

\* One's own datagrams are ignored.  A query and a reply both replace what
\* was known of the sender; a query is answered to the sender alone.
on_broadcast_receive(m, n) ==
  /\ life[n] = "up" /\ wire[<<m, n>>] # <<>>
  /\ IF m = n THEN UNCHANGED peers
     ELSE peers' = [peers EXCEPT ![n][m] =
                      IF Datagram(m, n).cmd = "BYE" THEN Unknown
                      ELSE consume_endpoints(Datagram(m, n).eps, Address[m])]
  /\ wire' = IF m # n /\ Datagram(m, n).cmd = "QUERY"
             THEN Sent(Taken(m, n), n, {m} \cap Members, "REPLY")
             ELSE Taken(m, n)
  /\ UNCHANGED <<life, asking>>

\* The destructor: say_bye, then stop closes the socket.
StopDiscovery(n) ==
  /\ life[n] \in {"up", "deaf"}
  /\ life' = [life EXCEPT ![n] = "gone"]
  /\ asking' = asking \ {n}
  /\ peers' = [peers EXCEPT ![n] = [m \in Node |-> Unknown]]
  /\ wire' = LET bye == Sent(wire, n, Members, "BYE")
             IN  [p \in Pairs |-> IF p[2] = n THEN <<>> ELSE bye[p]]

LocalNext ==
  \/ \E n \in Node : StartDiscovery(n) \/ broadcast_search_query(n) \/ StopDiscovery(n)
  \/ \E m, n \in Node : on_broadcast_receive(m, n)

\* The coroutines run and the network delivers.
LocalFair ==
  WF_lpd_vars(\/ \E n \in Node : broadcast_search_query(n)
              \/ \E m, n \in Node : on_broadcast_receive(m, n))

found_peers(n) == UNION {peers[n][m] : m \in Node}

-----------------------------------------------------------------------------
\* Does any client see other end points than those of the others there?
Unsettled ==
  \E n \in Members :
    found_peers(n) # UNION {consume_endpoints(Advertised[m], Address[m]) : m \in Members \ {n}}

\* Whatever the order in which clients come, query and leave, found_peers of
\* each of them settles on the end points of exactly the others that are
\* there: both of two clients learn of each other from the one query that
\* each sends, and no client that said farewell is kept.
LocalViewsSettle == Unsettled ~> ~Unsettled
=============================================================================
