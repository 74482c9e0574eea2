------------------------------- MODULE MCDht -------------------------------
(***************************************************************************)
(* Instances for TLC of a DHT node and of a search through the DHT, one    *)
(* per behaviour.                                                          *)
(*                                                                         *)
(* DhtNode: ids have three bits and a bucket holds two nodes, so four      *)
(* contacts split the first bucket, fill the next one and replace bad      *)
(* nodes.  The worlds are explored one by one: the table with ageing       *)
(* nodes, lost replies and queries; the tracker; the tracker with tokens   *)
(* of two swarms and of the data store, any of which may come with an      *)
(* announcement; the data store; and the receiving loop with replies that  *)
(* cannot be sent.                                                         *)
(*                                                                         *)
(* DhtLookup: a map for two nodes, two slots, three nodes to find for a    *)
(* plain search and two for those that read an item or go on to write, and *)
(* a bootstrap endpoint.                                                   *)
(***************************************************************************)
EXTENDS DhtNode, DhtLookup, TLC

At(i, a, p) == [id |-> i, endpoint |-> [address |-> a, port |-> p]]

Near == {At(1, 1, 1), At(2, 2, 1), At(3, 3, 1)}
Two  == {At(4, 1, 0), At(6, 2, 1)}
One  == {At(4, 1, 1)}

MakeWorld(contacts, kinds, ids, on, queries, at_once) ==
    [contacts |-> contacts, kinds |-> kinds, ids |-> ids,
     lookups |-> "lookups" \in on, ages |-> "ages" \in on,
     ticks |-> "ticks" \in on, fails |-> "fails" \in on,
     queries |-> queries, active |-> at_once]

NoWorld == MakeWorld({}, {}, {}, {}, 0, 0)

MCWorlds == {
    MakeWorld(Near \cup {At(6, 4, 1)}, {"find_node"}, {}, {"ages"}, 5, 1),
    MakeWorld(Near, {"find_node"}, {}, {"lookups"}, 6, 1),
    MakeWorld(Two, {"get_peers", "announce_peer"}, {1}, {"ticks"}, 0, 0),
    MakeWorld(One, {"get_peers", "announce_peer"}, {1}, {"ticks"}, 1, 1),
    MakeWorld(One, {"get_peers", "announce_peer", "get"}, {1, 2}, {}, 1, 1),
    MakeWorld(One, {"get", "put"}, {1}, {"ticks"}, 1, 1),
    MakeWorld(One, {"find_node"}, {}, {"lookups", "fails"}, 3, 2)}

MCIds == [find_closest_nodes |-> 3] @@
         [o \in {"tracker_announce", "data_get_immutable", "data_put_immutable",
                 "data_get_mutable", "data_put_mutable"} |-> 2]

\* A node that meets nobody, and a search that is over.
NoNode ==
    /\ w = NoWorld
    /\ table = EmptyTable /\ requests = <<>>
    /\ handle_query_ok = TRUE /\ receiving = TRUE /\ handlers = 0 /\ now = 0
    /\ tracker_secrets = {} /\ store_secrets = {}
    /\ swarms = [h \in InfoHash |-> EmptySwarm]
    /\ mutables = <<>> /\ immutables = <<>> /\ tokens = <<>> /\ heard = {}

NoLookup ==
    /\ op = "find_closest_nodes" /\ first = {} /\ used = {} /\ unused = {}
    /\ queue = {} /\ eofs = FALSE /\ pc = "done"
    /\ job = [c \in Contact |-> "none"]
    /\ active = {} /\ found = {} /\ data = FALSE /\ blacklist = {}
    /\ tries = <<>> /\ success = FALSE /\ asked = {}

DhtSpec ==
    /\ (Init /\ NoLookup) \/ (NoNode /\ LookupInit)
    /\ [][\/ Next /\ UNCHANGED lookupvars
          \/ LookupNext /\ UNCHANGED vars]_<<vars, lookupvars>>
    /\ Fair /\ LookupFair
=============================================================================
