---------------------------- MODULE RoutingTable ----------------------------
(***************************************************************************)
(* The routing table of a DHT node (src/bittorrent/routing_table.{h,cpp}): *)
(* operators on a sequence of buckets, for the modules of the node that    *)
(* owns the table.                                                         *)
(*                                                                         *)
(* A contact is a record with an id and an endpoint.  Ids are written as   *)
(* distances from the node's own id: id ^ _node_id is a bijection, and the *)
(* table only compares distances.  The two time points of a node are kept  *)
(* as what is_good and is_questionable ask of them: whether the last       *)
(* message is at most 15 minutes old (recent), and the last reply at most  *)
(* 2 hours (replied).  Forget lets them pass.                              *)
(***************************************************************************)
EXTENDS Naturals, Sequences, FiniteSets, SequencesExt

CONSTANTS
    Bits,         \* length of an id
    BUCKET_SIZE

ASSUME TableAssumption == Bits \in Nat \ {0} /\ BUCKET_SIZE \in Nat \ {0}

\* Bound of queries_failed: is_good asks whether there were more than two.
MaxFailed == 3

is_good(n) == n.failed <= 2 /\ n.recent /\ n.replied

is_questionable(n) == ~n.recent

EmptyBucket == [nodes |-> <<>>, verified |-> <<>>, unverified |-> <<>>]

\* RoutingTable::RoutingTable
EmptyTable == <<EmptyBucket>>

\* The elements of s at the positions I, in their order.
Rank(I, i) == Cardinality({x \in I : x <= i})

Elements(s, I) ==
    [j \in 1 .. Cardinality(I) |-> s[CHOOSE i \in I : Rank(I, i) = j]]

\* Buckets are numbered from 1 here and from 0 in the code.
max_distance(b) == 2^(Bits + 1 - b) - 1

\* Mutant of find_bucket_id: the bucket after the right one, if there is one.
find_bucket_id_late(bs, id) ==
    LET b == CHOOSE i \in 1 .. Len(bs) :
                /\ id <= max_distance(i)
                /\ i < Len(bs) => id > max_distance(i + 1)
    IN  IF b < Len(bs) THEN b + 1 ELSE b

find_bucket_id(bs, id) ==
    CHOOSE i \in 1 .. Len(bs) :
        /\ \A j \in 2 .. i : id <= max_distance(j)
        /\ i < Len(bs) => ~(id <= max_distance(i + 1))

\* Is id one of the half of bucket b that is closer?
WithinHalf(b, id) == id <= max_distance(b + 1)

would_split_bucket(bs, b, id) ==
    LET nodes == bs[b].nodes
        near  == Cardinality({i \in DOMAIN nodes : WithinHalf(b, nodes[i].contact.id)})
        cnt   == near + (IF WithinHalf(b, id) THEN 1 ELSE 0)
    IN  /\ id <= max_distance(b)
        /\ Len(bs[b].nodes) >= BUCKET_SIZE
        /\ cnt \in 1 .. BUCKET_SIZE

\* move_elements moves what belongs to the new bucket out of the last one.
split_bucket(bs, b) ==
    LET new(s)  == {i \in DOMAIN s : WithinHalf(b, s[i].contact.id)}
        Keep(s) == Elements(s, DOMAIN s \ new(s))
        Move(s) == Elements(s, new(s))
        k       == bs[b]
    IN  Append([bs EXCEPT ![b] = [nodes      |-> Keep(k.nodes),
                                  verified   |-> Keep(k.verified),
                                  unverified |-> Keep(k.unverified)]],
               [nodes      |-> Move(k.nodes),
                verified   |-> Move(k.verified),
                unverified |-> Move(k.unverified)])

\* The contacts of bucket b and of those after it, then of those before it.
find_closest_routing_nodes(bs, target, count) ==
    LET b     == find_bucket_id(bs, target)
        order == [i \in 1 .. Len(bs) |-> IF i <= Len(bs) + 1 - b THEN b + i - 1
                                         ELSE Len(bs) + 1 - i]
        all   == FlattenSeq([i \in 1 .. Len(bs) |-> bs[order[i]].nodes])
    IN  [i \in 1 .. IF Len(all) < count THEN Len(all) ELSE count
           |-> all[i].contact]

-----------------------------------------------------------------------------
NewNode(c) == [contact |-> c, recent |-> TRUE, replied |-> TRUE,
               failed |-> 0, ping |-> FALSE]

\* Where contact c is, and the first node that is not good; 0 if there is none.
Position(nodes, c) == SelectInSeq(nodes, LAMBDA n : n.contact = c)

FirstBad(nodes) == SelectInSeq(nodes, LAMBDA n : ~is_good(n))

Without(s, c) == Elements(s, {i \in DOMAIN s : s[i].contact # c})

erase_front_questionables(s) ==
    LET i == SelectInSeq(s, LAMBDA n : ~is_questionable(n))
    IN  IF i = 0 THEN <<>> ELSE SubSeq(s, i, Len(s))

Questionable(nodes) == Cardinality({i \in DOMAIN nodes : is_questionable(nodes[i])})

\* pop_front while there are more than count.
Newest(s, count) == IF Len(s) <= count THEN s
                    ELSE SubSeq(s, Len(s) - count + 1, Len(s))

\* "Cleanup superfluous candidates", at the end of both operations.
Trim(k) ==
    LET q == Questionable(k.nodes)
        v == Newest(k.verified, q)
    IN  [k EXCEPT !.verified = v, !.unverified = Newest(@, q - Len(v))]

\* The node is bumped: moved to the back of its bucket.
Bump(k, i, is_verified) ==
    LET n == k.nodes[i]
        m == IF is_verified THEN NewNode(n.contact)
             ELSE [n EXCEPT !.recent = TRUE]
    IN  [k EXCEPT !.nodes = Append(RemoveAt(@, i), m)]

\* All the nodes are good: those that are questionable are pinged, and the
\* contact becomes a candidate for their place.
Candidate(k, c, is_verified) ==
    LET q     == Questionable(k.nodes)
        node  == [NewNode(c) EXCEPT !.replied = is_verified]
        nodes == [i \in DOMAIN k.nodes |->
                    [k.nodes[i] EXCEPT !.ping = @ \/ is_questionable(k.nodes[i])]]
        old   == erase_front_questionables(k.verified)
    IN  Trim(IF is_verified
             THEN [k EXCEPT !.nodes = nodes,
                            !.verified = IF q > 0 THEN Append(@, node) ELSE @]
             ELSE [k EXCEPT !.nodes = nodes,
                            !.verified = old,
                            !.unverified = IF Len(old) < q THEN Append(@, node)
                                           ELSE @])

-----------------------------------------------------------------------------
\* Mutant of try_add_node: a contact that was not verified is added at once.
try_add_unverified(bs, c, is_verified) ==
    LET b == find_bucket_id(bs, c.id)
        k == bs[b]
        i == Position(k.nodes, c)
    IN  IF i # 0 THEN [table |-> [bs EXCEPT ![b] = Bump(k, i, is_verified)],
                       pings |-> {}]
        ELSE IF Len(k.nodes) < BUCKET_SIZE
        THEN [table |-> [bs EXCEPT ![b].nodes = Append(@, NewNode(c))],
              pings |-> {}]
        ELSE [table |-> bs, pings |-> {}]

\* The table after try_add_node, and the contacts given to _send_ping.
try_add_node(bs, c, is_verified) ==
    LET b    == find_bucket_id(bs, c.id)
        i    == Position(bs[b].nodes, c)
        k    == [bs[b] EXCEPT !.verified = Without(@, c),
                              !.unverified = Without(@, c)]
        with == [k EXCEPT !.nodes = Append(@, NewNode(c))]
        bad  == FirstBad(k.nodes)
        Set(kk)   == [bs EXCEPT ![b] = kk]
        Add(full) == IF is_verified THEN [table |-> full, pings |-> {}]
                     ELSE [table |-> Set(k), pings |-> {c}]
    IN  IF i # 0
        THEN [table |-> Set(Bump(bs[b], i, is_verified)), pings |-> {}]
        ELSE IF Len(k.nodes) < BUCKET_SIZE THEN Add(Set(with))
        ELSE IF would_split_bucket(bs, b, c.id) THEN Add(split_bucket(Set(with), b))
        ELSE IF bad # 0
        THEN Add(Set([with EXCEPT !.nodes = RemoveAt(@, bad)]))
        ELSE [table |-> Set(Candidate(k, c, is_verified)),
              pings |-> {n.contact : n \in {m \in ToSet(k.nodes) :
                                              is_questionable(m) /\ ~m.ping}}]

\* The first verified candidate takes the place of the bad node i: before the
\* first node that was heard from later, and nowhere if there is none.  The
\* order of the time points is abstracted away.
Replace(k, i) ==
    LET c    == Head(k.verified)
        rest == RemoveAt(k.nodes, i)
        new  == [c EXCEPT !.failed = 0, !.ping = FALSE]
    IN  {[k EXCEPT !.nodes = ns, !.verified = Tail(@)] :
            ns \in {rest} \cup {InsertAt(rest, j, new) : j \in DOMAIN rest}}

\* What fail_node may make of the table, and the contacts it pings.
fail_node(bs, c) ==
    LET b == find_bucket_id(bs, c.id)
        i == Position(bs[b].nodes, c)
        n == [bs[b].nodes[i] EXCEPT !.failed = IF @ < MaxFailed THEN @ + 1 ELSE @]
        k == [bs[b] EXCEPT !.nodes[i] = n]
        e == [k EXCEPT !.verified = erase_front_questionables(@),
                       !.unverified = erase_front_questionables(@)]
        Out(kk, ps) == [table |-> [bs EXCEPT ![b] = kk], pings |-> ps]
    IN  IF i = 0 THEN {[table |-> bs, pings |-> {}]}
        ELSE IF is_good(n)
        THEN {IF is_questionable(n)
              THEN Out([k EXCEPT !.nodes[i].ping = TRUE], {c})
              ELSE Out(k, {})}
        ELSE IF e.verified # <<>> THEN {Out(Trim(kk), {}) : kk \in Replace(e, i)}
        ELSE IF e.unverified # <<>>
        THEN {Out(Trim([e EXCEPT !.unverified = Tail(@)]),
                  {Head(e.unverified).contact})}
        ELSE {Out(Trim(e), {})}

InTable(bs) == UNION {{n.contact : n \in ToSet(bs[b].nodes)} : b \in DOMAIN bs}

\* Fifteen minutes since the last message, two hours since the last reply.
Forget(bs, c, field) ==
    [b \in DOMAIN bs |->
        [bs[b] EXCEPT !.nodes =
            [i \in DOMAIN @ |-> IF @[i].contact # c THEN @[i]
                                ELSE IF field = "recent"
                                THEN [@[i] EXCEPT !.recent = FALSE]
                                ELSE [@[i] EXCEPT !.replied = FALSE]]]]

=============================================================================
