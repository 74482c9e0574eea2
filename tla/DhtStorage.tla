----------------------------- MODULE DhtStorage -----------------------------
(***************************************************************************)
(* What a DHT node stores for others (src/bittorrent/dht_storage.{h,cpp}): *)
(* operators on the write tokens, on the swarm of a tracker and on the     *)
(* items of a data store.  Time is counted in ticks.                       *)
(*                                                                         *)
(* A secret is the time it was made at, followed by the salt of its        *)
(* storage, so the secrets of one tick are one secret and the deque, in    *)
(* which times only grow, is a set.  A token is the hash of a secret, an   *)
(* address and an id: the record of these.                                 *)
(***************************************************************************)
EXTENDS Naturals, Sequences, FiniteSets, SequencesExt

CONSTANTS
    TOKEN_VALIDITY,
    SECRET_REFRESH_TIME,
    ANNOUNCE_VALIDITY,
    PUT_VALIDITY

ASSUME StorageAssumption ==
    /\ TOKEN_VALIDITY \in Nat
    /\ SECRET_REFRESH_TIME \in Nat
    /\ ANNOUNCE_VALIDITY \in Nat
    /\ PUT_VALIDITY \in Nat

\* DhtWriteTokenStorage::expire
expire_secrets(secrets, now) == {s \in secrets : s + TOKEN_VALIDITY >= now}

\* The storage after generate_token, and the token.  _last_generated is never
\* assigned: it stays the epoch of the clock.
generate_token(salt, secrets, now, address, id) ==
    LET old == expire_secrets(secrets, now)
        new == IF old = {} \/ now > SECRET_REFRESH_TIME THEN old \cup {now} ELSE old
    IN  [secrets |-> new,
         token   |-> [salt |-> salt, secret |-> Max(new), address |-> address, id |-> id]]

\* Mutant of verify_token: a token is good for every swarm.
verify_token_any(salt, secrets, now, address, id, token) ==
    /\ token.salt = salt
    /\ token.secret \in expire_secrets(secrets, now)
    /\ token.address = address

verify_token(salt, secrets, now, address, id, token) ==
    /\ token.salt = salt
    /\ token.secret \in expire_secrets(secrets, now)
    /\ token.address = address
    /\ token.id = id

-----------------------------------------------------------------------------
\* A swarm: its peers, and where each endpoint is among them.
EmptySwarm == [peers |-> <<>>, indices |-> <<>>]

Swap(f, a, b) == [f EXCEPT ![a] = f[b], ![b] = f[a]]

\* Swarm::add
add_to_swarm(s, ep, now) ==
    IF ep \in DOMAIN s.indices
    THEN [s EXCEPT !.peers[s.indices[ep]].last_seen = now]
    ELSE [peers   |-> Append(s.peers, [endpoint |-> ep, last_seen |-> now]),
          indices |-> [e \in DOMAIN s.indices \cup {ep} |->
                         IF e = ep THEN Len(s.peers) + 1 ELSE s.indices[e]]]

SwapPeers(s, i, j) ==
    [peers   |-> Swap(s.peers, i, j),
     indices |-> Swap(s.indices, s.peers[i].endpoint, s.peers[j].endpoint)]

\* Swarm::list: what it may leave of the swarm.  The endpoints it returns are
\* those of the first count peers.
list_swarm(s, count) ==
    LET Shuffle(S, i) ==
            UNION {{SwapPeers(t, i, j) : j \in i .. Len(s.peers)} : t \in S}
    IN  FoldLeft(Shuffle, {s},
                 [i \in 1 .. Min({count, Len(s.peers)}) |-> i])

DropLast(s) ==
    [peers   |-> Front(s.peers),
     indices |-> [e \in DOMAIN s.indices \ {Last(s.peers).endpoint} |-> s.indices[e]]]

\* Swarm::expire: every round drops a peer or passes one, so there are as many
\* rounds as peers.
expire_swarm(s, now) ==
    LET Round(at, round) ==
            IF at.swarm.peers[at.i].last_seen + ANNOUNCE_VALIDITY < now
            THEN [at EXCEPT !.swarm = DropLast(SwapPeers(@, at.i, Len(@.peers)))]
            ELSE [at EXCEPT !.i = @ + 1]
    IN  FoldLeft(Round, [swarm |-> s, i |-> 1], s.peers).swarm

-----------------------------------------------------------------------------
\* A data store maps the ids of its items to the items.
put_item(items, id, item) ==
    [i \in DOMAIN items \cup {id} |-> IF i = id THEN item ELSE items[i]]

\* The loop in the constructor of DataStore, for either kind of items.
expire_items(items, now) ==
    Restrict(items, {i \in DOMAIN items : items[i].last_seen + PUT_VALIDITY >= now})

=============================================================================
