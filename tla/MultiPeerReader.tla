-------------------------- MODULE MultiPeerReader --------------------------
(***************************************************************************)
(* Reading a response from several peers (MultiPeerReader and its Peers in *)
(* src/cache/multi_peer_reader.cpp).                                       *)
(*                                                                         *)
(* Peers are looked up and each is asked for its hash list: the signed     *)
(* head of an injection of the resource, with the hash and the signature   *)
(* of every block.  The most recent list becomes the reference; its blocks *)
(* are then read one by one, each from any peer whose block has the same   *)
(* hash, while the block after it is requested from another peer.          *)
(*                                                                         *)
(* An injection is its time stamp, and stands for its signed head; a block *)
(* is its content (and its hash).  Coroutines suspend while they wait for  *)
(* peers, for a block, or for a hash list; the rest of a call is atomic.   *)
(***************************************************************************)
EXTENDS Naturals, Sequences, FiniteSets, Functions

CONSTANTS
  Peer,
  LanPeer,      \* peers found by local discovery
  Injected,     \* time stamps of the injections of the resource
  Blocks,       \* the blocks of each injection
  Empty,        \* the only block of a response with an empty body
  Kinds,        \* constructors that are used: "dht", "lan", "i2p"
  MayTimeOut    \* whether the download of a hash list may time out

ASSUME PeersAssumption ==
  /\ LanPeer \subseteq Peer
  /\ Kinds \subseteq {"dht", "lan", "i2p"}
  /\ Injected \subseteq Nat \ {0}
  /\ \A j \in Injected : Blocks[j] \in Seq(Range(Blocks[j])) /\ Len(Blocks[j]) > 0

VARIABLES
  kind,        \* the constructor that was used
  has,         \* the injection of which each peer has a copy
  lookup,      \* the coroutine that looks up peers
  all,         \* _all_udp_peers, _all_i2p_peers
  trying,      \* peers whose hash list is being downloaded
  candidates,  \* _candidate_peers
  good,        \* _good_peers
  reader,      \* the fields of MultiPeerReader
  reading_at,  \* where async_read_part is suspended
  fetch,       \* the local variable of fetch_block
  pre_fetch,   \* _pre_fetch
  out          \* the parts returned so far

peers == <<kind, lookup, all, trying, candidates>>
reader_vars == <<has, peers, good, reader, reading_at, fetch, pre_fetch, out>>

NoSig == [injection |-> 0, block |-> 0]
Sig(j, b) == [injection |-> j, block |-> b]

NoFetch == [block |-> 0, peer |-> {}, job |-> "none"]

\* A fetch of a block from a peer.  The request is sent ("asked"), the first
\* byte of the answer, its type, arrives ("answered"), and then its parts.
\* A parallel fetch sends the request at once in a job of its own, a sequential
\* one when get_block is called ("later").
Fetch(b, p, job) == [block |-> b, peer |-> {p}, job |-> job]

\* get_block is called.
Ask(f) == IF f.job = "later" THEN [f EXCEPT !.job = "asked"] ELSE f

\* The parts.  A chunk header carries the signature of the block before it.
HeadPart(j) == [part |-> "head", injection |-> j]
Hdr(last, sig) == [part |-> "hdr", last |-> last, sig |-> sig]
Body(d) == [part |-> "body", data |-> d]
Trailer == [part |-> "trailer"]
NoMore == [part |-> "end"]

ReaderInit ==
  /\ has \in [Peer -> Injected]
  /\ kind \in Kinds
  /\ lookup = CASE kind = "lan" -> "done" [] kind = "dht" -> "dht" [] kind = "i2p" -> "looking"
  /\ all = {} /\ trying = {} /\ candidates = {} /\ good = {}
  /\ reader = [state |-> "active", reference |-> 0, head_sent |-> FALSE,
               block |-> 1, sig |-> NoSig, body |-> <<>>, trailer |-> FALSE,
               last_sent |-> FALSE]
  /\ reading_at = "idle"
  /\ fetch = NoFetch /\ pre_fetch = NoFetch
  /\ out = <<>>

------------------------------------------------------------------------------
(***************************************************************************)
(* Peers: looking them up, asking them for their hash lists.               *)
(***************************************************************************)

\* Whether the reader still has its Peers object.
Alive == reader.state # "closed"

add_candidates(S) ==
  /\ all' = all \cup S
  /\ trying' = trying \cup (S \ all)
  /\ candidates' = candidates \cup (S \ all)

\* dht->wait_all_ready returns; peers of the local network are asked first.
DhtIsReady ==
  /\ Alive
  /\ lookup = "dht"
  /\ lookup' = "looking"
  /\ add_candidates(LanPeer)
  /\ UNCHANGED <<kind, has, good, reader, reading_at, fetch, pre_fetch, out>>

\* The lookup returns peers.  One that fails or finds nothing in the DHT is
\* repeated, so its last result is not empty.
LookupFinds(S) ==
  /\ Alive
  /\ lookup = "looking"
  /\ kind = "dht" => S # {}
  /\ lookup' = "done"
  /\ add_candidates(S)
  /\ UNCHANGED <<kind, has, good, reader, reading_at, fetch, pre_fetch, out>>

\* The tracker of I2P peers could not be asked: _i2p_lookup stays set.
LookupFails ==
  /\ Alive
  /\ kind = "i2p" /\ MayTimeOut
  /\ lookup = "looking"
  /\ lookup' = "failed"
  /\ UNCHANGED <<kind, has, all, trying, candidates, good, reader, reading_at, fetch, pre_fetch, out>>

\* The hash list of a peer was downloaded and verified.
CandidateGood(p) ==
  /\ p \in trying
  /\ trying' = trying \ {p}
  /\ candidates' = candidates \ {p}
  /\ good' = good \cup {p}
  /\ UNCHANGED <<kind, has, lookup, all, reader, reading_at, fetch, pre_fetch, out>>

CandidateFails(p) ==
  /\ p \in trying
  /\ trying' = trying \ {p}
  /\ candidates' = candidates \ {p}
  /\ UNCHANGED <<kind, has, lookup, all, good, reader, reading_at, fetch, pre_fetch, out>>

\* The download from a UDP peer took too long: the coroutine just returns.
CandidateTimesOut(p) ==
  /\ kind # "i2p" /\ MayTimeOut
  /\ p \in trying
  /\ trying' = trying \ {p}
  /\ UNCHANGED <<kind, has, lookup, all, candidates, good, reader, reading_at, fetch, pre_fetch, out>>

still_waiting_for_candidates == lookup # "done" \/ candidates # {}

\* wait_for_some_peers_to_respond returns at once, or when it is notified.
PeersResponded == good # {}
NoPeers == good = {} /\ ~still_waiting_for_candidates

------------------------------------------------------------------------------
(***************************************************************************)
(* async_read_part.                                                        *)
(***************************************************************************)

ReferenceBlocks == IF reader.reference = 0 THEN <<>> ELSE Blocks[reader.reference]

\* Mutant of choose_peer_for_block: hashes are not compared.
choose_any_peer(G, b) == {p \in G : b <= Len(Blocks[has[p]])}

\* The peers among which choose_peer_for_block picks one.
choose_peer_for_block(G, b) ==
  {p \in G : b <= Len(Blocks[has[p]]) /\ Blocks[has[p]][b] = ReferenceBlocks[b]}

\* The results new_fetch_job may have for block b; the block after the last
\* one needs no fetch.  Whoever fetches from last_peer waits for it to finish.
new_fetch_job(G, b, last_peer) ==
  IF b > Len(ReferenceBlocks) THEN {NoFetch}
  ELSE {Fetch(b, p, IF last_peer \in {{}, {p}} THEN "later" ELSE "asked") :
          p \in choose_peer_for_block(G, b)}

\* async_read_part returns an error: the reader is closed, its peers are gone.
ReadFails ==
  /\ reader' = [reader EXCEPT !.state = "closed"]
  /\ trying' = {} /\ candidates' = {} /\ good' = {}
  /\ reading_at' = "idle"
  /\ UNCHANGED <<kind, has, lookup, all, fetch, pre_fetch, out>>

Return(part, r) ==
  /\ out' = Append(out, part)
  /\ reader' = r
  /\ reading_at' = "idle"

\* async_read_part is called, or goes on after a wait at w.
At(w) == reader.state = "active" /\ reading_at \in {"idle", w}

\* The reader waits at w for peers to respond.
Wait(w) ==
  /\ reading_at = "idle"
  /\ ~PeersResponded /\ ~NoPeers
  /\ reading_at' = w
  /\ UNCHANGED <<has, peers, good, reader, fetch, pre_fetch, out>>

\* choose_reference_hash_list: any of the most recent lists.
ReadHead ==
  /\ At("reference")
  /\ reader.reference = 0
  /\ \/ Wait("reference")
     \/ NoPeers /\ ReadFails
     \/ /\ PeersResponded
        /\ \E p \in good :
             /\ \A q \in good : has[q] <= has[p]
             /\ Return(HeadPart(has[p]),
                       [reader EXCEPT !.reference = has[p], !.head_sent = TRUE])
        /\ UNCHANGED <<has, peers, good, fetch, pre_fetch>>

\* The part that follows a chunk header with data.
ReadBody ==
  /\ At("idle")
  /\ reader.body # <<>>
  /\ Return(Body(Head(reader.body)), [reader EXCEPT !.body = <<>>])
  /\ UNCHANGED <<has, peers, good, fetch, pre_fetch>>

LastHdr == Hdr(TRUE, reader.sig)

\* Whether fetch_block has to be called for the next part.
NeedsBlock ==
  /\ reader.reference # 0
  /\ reader.body = <<>>
  /\ ~reader.trailer
  /\ reader.block <= Len(ReferenceBlocks)

\* The chunk header that ends the body; without a trailer the reader is done.
ReadLastHdr ==
  /\ At("idle")
  /\ reader.reference # 0 /\ reader.body = <<>> /\ ~NeedsBlock
  /\ ~reader.last_sent
  /\ Return(LastHdr, [reader EXCEPT !.last_sent = TRUE, !.sig = NoSig,
                                    !.state = IF reader.trailer THEN @ ELSE "done"])
  /\ UNCHANGED <<has, peers, good, fetch, pre_fetch>>

ReadTrailer ==
  /\ At("idle")
  /\ reader.trailer /\ reader.last_sent /\ reader.body = <<>>
  /\ Return(Trailer, [reader EXCEPT !.trailer = FALSE, !.state = "done"])
  /\ UNCHANGED <<has, peers, good, fetch, pre_fetch>>

ReadEnd ==
  /\ reader.state = "done"
  /\ NoMore \notin Range(out)
  /\ Return(NoMore, reader)
  /\ UNCHANGED <<has, peers, good, fetch, pre_fetch>>

\* fetch_block up to its first get_block: the fetch prepared by the call
\* before, or a new one, and a fetch for the block after it.
ReadHdr ==
  /\ At("first")
  /\ NeedsBlock
  /\ \/ pre_fetch = NoFetch /\ Wait("first")
     \/ pre_fetch = NoFetch /\ NoPeers /\ ReadFails
     \/ /\ pre_fetch # NoFetch \/ PeersResponded
        /\ LET first == IF pre_fetch # NoFetch THEN {pre_fetch}
                        ELSE new_fetch_job(good, reader.block, {})
               after(f) == new_fetch_job(good, reader.block + 1, f.peer)
           IN  \/ /\ \E f \in first : \E n \in after(f) :
                       fetch' = Ask(f) /\ pre_fetch' = n
                  /\ reading_at' = "get"
                  /\ UNCHANGED <<has, peers, good, reader, out>>
               \/ /\ first = {} \/ \E f \in first : after(f) = {}
                  /\ ReadFails

\* The fetch that waits in get_block, or the one prepared for the next call,
\* moves on from one of the states in S.
FetchMoves(S, job) ==
  /\ Alive
  /\ \/ /\ pre_fetch.job \in S
        /\ pre_fetch' = [pre_fetch EXCEPT !.job = job]
        /\ UNCHANGED fetch
     \/ /\ reading_at = "get" /\ fetch.job \in S
        /\ fetch' = [fetch EXCEPT !.job = job]
        /\ UNCHANGED pre_fetch
  /\ UNCHANGED <<has, peers, good, reader, reading_at, out>>

\* async_read_blob_type returns: it waits for the byte without a time limit.
PeerAnswers == FetchMoves({"asked"}, "answered")

\* Sending the request fails or times out, or the connection ends.
PeerFails == FetchMoves({"asked"}, "failed")

\* The parts of the answer, each read with a time limit, are a block, or have
\* no body, or reading them fails.
JobEnds(result) == FetchMoves({"answered"}, result)

\* get_block of the current fetch returns.
Got(result) ==
  /\ reader.state = "active"
  /\ reading_at = "get"
  /\ fetch.job = result

\* The block arrived and has the hash of the peer's list: its header is
\* returned.  Its signature is the one of the peer's list.
GetBlock ==
  /\ Got("block")
  /\ \E p \in fetch.peer :
       LET data == Blocks[has[p]][fetch.block]
       IN  Return(Hdr(data = Empty, reader.sig),
                  [reader EXCEPT !.block = @ + 1, !.body = <<data>>,
                                 !.sig = Sig(has[p], fetch.block),
                                 !.trailer = (fetch.block = Len(ReferenceBlocks))])
  /\ fetch' = NoFetch
  /\ UNCHANGED <<has, peers, good, pre_fetch>>

\* The response of the peer has no body, as the error response of a peer that
\* no longer has the resource: the reader is done.
GetNothing ==
  /\ Got("no body")
  /\ Return(LastHdr, [reader EXCEPT !.block = @ + 1, !.last_sent = TRUE,
                                    !.sig = NoSig, !.state = "done"])
  /\ fetch' = NoFetch
  /\ UNCHANGED <<has, peers, good, pre_fetch>>

\* Mutant of unmark_as_good: the peer may be asked again.
unmark_nobody(p) ==
  /\ pre_fetch' = IF pre_fetch.peer = p THEN NoFetch ELSE pre_fetch
  /\ UNCHANGED good

unmark_as_good(p) ==
  /\ good' = good \ p
  /\ pre_fetch' = IF pre_fetch.peer = p THEN NoFetch ELSE pre_fetch

\* get_block failed: another peer is tried at once if some are good.
GetFails ==
  /\ Got("failed")
  /\ LET G == good \ fetch.peer
         again == new_fetch_job(G, fetch.block, {})
     IN  \/ /\ G # {} \/ still_waiting_for_candidates
            /\ unmark_as_good(fetch.peer)
            /\ IF G # {} THEN (\E f \in again : fetch' = Ask(f)) /\ reading_at' = "get"
               ELSE fetch' = [fetch EXCEPT !.peer = {}] /\ reading_at' = "retry"
            /\ UNCHANGED <<has, peers, reader, out>>
         \/ /\ IF G # {} THEN again = {} ELSE ~still_waiting_for_candidates
            /\ ReadFails

\* Peers responded, or none is left, while the fetch waited for another one.
Retry ==
  /\ reader.state = "active"
  /\ reading_at = "retry"
  /\ LET again == new_fetch_job(good, fetch.block, {})
     IN  \/ /\ PeersResponded
            /\ \E f \in again : fetch' = Ask(f)
            /\ reading_at' = "get"
            /\ UNCHANGED <<has, peers, good, reader, pre_fetch, out>>
         \/ /\ NoPeers \/ (PeersResponded /\ again = {})
            /\ ReadFails

\* close is called; a suspended async_read_part is cancelled.
Close ==
  /\ Alive
  /\ ReadFails

------------------------------------------------------------------------------
PeerStep == \E p \in Peer : CandidateGood(p) \/ CandidateFails(p) \/ CandidateTimesOut(p)

LookupStep == DhtIsReady \/ LookupFails \/ \E S \in SUBSET Peer : LookupFinds(S)

ReadStep == GetBlock \/ GetNothing \/ GetFails \/ Retry \/ ReadHdr \/ ReadHead

CallStep == ReadBody \/ ReadLastHdr \/ ReadTrailer \/ ReadEnd

AnswerStep == \E r \in {"block", "no body", "failed"} : JobEnds(r)

FetchStep == PeerAnswers \/ PeerFails \/ AnswerStep

ReaderNext == PeerStep \/ LookupStep \/ ReadStep \/ CallStep \/ FetchStep \/ Close

ReaderSpec == ReaderInit /\ [][ReaderNext]_reader_vars

\* The download of a hash list and every part of an answer after its first
\* byte have a time limit, so they arrive or fail, and whoever waits for them
\* goes on.  Nothing makes an asked peer answer or fail.
ReaderFair ==
  /\ \A p \in Peer : WF_reader_vars(CandidateGood(p) \/ CandidateFails(p) \/ CandidateTimesOut(p))
  /\ WF_reader_vars(AnswerStep)
  /\ WF_reader_vars(reading_at # "idle" /\ ReadStep)

------------------------------------------------------------------------------
(***************************************************************************)
(* Properties.                                                             *)
(***************************************************************************)

\* How many body parts are among the first k parts returned.
BodyParts(k) == Cardinality({j \in 1 .. k : out[j].part = "body"})

\* Whichever peers the blocks came from, what is returned is the body of the
\* response whose head was returned: the blocks of the reference list, in
\* order, none missing in between.
DeliversReference ==
  \A k \in DOMAIN out : out[k].part = "body" =>
    BodyParts(k) <= Len(ReferenceBlocks) /\ out[k].data = ReferenceBlocks[BodyParts(k)]

\* A download of a hash list that timed out left its peer a candidate.
SomeTimedOut == ~(candidates \subseteq trying)

\* The call waits for the first byte of the answer of a peer.
AwaitsAnswer == reading_at = "get" /\ fetch.job = "asked"

\* Once the lookup is over, every call of async_read_part returns, unless the
\* download of a hash list times out or a peer stays silent: read_block reads
\* the first byte of the answer without a time limit, and a peer that keeps
\* its connection open and never sends it holds the call for ever.  In every
\* other case the call ends: peers that fail are not asked again.
CallsReturn ==
  (lookup = "done" /\ reading_at # "idle")
    ~> (reading_at = "idle" \/ SomeTimedOut \/ []AwaitsAnswer)

\* "Peers that are in _all_udp_peers/_all_i2p_peers but are not in either
\* _candidate_peers nor _good_peers are considered as failed": a peer whose
\* download ended without success is in neither.
EndedIsFailed == ~SomeTimedOut
=============================================================================
