---------------------------- MODULE MainlineDht ----------------------------
(***************************************************************************)
(* The life of the BitTorrent DHT in one process: MainlineDht holds one    *)
(* DhtNode per local endpoint, each of which bootstraps (learns the        *)
(* endpoint it is seen at, then looks itself up) before it is ready and    *)
(* from then on keeps its contacts in a file for the next run of the       *)
(* program (src/bittorrent/mainline_dht.cpp).  Bep5Announcers wait for all *)
(* the nodes before each announcement (src/bittorrent/bep5_announcer.cpp). *)
(*                                                                         *)
(* Endpoints are numbers.  What a node of the DHT answers, which contacts  *)
(* a routing table holds when it is stored and what becomes of an          *)
(* announcement are chosen freely; the search that ends the bootstrap and  *)
(* the announcement are the operations of DhtLookup, one step here.  Left  *)
(* out: the lengths of the waits, and removing an endpoint (set_endpoints  *)
(* is called once, by the injector, when there is no node yet).            *)
(***************************************************************************)
EXTENDS Integers, FiniteSets, FiniteSetsExt

CONSTANTS
    Local,          \* the local endpoints
    Configured,     \* [Local -> SUBSET [ep, id, score]]: Config::collect()
    Contacts,       \* what a routing table may hold: [ep, id]
    MyEndpoint,     \* what a node may say our endpoint is
    Allowed,        \* those of MyEndpoint the PeerFilter accepts
    SCORE_GOAL,
    MAX_STORED,     \* contacts written to the file (500)
    Announcer,      \* [name -> "Periodic" or "Manual"]
    Setups,         \* records [local, announcers, file, runs]: what a program has
                    \* of Local and Announcer, the file it first finds, and a
                    \* bound on how often it is run
    MaxUpdates      \* bound on calls of update()

VARIABLES
    setup,          \* the endpoints and announcers of the program
    node,           \* of each local endpoint: what its DhtNode does
    bootstraps,     \* the addresses it bootstraps from
    todo,           \* those still to be tried in this round
    children,       \* those being tried
    results,        \* [my endpoint -> Stats], of this round
    wan,            \* _wan_endpoint, or None
    file,           \* stored_peers-ipv4.txt: <<contacts>>, or NoFile
    loop,           \* where the loop of each announcer is
    go_again,
    woken,          \* it waits on a condition variable that was notified
    updates,        \* calls of update() so far
    runs,
    \* history:
    votes,          \* who answered what in this round
    due             \* an update() no announcement was started after

bootvars == <<node, bootstraps, todo, children, results, wan, votes>>
loopvars == <<loop, go_again, woken, updates, due>>
dhtvars  == <<setup, bootvars, file, loopvars, runs>>

None   == -1
NoFile == <<>>

NoResults == [m \in MyEndpoint |-> [score |-> 0, nodes |-> {}]]

LoopsStart ==
    [a \in DOMAIN Announcer |-> IF a \in setup.announcers THEN "top" ELSE "off"]

MainlineInit ==
    /\ setup \in Setups
    /\ node = [l \in Local |-> "none"]
    /\ bootstraps = [l \in Local |-> {}]
    /\ todo = [l \in Local |-> {}]
    /\ children = [l \in Local |-> {}]
    /\ results = [l \in Local |-> NoResults]
    /\ wan = [l \in Local |-> None]
    /\ file = setup.file
    /\ loop = LoopsStart
    /\ go_again = [a \in DOMAIN Announcer |-> FALSE]
    /\ woken = [a \in DOMAIN Announcer |-> FALSE]
    /\ updates = 0
    /\ runs = 1
    /\ votes = [l \in Local |-> {}]
    /\ due = [a \in DOMAIN Announcer |-> FALSE]

-----------------------------------------------------------------------------
(***************************************************************************)
(* The contacts file.                                                      *)
(***************************************************************************)
\* The addresses read from it count one each: they are not fully trusted.
read_stored_contacts ==
    IF file = NoFile THEN {}
    ELSE {[ep |-> c.ep, id |-> c.id, score |-> 1] : c \in file[1]}

First(k, s) ==
    LET before(a, b) == a.id < b.id
    IN  {c \in s : Cardinality({d \in s : before(d, c)}) < k}

\* New contacts first, then old ones, as many as fit.  It reads the old ones
\* before it writes, and gives up when there is no file to read.
write_stored_contacts(contacts) ==
    LET new == First(MAX_STORED, contacts)
    IN  file' = IF file = NoFile
                THEN NoFile
                ELSE <<new \cup First(MAX_STORED - Cardinality(new), file[1])>>

\* A turn of store_contacts_loop.
store_contacts_loop(l) ==
    /\ node[l] = "ready"
    /\ \E contacts \in SUBSET Contacts : write_stored_contacts(contacts)
    /\ UNCHANGED <<setup, bootvars, loopvars, runs>>

-----------------------------------------------------------------------------
(***************************************************************************)
(* Bootstrap.                                                              *)
(***************************************************************************)
add_endpoint(l) ==
    /\ l \in setup.local /\ node[l] = "none"
    /\ node' = [node EXCEPT ![l] = "round"]
    /\ bootstraps' = [bootstraps EXCEPT ![l] = Configured[l] \cup read_stored_contacts]
    /\ todo' = [todo EXCEPT ![l] = bootstraps'[l]]
    /\ UNCHANGED <<setup, children, results, wan, votes, file, loopvars, runs>>

bootstrap_single(l, b) ==
    /\ node[l] = "round" /\ b \in todo[l]
    /\ todo' = [todo EXCEPT ![l] = @ \ {b}]
    /\ children' = [children EXCEPT ![l] = @ \cup {b}]
    /\ UNCHANGED <<setup, node, bootstraps, results, wan, votes, file, loopvars, runs>>

add_result(stats, b) ==
    IF b.ep \in stats.nodes
    THEN stats
    ELSE [score |-> stats.score + b.score, nodes |-> stats.nodes \cup {b.ep}]

\* The child's bootstrap_single returned `my`.  With the goal reached, the
\* other children and the loop that starts them are cancelled.
BootstrapReply(l, b, my) ==
    /\ b \in children[l]
    /\ votes' = [votes EXCEPT ![l] = @ \cup {[ep |-> b.ep, score |-> b.score, my |-> my]}]
    /\ IF my \notin Allowed
       THEN /\ children' = [children EXCEPT ![l] = @ \ {b}]
            /\ UNCHANGED <<todo, results, wan>>
       ELSE LET stats == add_result(results[l][my], b)
            IN  /\ results' = [results EXCEPT ![l][my] = stats]
                /\ IF stats.score >= SCORE_GOAL
                   THEN /\ wan' = [wan EXCEPT ![l] = my]
                        /\ children' = [children EXCEPT ![l] = {}]
                        /\ todo' = [todo EXCEPT ![l] = {}]
                   ELSE /\ children' = [children EXCEPT ![l] = @ \ {b}]
                        /\ UNCHANGED <<todo, wan>>
    /\ UNCHANGED <<setup, node, bootstraps, file, loopvars, runs>>

BootstrapFails(l, b) ==
    /\ b \in children[l]
    /\ children' = [children EXCEPT ![l] = @ \ {b}]
    /\ UNCHANGED <<setup, node, bootstraps, todo, results, wan, votes, file, loopvars, runs>>

\* All children are done: with an endpoint, or with the best one answered, go
\* on; else wait and start another round.
BestOf(r) ==
    LET scores == {r[m].score : m \in MyEndpoint}
    IN  Min({m \in MyEndpoint : r[m].score = Max(scores)})

RoundEnds(l) ==
    /\ node[l] = "round" /\ todo[l] = {} /\ children[l] = {}
    /\ \/ /\ wan[l] # None
          /\ node' = [node EXCEPT ![l] = "search"]
          /\ UNCHANGED wan
       \/ /\ wan[l] = None /\ results[l] # NoResults
          /\ wan' = [wan EXCEPT ![l] = BestOf(results[l])]
          /\ node' = [node EXCEPT ![l] = "search"]
       \/ /\ wan[l] = None /\ results[l] = NoResults
          /\ node' = [node EXCEPT ![l] = "sleep"]
          /\ UNCHANGED wan
    /\ UNCHANGED <<setup, bootstraps, todo, children, results, votes, file, loopvars, runs>>

TryAgain(l) ==
    /\ node[l] = "sleep"
    /\ node' = [node EXCEPT ![l] = "round"]
    /\ todo' = [todo EXCEPT ![l] = bootstraps[l]]
    /\ results' = [results EXCEPT ![l] = NoResults]
    /\ votes' = [votes EXCEPT ![l] = {}]
    /\ UNCHANGED <<setup, bootstraps, children, wan, file, loopvars, runs>>

\* The node found its neighbours; _ready_cv is notified.
NodeReady(l) ==
    /\ node[l] = "search"
    /\ node' = [node EXCEPT ![l] = "ready"]
    /\ woken' = [a \in DOMAIN Announcer |-> woken[a] \/ loop[a] = "ready"]
    /\ UNCHANGED <<setup, bootstraps, todo, children, results, wan, votes, file, loop,
                   go_again, updates, due, runs>>

\* The program ends and is started again.  stop() starts to store the contacts
\* and then cancels what it started.
Restart ==
    /\ runs < setup.runs
    /\ runs' = runs + 1
    /\ node' = [l \in Local |-> "none"]
    /\ bootstraps' = [l \in Local |-> {}]
    /\ todo' = [l \in Local |-> {}]
    /\ children' = [l \in Local |-> {}]
    /\ results' = [l \in Local |-> NoResults]
    /\ wan' = [l \in Local |-> None]
    /\ votes' = [l \in Local |-> {}]
    /\ loop' = LoopsStart
    /\ go_again' = [a \in DOMAIN Announcer |-> FALSE]
    /\ woken' = [a \in DOMAIN Announcer |-> FALSE]
    /\ due' = [a \in DOMAIN Announcer |-> FALSE]
    /\ UNCHANGED <<setup, file, updates>>

-----------------------------------------------------------------------------
(***************************************************************************)
(* Bep5AnnouncerImpl::loop and update.                                     *)
(***************************************************************************)
all_ready == \A l \in Local : node[l] \in {"none", "ready"}

\* From taking the request to the announcement, or to the wait for the DHT.
Announce(a) ==
    /\ go_again' = [go_again EXCEPT ![a] = FALSE]
    /\ loop' = [loop EXCEPT ![a] = IF all_ready THEN "announce" ELSE "ready"]
    /\ due' = [due EXCEPT ![a] = @ /\ ~all_ready]

Top(a) ==
    /\ loop[a] = "top"
    /\ IF Announcer[a] = "Manual" /\ ~go_again[a]
       THEN /\ loop' = [loop EXCEPT ![a] = "cv"]
            /\ UNCHANGED <<go_again, due>>
       ELSE Announce(a)
    /\ UNCHANGED <<setup, bootvars, file, woken, updates, runs>>

update(a) ==
    /\ loop[a] # "off" /\ Announcer[a] = "Manual" /\ updates < MaxUpdates
    /\ updates' = updates + 1
    /\ go_again' = [go_again EXCEPT ![a] = TRUE]
    /\ woken' = [woken EXCEPT ![a] = @ \/ loop[a] = "cv"]
    /\ due' = [due EXCEPT ![a] = TRUE]
    /\ UNCHANGED <<setup, bootvars, file, loop, runs>>

UpdateSeen(a) ==
    /\ loop[a] = "cv" /\ woken[a]
    /\ woken' = [woken EXCEPT ![a] = FALSE]
    /\ IF go_again[a] THEN Announce(a) ELSE UNCHANGED <<loop, go_again, due>>
    /\ UNCHANGED <<setup, bootvars, file, updates, runs>>

wait_all_ready(a) ==
    /\ loop[a] = "ready" /\ woken[a]
    /\ woken' = [woken EXCEPT ![a] = FALSE]
    /\ loop' = [loop EXCEPT ![a] = IF all_ready THEN "announce" ELSE @]
    /\ due' = [due EXCEPT ![a] = @ /\ ~all_ready]
    /\ UNCHANGED <<setup, bootvars, file, go_again, updates, runs>>

\* tracker_announce over the nodes there are: it succeeded if it did on one.
tracker_announce(a, succeeded) ==
    /\ loop[a] = "announce"
    /\ loop' = [loop EXCEPT ![a] = IF succeeded = {} THEN "backoff"
                                   ELSE IF Announcer[a] = "Manual" THEN "top"
                                   ELSE "sleep"]
    /\ UNCHANGED <<setup, bootvars, file, go_again, woken, updates, due, runs>>

\* Mutant of Slept: the request is taken as answered by the announcement that
\* just ended.
SleptAndReset(a) ==
    /\ loop[a] \in {"backoff", "sleep"}
    /\ loop' = [loop EXCEPT ![a] = "top"]
    /\ go_again' = [go_again EXCEPT ![a] = FALSE]
    /\ UNCHANGED <<setup, bootvars, file, woken, updates, due, runs>>

\* After a failure the loop does not wait for another request.
Slept(a) ==
    /\ loop[a] \in {"backoff", "sleep"}
    /\ loop' = [loop EXCEPT ![a] = "top"]
    /\ go_again' = [go_again EXCEPT ![a] = @ \/ loop[a] = "backoff"]
    /\ UNCHANGED <<setup, bootvars, file, woken, updates, due, runs>>

LoopStep(a) ==
    \/ Top(a)
    \/ UpdateSeen(a)
    \/ wait_all_ready(a)
    \/ \E succeeded \in SUBSET {l \in Local : node[l] # "none"} :
          tracker_announce(a, succeeded)
    \/ Slept(a)

NodeStep(l) ==
    \/ \E b \in todo[l] : bootstrap_single(l, b)
    \/ \E b \in children[l] :
          BootstrapFails(l, b) \/ \E my \in MyEndpoint : BootstrapReply(l, b, my)
    \/ RoundEnds(l)
    \/ TryAgain(l)
    \/ NodeReady(l)

MainlineNext ==
    \/ \E l \in Local : add_endpoint(l) \/ NodeStep(l) \/ store_contacts_loop(l)
    \/ \E a \in DOMAIN Announcer : LoopStep(a) \/ update(a)
    \/ Restart

\* The coroutines run, and a configured node that is asked again and again
\* does not fail to answer every time.
MainlineFair ==
    /\ \A l \in Local :
          /\ WF_dhtvars(NodeStep(l))
          /\ SF_dhtvars(\E b \in {c \in children[l] : c.score = SCORE_GOAL}, my \in Allowed :
                           BootstrapReply(l, b, my))
    /\ \A a \in DOMAIN Announcer : WF_dhtvars(LoopStep(a))

-----------------------------------------------------------------------------
\* Every update() is followed by an announcement that starts after it, whether
\* it comes while the loop waits, backs off, announces or waits for the DHT.
UpdateIsAnnounced ==
    \A a \in DOMAIN Announcer : due[a] ~> ~due[a]

=============================================================================
