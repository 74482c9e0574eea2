----------------------------- MODULE DhtLookup -----------------------------
(***************************************************************************)
(* A search through the DHT and the operations made of one: collect.h, the *)
(* evaluating functions and queries of src/bittorrent/mainline_dht.cpp and *)
(* the ProximityMap they fill.                                             *)
(*                                                                         *)
(* A contact with an id is its rank in the order of distance from the      *)
(* target, 1 being the closest; a bootstrap endpoint, whose id is not      *)
(* known, comes after all of these.  A query that is sent ends: DhtNode    *)
(* shows it.  What the reply says is arbitrary.                            *)
(*                                                                         *)
(* The collecting coroutine and its jobs share an executor.  A job is      *)
(* active until on_finish was called for it, by the job itself when it     *)
(* ends or before that by its watch dog ("dismiss"); it holds a slot of    *)
(* the scheduler for as long.                                              *)
(***************************************************************************)
EXTENDS Naturals, FiniteSets, FiniteSetsExt

CONSTANTS
    Ids,         \* for each operation: there are the contacts 1 .. Ids[op]
    Boots,       \* bootstrap endpoints, larger than any contact with an id
    MapSize,     \* RESPONSIBLE_TRACKERS_PER_SWARM, what the map has room for
    Slots        \* of the scheduler of collect

ASSUME LookupAssumption ==
    /\ DOMAIN Ids \subseteq {"find_closest_nodes", "tracker_announce",
                             "data_get_immutable", "data_put_immutable",
                             "data_get_mutable", "data_put_mutable"}
    /\ Boots \subseteq Nat
    /\ \A o \in DOMAIN Ids : Ids[o] \in Nat /\ \A b \in Boots : Ids[o] < b
    /\ Slots \in Nat \ {0}
    /\ MapSize \in Nat \ {0}

HasId(c) == c \notin Boots

VARIABLES
    op,
    first,      \* first_candidates
    used,       \* candidates already picked
    unused,     \* candidates not yet picked
    queue,      \* new_candidates: the contacts in it
    eofs,       \* new_candidates: is there an entry of on_finish in it?
    pc,         \* where the collecting coroutine is
    job,        \* where the coroutine of each candidate is
    active,     \* active_jobs
    found,      \* the ids in the ProximityMap
    data,       \* was a valid item received?
    blacklist,
    tries,      \* of send_write_query, after the search, for each found id
    success,
    asked       \* history: the candidates a query was sent to

lookupvars == <<op, first, used, unused, queue, eofs, pc, job, active, found, data,
          blacklist, tries, success, asked>>

TRIES == 3

Node == 1 .. Ids[op]
Contact == Node \cup Boots

-----------------------------------------------------------------------------
\* ProximityMap
full == Cardinality(found) >= MapSize

\* Mutant of would_insert: only while there is room.
would_insert_room(c) == ~full

would_insert(c) == full => c < Max(found)

insert(c) ==
    IF ~full THEN found \cup {c}
    ELSE IF Max(found) < c THEN found
    ELSE (found \ {Max(found)}) \cup {c}

Insert(c) == found' = IF HasId(c) THEN insert(c) ELSE found

-----------------------------------------------------------------------------
\* Some contacts of the table, and the bootstrap endpoints.
LookupInit ==
    /\ op \in DOMAIN Ids
    /\ first \in {S \cup Boots :
                    S \in {T \in SUBSET Node :
                             Cardinality(T) <= MapSize}}
    /\ used = {}
    /\ unused = first
    /\ queue = {}
    /\ eofs = FALSE
    /\ pc = "slot"
    /\ job = [c \in Contact |-> "none"]
    /\ active = {}
    /\ found = {}
    /\ data = FALSE
    /\ blacklist = {}
    /\ tries = [c \in {} |-> 0]
    /\ success = FALSE
    /\ asked = {}

collecting == <<op, first, tries, success>>

\* pick_candidate and what follows it; known are the untried candidates.
\* Called from where the coroutine has a slot.
Pick(known) ==
    IF known # {}
    THEN /\ used' = used \cup {Min(known)}
         /\ unused' = known \ {Min(known)}
         /\ job' = [job EXCEPT ![Min(known)] = "spawned"]
         /\ active' = active \cup {Min(known)}
         /\ pc' = "slot"
    ELSE /\ unused' = known
         /\ pc' = IF active = {} /\ queue' = {} /\ ~eofs' THEN "drain" ELSE "pop"
         /\ UNCHANGED <<used, job, active>>

GetSlot ==
    /\ pc = "slot"
    /\ Cardinality(active) < Slots
    /\ UNCHANGED <<queue, eofs>>
    /\ Pick(unused)
    /\ UNCHANGED <<collecting, found, data, blacklist, asked>>

\* async_pop_one_or_more empties the queue; on_finish's entries count for
\* nothing but waking the coroutine.
PopCandidates ==
    /\ pc = "pop"
    /\ queue # {} \/ eofs
    /\ queue' = {}
    /\ eofs' = FALSE
    /\ Pick(unused \cup (queue \ used))
    /\ UNCHANGED <<collecting, found, data, blacklist, asked>>

on_finish(c) ==
    /\ active' = active \ {c}
    /\ eofs' = (eofs \/ c \in active)

End(c) ==
    /\ job' = [job EXCEPT ![c] = "ended"]
    /\ on_finish(c)

Running(c) == job[c] \notin {"none", "ended"}

Searching == pc \in {"slot", "pop"}

\* The watch dog of a job that takes too long: 5 seconds for a first candidate,
\* 200 ms for another, more while it waits for a reply.
Dismiss(c) ==
    /\ Searching
    /\ Running(c) /\ job[c] # "spawned"
    /\ c \in active
    /\ on_finish(c)
    /\ UNCHANGED <<collecting, used, unused, queue, pc, job, found, data,
                   blacklist, asked>>

-----------------------------------------------------------------------------
Skips(c) ==
    \/ ~HasId(c) /\ full
    \/ HasId(c) /\ ~would_insert(c)
    \/ op = "data_get_immutable" /\ data
    \/ op = "data_put_mutable" /\ c \in blacklist

\* evaluate starts.
StartJob(c) ==
    /\ Searching
    /\ job[c] = "spawned"
    /\ \/ Skips(c) /\ End(c) /\ UNCHANGED asked
       \/ /\ ~Skips(c)
          /\ job' = [job EXCEPT ![c] = "query"]
          /\ asked' = asked \cup {c}
          /\ UNCHANGED <<active, eofs>>
    /\ UNCHANGED <<collecting, used, unused, queue, pc, found, data, blacklist>>

Push(nodes) == queue' = queue \cup nodes

\* query_find_node2: read_nodes is false when there is no node.
FindNodeAnswered(c, nodes) ==
    /\ op = "find_closest_nodes"
    /\ Push(nodes)
    /\ \/ nodes # {} /\ Insert(c)
       \/ nodes = {} /\ UNCHANGED found
    /\ End(c)
    /\ UNCHANGED <<data, blacklist>>

\* query_get_peers; without nodes in the reply it asks again, with find_node.
GetPeersAnswered(c, nodes, token) ==
    /\ op = "tracker_announce"
    /\ \/ /\ nodes # {}
          /\ Push(nodes)
          /\ \/ token /\ Insert(c)
             \/ ~token /\ UNCHANGED found
          /\ End(c)
       \/ /\ nodes = {}
          /\ job' = [job EXCEPT ![c] = IF token THEN "find_token" ELSE "find"]
          /\ UNCHANGED <<queue, found, active, eofs>>
    /\ UNCHANGED <<data, blacklist>>

\* query_get_data and query_get_data2.
GetAnswered(c, nodes, token, valid) ==
    /\ op \in {"data_get_immutable", "data_get_mutable", "data_put_immutable"}
    /\ Push(nodes)
    /\ \/ /\ op = "data_put_immutable" => token
          /\ Insert(c)
       \/ /\ op = "data_put_immutable" /\ ~token
          /\ UNCHANGED found
    /\ data' = (data \/ (valid /\ op # "data_put_immutable"))
    /\ End(c)
    /\ UNCHANGED blacklist

\* query_get_data3; then the node is written to at once, if it is one of the
\* closest or has an older version (older).
PutAnswered(c, nodes, token, older) ==
    /\ op = "data_put_mutable"
    /\ Push(nodes)
    /\ \/ /\ token /\ HasId(c) /\ would_insert(c)
          /\ job' = [job EXCEPT ![c] = IF older THEN "write_older" ELSE "write"]
          /\ UNCHANGED <<active, eofs>>
       \/ /\ token /\ HasId(c) /\ ~would_insert(c) /\ older
          /\ job' = [job EXCEPT ![c] = "update"]
          /\ UNCHANGED <<active, eofs>>
       \/ /\ ~(token /\ HasId(c) /\ (would_insert(c) \/ older))
          /\ End(c)
    /\ UNCHANGED <<found, data, blacklist>>

Answered(c) ==
    /\ Searching
    /\ job[c] = "query"
    /\ \E nodes \in {N \in SUBSET Node : Cardinality(N) <= 2},
          token \in BOOLEAN, item \in BOOLEAN :
        \/ FindNodeAnswered(c, nodes)
        \/ GetPeersAnswered(c, nodes, token)
        \/ GetAnswered(c, nodes, token, item)
        \/ PutAnswered(c, nodes, token, item)
    /\ UNCHANGED <<collecting, used, unused, pc, asked>>

\* No reply, or an error: a node that does not implement BEP 44 may still know
\* closer nodes.
QueryFailed(c) ==
    /\ Searching
    /\ job[c] = "query"
    /\ \/ /\ op \in {"data_get_immutable", "data_put_immutable", "data_get_mutable"}
          /\ job' = [job EXCEPT ![c] = "find"]
          /\ UNCHANGED <<active, eofs>>
       \/ End(c)
    /\ op \in {"data_get_immutable", "data_put_immutable"} => job'[c] = "find"
    /\ blacklist' = IF op = "data_put_mutable" THEN blacklist \cup {c} ELSE blacklist
    /\ UNCHANGED <<collecting, used, unused, queue, pc, found, data, asked>>

\* The find_node query that followed ends.
FindEnds(c) ==
    /\ Searching
    /\ job[c] \in {"find", "find_token"}
    /\ \E nodes \in SUBSET Node : Push(nodes)
    /\ \/ job[c] = "find_token" /\ Insert(c)
       \/ job[c] = "find" /\ UNCHANGED found
    /\ End(c)
    /\ UNCHANGED <<collecting, used, unused, pc, data, blacklist, asked>>

\* write_to_node ends (send_write_query, tried up to TRIES times), for a node
\* found by data_put_mutable: answered, by "r" or an error, or not at all.
\* A node that did not answer is the one that is inserted.
WriteToNodeEnds(c, answered) ==
    /\ Searching
    /\ job[c] \in {"write", "write_older", "update"}
    /\ \/ /\ job[c] \in {"write", "write_older"} /\ ~answered
          /\ Insert(c)
          /\ End(c)
       \/ /\ job[c] = "write_older" /\ answered
          /\ job' = [job EXCEPT ![c] = "update"]
          /\ UNCHANGED <<active, eofs, found>>
       \/ /\ job[c] = "update" \/ (job[c] = "write" /\ answered)
          /\ End(c)
          /\ UNCHANGED found
    /\ UNCHANGED <<collecting, used, unused, queue, pc, data, blacklist, asked>>

-----------------------------------------------------------------------------
\* Five seconds after data_get_mutable got an item its watch dog triggers the
\* cancel signal of the caller, and the search is given up.
GiveUp ==
    /\ op = "data_get_mutable" /\ data
    /\ Searching
    /\ pc' = "abort"
    /\ UNCHANGED <<collecting, used, unused, queue, eofs, job, active, found, data,
                   blacklist, asked>>

\* local_yield was cancelled: a job that was dismissed and still runs ends,
\* without effect.
JobCancelled(c) ==
    /\ pc \in {"drain", "abort"}
    /\ Running(c)
    /\ job' = [job EXCEPT ![c] = "ended"]
    /\ UNCHANGED <<collecting, used, unused, queue, eofs, pc, active, found, data,
                   blacklist, asked>>

\* all_done.wait returns; what the operation does with what was found.
Collected ==
    /\ pc \in {"drain", "abort"}
    /\ \A c \in Contact : ~Running(c)
    /\ LET writes == op \in {"tracker_announce", "data_put_immutable"}
       IN  /\ pc' = IF writes THEN "write" ELSE "done"
           /\ tries' = [c \in IF writes THEN found ELSE {} |-> TRIES]
           /\ success' = CASE op = "data_put_mutable" -> found # {}
                           [] op = "data_get_immutable" -> data
                           [] op = "data_get_mutable" -> data /\ pc # "abort"
                           [] op = "find_closest_nodes" -> TRUE
                           [] OTHER -> FALSE
    /\ UNCHANGED <<op, first, used, unused, queue, eofs, job, active, found, data,
                   blacklist, asked>>

\* Mutant of WriteTried: after the last attempt they start over.
WriteTriedForever(c, answered) ==
    /\ pc = "write"
    /\ tries[c] > 0
    /\ success' = (success \/ answered)
    /\ tries' = [tries EXCEPT ![c] = IF answered THEN 0 ELSE IF @ = 1 THEN TRIES ELSE @ - 1]
    /\ UNCHANGED <<op, first, used, unused, queue, eofs, pc, job, active, found,
                   data, blacklist, asked>>

\* An attempt of send_write_query ends; any answer is good enough.
WriteTried(c, answered) ==
    /\ pc = "write"
    /\ tries[c] > 0
    /\ success' = (success \/ answered)
    /\ tries' = [tries EXCEPT ![c] = IF answered THEN 0 ELSE @ - 1]
    /\ UNCHANGED <<op, first, used, unused, queue, eofs, pc, job, active, found,
                   data, blacklist, asked>>

Written ==
    /\ pc = "write"
    /\ \A c \in DOMAIN tries : tries[c] = 0
    /\ pc' = "done"
    /\ UNCHANGED <<op, first, used, unused, queue, eofs, job, active, found, data,
                   blacklist, tries, success, asked>>

Finished == pc = "done" /\ UNCHANGED lookupvars

JobStep(c) ==
    \/ StartJob(c)
    \/ Answered(c)
    \/ QueryFailed(c)
    \/ FindEnds(c)
    \/ \E answered \in BOOLEAN : WriteToNodeEnds(c, answered)
    \/ JobCancelled(c)

LookupNext ==
    \/ GetSlot
    \/ PopCandidates
    \/ \E c \in Contact : JobStep(c) \/ Dismiss(c)
    \/ GiveUp
    \/ Collected
    \/ \E c \in DOMAIN tries, answered \in BOOLEAN : WriteTried(c, answered)
    \/ Written
    \/ Finished

LookupSpec == LookupInit /\ [][LookupNext]_lookupvars

\* Coroutines that can run do, and every query ends by its own time limit.
LookupFair ==
    WF_lookupvars(\/ GetSlot \/ PopCandidates \/ Collected \/ Written
                  \/ \E c \in Contact : JobStep(c)
                  \/ \E c \in DOMAIN tries, answered \in BOOLEAN : WriteTried(c, answered))

-----------------------------------------------------------------------------
\* A search ends with nothing closer left to ask: each contact it was told of
\* was asked, or is farther than those found, which are as many as wanted.
\* (A search for an item may stop when it has one.)
NothingCloserLeft ==
    pc \in {"drain", "write", "done"} =>
        \A c \in used \cup unused \cup queue :
            \/ c \in asked
            \/ full /\ \A f \in found : f < c
            \/ op \in {"data_get_immutable", "data_get_mutable"} /\ data

\* Every operation returns, whatever the nodes answer and however many of the
\* jobs are dismissed: the collecting coroutine is always woken.
LookupEnds == <>(pc = "done")

=============================================================================
