-------------------------- MODULE RetrievalProofs ---------------------------
(***************************************************************************)
(* Proofs about how a response is found and read: a search through the     *)
(* DHT, for any number of contacts, of bootstrap endpoints and of          *)
(* scheduler slots, and any size of the ProximityMap; and a                *)
(* MultiPeerReader, for any peers, injections and blocks.                  *)
(***************************************************************************)
EXTENDS DhtLookup, MultiPeerReader, FiniteSetTheorems, TLAPS

\* A nonempty set of naturals has a least element.
LEMMA MinOfNats ==
    ASSUME NEW S \in SUBSET Nat, S # {}
    PROVE  Min(S) \in S /\ \A y \in S : Min(S) =< y
<1> DEFINE R == OpToRel(<, Nat)
<1>1. \A x, y \in Nat : <<x, y>> \in R <=> x < y
    BY Zenon DEF OpToRel
<1>2. IsWellFoundedOn(R, Nat)
    BY Zenon, NatLessThanWellFounded
<1> HIDE DEF R
<1>3. PICK x \in S : \A y \in S : <<y, x>> \notin R
    BY Zenon, <1>2, WFMin
<1>4. ASSUME NEW y \in S PROVE x =< y
    <2>1. x \in Nat /\ y \in Nat
        BY Zenon
    <2>2. ~(y < x)
        BY Zenon, <1>1, <1>3, <2>1
    <2>3. QED
        BY <2>1, <2>2
<1>5. QED
    BY Zenon, <1>4 DEF Min

\* A nonempty set of naturals below a bound has a greatest element.
LEMMA MaxOfNats ==
    ASSUME NEW n \in Nat, NEW S \in SUBSET 0 .. n, S # {}
    PROVE  Max(S) \in S /\ \A y \in S : y =< Max(S)
<1> DEFINE T == {n - x : x \in S}
<1>1. T \in SUBSET Nat /\ T # {}
    <2>1. \A x \in S : x \in 0 .. n
        BY Zenon
    <2>2. \A x \in S : n - x \in Nat
        BY <2>1
    <2>3. QED
        BY Zenon, <2>2
<1> HIDE DEF T
<1>2. Min(T) \in T /\ \A y \in T : Min(T) =< y
    BY Zenon, <1>1, MinOfNats
<1>3. PICK m \in S : Min(T) = n - m
    BY Zenon, <1>2 DEF T
<1>4. \A y \in S : n - m =< n - y
    BY Zenon, <1>2, <1>3 DEF T
<1>5. \A y \in S : m >= y
    BY <1>4
<1>6. Max(S) \in S /\ \A y \in S : Max(S) >= y
    BY Zenon, <1>5 DEF Max
<1>7. QED
    BY Zenon, <1>6

-----------------------------------------------------------------------------
(***************************************************************************)
(* The search.                                                             *)
(***************************************************************************)

JobState == {"none", "spawned", "query", "find", "find_token", "write",
             "write_older", "update", "ended"}

LookupTypeOK ==
    /\ op \in DOMAIN Ids
    /\ used \subseteq Contact
    /\ unused \subseteq Contact
    /\ queue \subseteq Contact
    /\ found \subseteq Node
    /\ job \in [Contact -> JobState]
    /\ data \in BOOLEAN

\* A search for an item that has one.
HasItem == op \in {"data_get_immutable", "data_get_mutable"} /\ data

\* All that were found are closer than c, and there are enough of them.
Passed(c) == full /\ \A f \in found : f < c

\* No query to c is missing.
Settled(c) == c \in asked \/ Passed(c) \/ HasItem

\* What the jobs know: a contact is picked once, a job that did not start is
\* active, a job that asked is in the history, a contact is found by the last
\* step of its job, and a picked contact is still to be asked or is settled.
JobsSound ==
    /\ used \cap unused = {}
    /\ \A c \in Contact : job[c] # "none" => c \in used
    /\ \A c \in Contact : job[c] = "spawned" => c \in active
    /\ \A c \in Contact : job[c] = "query" => c \in asked
    /\ blacklist \subseteq asked
    /\ \A c \in found : job[c] = "ended"
    /\ \A c \in used : job[c] = "spawned" \/ Settled(c)

\* Where the collecting coroutine is: it drains only when nothing is active,
\* queued or unpicked, and is aborted only with an item.
StopsSound ==
    /\ pc = "drain" => active = {} /\ unused = {} /\ queue = {}
    /\ pc = "abort" => HasItem
    /\ pc \in {"write", "done"} =>
         \/ /\ unused = {} /\ queue = {}
            /\ \A c \in Contact : job[c] # "spawned"
         \/ HasItem

LookupInv == LookupTypeOK /\ JobsSound /\ StopsSound

LEMMA Contacts ==
    ASSUME op \in DOMAIN Ids
    PROVE  /\ Ids[op] \in Nat /\ Node \subseteq Nat /\ Contact \subseteq Nat
           /\ Node \cap Boots = {}
           /\ \A n \in Node, b \in Boots : n < b
<1>1. Ids[op] \in Nat /\ Boots \subseteq Nat /\ \A b \in Boots : Ids[op] < b
    BY Zenon, LookupAssumption
<1>2. \A n \in Node : n \in Nat /\ n =< Ids[op]
    BY <1>1 DEF Node
<1>3. \A n \in Node, b \in Boots : n < b /\ n # b
    <2> SUFFICES ASSUME NEW n \in Node, NEW b \in Boots
                 PROVE  n < b /\ n # b
        BY Zenon
    <2>1. n \in Nat /\ b \in Nat /\ n =< Ids[op] /\ Ids[op] < b /\ Ids[op] \in Nat
        BY Zenon, <1>1, <1>2
    <2>2. QED
        BY <2>1
<1>4. QED
    BY Zenon, <1>1, <1>2, <1>3 DEF Contact

LEMMA FoundFinite ==
    ASSUME op \in DOMAIN Ids, found \subseteq Node
    PROVE  /\ IsFiniteSet(found) /\ Cardinality(found) \in Nat
           /\ found # {} => Max(found) \in found /\ \A f \in found : f =< Max(found)
           /\ full => found # {}
<1>1. Ids[op] \in Nat /\ found \in SUBSET 0 .. Ids[op] /\ 0 \in Int
    BY Contacts DEF Node
<1>2. IsFiniteSet(0 .. Ids[op])
    BY <1>1, FS_Interval
<1>3. IsFiniteSet(found)
    BY Zenon, <1>1, <1>2, FS_Subset
<1>4. Cardinality(found) \in Nat
    BY Zenon, <1>3, FS_CardinalityType
<1>5. found # {} => Max(found) \in found /\ \A f \in found : f =< Max(found)
    BY Zenon, <1>1, MaxOfNats
<1>6. full => found # {}
    BY FS_EmptySet, LookupAssumption DEF full
<1>7. QED
    BY Zenon, <1>3, <1>4, <1>5, <1>6

\* Inserting another contact makes the map no smaller and, once it is full,
\* replaces a farther contact.
LEMMA InsertCloser ==
    ASSUME op \in DOMAIN Ids, found \subseteq Node, NEW d \in Node \ found
    PROVE  /\ insert(d) \subseteq Node /\ insert(d) \subseteq found \cup {d}
           /\ full => /\ Cardinality(insert(d)) >= MapSize
                      /\ \A f \in insert(d) : f =< Max(found)
<1>1. Node \subseteq Nat /\ IsFiniteSet(found) /\ Cardinality(found) \in Nat
    BY Zenon, Contacts, FoundFinite
<1>2. insert(d) \subseteq found \cup {d}
    BY Zenon DEF insert
<1>3. ASSUME full
      PROVE  /\ Cardinality(insert(d)) >= MapSize
             /\ \A f \in insert(d) : f =< Max(found)
    <2> DEFINE m == Max(found)
               rest == found \ {m}
    <2>1. m \in found /\ (\A f \in found : f =< m) /\ m \in Nat
        BY Zenon, <1>1, <1>3, FoundFinite
    <2> HIDE DEF m
    <2>2. IsFiniteSet(rest) /\ Cardinality(rest) = Cardinality(found) - 1
        BY Zenon, <1>1, <2>1, FS_RemoveElement
    <2>3. d \notin rest
        BY Zenon
    <2> HIDE DEF rest
    <2>4. Cardinality(rest \cup {d}) = Cardinality(rest) + 1
        BY Zenon, <2>2, <2>3, FS_AddElement
    <2>5. insert(d) = IF m < d THEN found ELSE rest \cup {d}
        BY Zenon, <1>3 DEF insert, m, rest
    <2>6. Cardinality(found) >= MapSize
        BY Zenon, <1>3 DEF full
    <2>7. CASE m < d
        BY Zenon, <2>1, <2>5, <2>6, <2>7 DEF m
    <2>8. CASE ~(m < d)
        <3>1. insert(d) = rest \cup {d}
            BY Zenon, <2>5, <2>8
        <3>2. Cardinality(insert(d)) >= MapSize
            BY <1>1, <2>2, <2>4, <2>6, <3>1
        <3>3. \A f \in rest \cup {d} : f =< m
            BY <1>1, <2>1, <2>8 DEF rest
        <3>4. QED
            BY Zenon, <3>1, <3>2, <3>3 DEF m
    <2>9. QED
        BY Zenon, <2>7, <2>8
<1>4. QED
    BY Zenon, <1>2, <1>3

\* What is settled stays so.
LEMMA SettledStays ==
    ASSUME LookupTypeOK, op' = op, data \in BOOLEAN, data' \in BOOLEAN, data => data',
           asked \subseteq asked',
           found' = found \/ \E d \in Node \ found : found' = insert(d),
           NEW c \in Contact, Settled(c)
    PROVE  Settled(c)'
<1>1. CASE c \in asked
    BY Zenon, <1>1 DEF Settled
<1>2. CASE HasItem
    BY Zenon, <1>2 DEF Settled, HasItem
<1>3. CASE Passed(c)
    <2>1. CASE found' = found
        BY Zenon, <1>3, <2>1 DEF Settled, Passed, full
    <2>2. ASSUME NEW d \in Node \ found, found' = insert(d)
          PROVE  Settled(c)'
        <3>1. op \in DOMAIN Ids /\ found \subseteq Node /\ full
            BY Zenon, <1>3 DEF LookupTypeOK, Passed
        <3>2. /\ insert(d) \subseteq Node /\ Cardinality(insert(d)) >= MapSize
              /\ \A f \in insert(d) : f =< Max(found)
            BY Zenon, <3>1, InsertCloser
        <3> DEFINE m == Max(found)
        <3> HIDE DEF m
        <3>3. m < c /\ m \in Nat /\ c \in Nat /\ Node \subseteq Nat
            <4>1. c \in Nat /\ Node \subseteq Nat
                BY Zenon, <3>1, Contacts
            <4>2. m \in found /\ \A f \in found : f < c
                BY Zenon, <1>3, <3>1, FoundFinite DEF Passed, m
            <4>3. QED
                BY Zenon, <3>1, <4>1, <4>2
        <3>4. \A f \in found' : f < c
            <4>1. \A f \in found' : f \in Nat /\ f =< m
                BY Zenon, <2>2, <3>2, <3>3 DEF m
            <4>2. QED
                BY <3>3, <4>1
        <3>5. full'
            BY Zenon, <2>2, <3>2 DEF full
        <3>6. QED
            BY Zenon, <3>4, <3>5 DEF Settled, Passed
    <2>3. QED
        BY Zenon, <2>1, <2>2
<1>4. QED
    BY Zenon, <1>1, <1>2, <1>3 DEF Settled

\* A job of c moves to state s: what every step of a job has in common.
Moves(c, s) ==
    /\ Searching /\ UNCHANGED <<op, used, unused, pc>>
    /\ Running(c) /\ s \in JobState \ {"none", "spawned"}
    /\ job' = [job EXCEPT ![c] = s]
    /\ active \ {c} \subseteq active'
    /\ queue' \subseteq Contact
    /\ data' \in BOOLEAN /\ (data => data')
    /\ asked \subseteq asked' /\ blacklist' \subseteq asked'
    /\ s = "query" => c \in asked'
    /\ \/ found' = found
       \/ s = "ended" /\ c \in Node /\ found' = insert(c)

LEMMA MoveKeeps ==
    ASSUME LookupInv, NEW c \in Contact, NEW s, Moves(c, s),
           job[c] # "spawned" \/ Settled(c) \/ c \in asked'
    PROVE  LookupInv'
<1> USE DEF Moves
<1>0. LookupTypeOK /\ JobsSound /\ StopsSound
    BY Zenon DEF LookupInv
<1>1. op' = op /\ Contact' = Contact /\ Node' = Node
    BY Zenon DEF Contact, Node
<1>2. c \notin found
    BY Zenon, <1>0 DEF JobsSound, Running
<1>3. found' \subseteq Node /\ (\A f \in found' : f \in found \/ (f = c /\ s = "ended"))
    BY Zenon, <1>0, <1>2, InsertCloser DEF LookupTypeOK
<1>4. \A d \in Contact : job'[d] = IF d = c THEN s ELSE job[d]
    BY Zenon, <1>0 DEF LookupTypeOK
<1>5. job' \in [Contact -> JobState]
    BY Zenon, <1>0 DEF LookupTypeOK
<1>6. LookupTypeOK'
    BY Zenon, <1>0, <1>1, <1>3, <1>5 DEF LookupTypeOK
<1>7. \A d \in Contact : Settled(d) => Settled(d)'
    <2>1. found' = found \/ \E d \in Node \ found : found' = insert(d)
        BY Zenon, <1>2
    <2>2. data \in BOOLEAN
        BY Zenon, <1>0 DEF LookupTypeOK
    <2>3. QED
        BY Zenon, <1>0, <1>1, <2>1, <2>2, SettledStays
<1>8. JobsSound'
    <2>1. c \in used
        BY Zenon, <1>0 DEF JobsSound, Running
    <2>2. Settled(c)'
        BY Zenon, <1>0, <1>7, <2>1 DEF JobsSound, Settled
    <2>3. \A d \in used' : job'[d] = "spawned" \/ Settled(d)'
        BY Zenon, <1>0, <1>4, <1>7, <2>2 DEF JobsSound, LookupTypeOK
    <2>4. \A d \in Contact : job'[d] # "none" => d \in used'
        BY Zenon, <1>0, <1>4, <2>1 DEF JobsSound
    <2>5. \A d \in Contact : job'[d] = "spawned" => d \in active'
        BY Zenon, <1>0, <1>4 DEF JobsSound
    <2>6. \A d \in Contact : job'[d] = "query" => d \in asked'
        BY Zenon, <1>0, <1>4 DEF JobsSound
    <2>7. \A d \in found' : job'[d] = "ended"
        <3>1. \A d \in found : d \in Contact /\ d # c /\ job[d] = "ended"
            BY Zenon, <1>0, <1>2 DEF JobsSound, LookupTypeOK, Contact
        <3>2. QED
            BY Zenon, <1>3, <1>4, <3>1
    <2>8. (used \cap unused)' = {}
        BY Zenon, <1>0 DEF JobsSound
    <2>9. QED
        BY Zenon, <1>1, <2>3, <2>4, <2>5, <2>6, <2>7, <2>8 DEF JobsSound
<1>9. StopsSound'
    BY Zenon DEF StopsSound, Searching
<1>10. QED
    BY Zenon, <1>6, <1>8, <1>9 DEF LookupInv

\* A contact whose job ends with an insertion is a new one with an id.
LEMMA InsertIs ==
    ASSUME NEW c \in Contact, Insert(c)
    PROVE  found' = found \/ (c \in Node /\ found' = insert(c))
BY Zenon DEF Insert, HasId, Contact

LEMMA StartJobKeeps ==
    ASSUME LookupInv, NEW c \in Contact, StartJob(c)
    PROVE  LookupInv'
<1>0. LookupTypeOK /\ JobsSound
    BY Zenon DEF LookupInv
<1>1. Running(c) /\ data \in BOOLEAN /\ job[c] = "spawned"
    BY Zenon, <1>0 DEF LookupTypeOK, StartJob, Running
<1>2. /\ op' = op /\ used' = used /\ unused' = unused /\ pc' = pc /\ queue' = queue
      /\ found' = found /\ data' = data /\ blacklist' = blacklist /\ Searching
    BY Zenon DEF StartJob, collecting
<1>3. CASE Skips(c) /\ End(c) /\ UNCHANGED asked
    <2>1. Moves(c, "ended")
        BY Zenon, <1>0, <1>1, <1>2, <1>3 DEF Moves, End, on_finish, JobState, LookupTypeOK, JobsSound
    <2>2. c \notin found
        BY Zenon, <1>0, <1>1 DEF JobsSound
    <2>3. op \in DOMAIN Ids /\ found \subseteq Node
        BY Zenon, <1>0 DEF LookupTypeOK
    <2>4. ASSUME ~HasId(c), full PROVE Settled(c)
        BY Zenon, <2>3, <2>4, Contacts DEF HasId, Settled, Passed
    <2>5. ASSUME HasId(c), ~would_insert(c) PROVE Settled(c)
        <3>1. full /\ ~(c < Max(found))
            BY Zenon, <2>5 DEF would_insert
        <3>2. Max(found) \in found /\ \A f \in found : f =< Max(found)
            BY Zenon, <2>3, <3>1, FoundFinite
        <3>3. c \in Nat /\ found \subseteq Nat
            BY Zenon, <2>3, Contacts
        <3> DEFINE m == Max(found)
        <3> HIDE DEF m
        <3>4. \A f \in found : f < c
            <4>1. ~(c < m) /\ m \in found /\ \A f \in found : f =< m
                BY Zenon, <3>1, <3>2 DEF m
            <4>2. QED
                BY <2>2, <3>3, <4>1
        <3>5. QED
            BY Zenon, <3>1, <3>4 DEF Settled, Passed
    <2>6. ASSUME op = "data_get_immutable", data PROVE Settled(c)
        BY Zenon, <2>6 DEF Settled, HasItem
    <2>7. ASSUME c \in blacklist PROVE Settled(c)
        BY Zenon, <1>0, <2>7 DEF Settled, JobsSound
    <2>8. Settled(c)
        BY Zenon, <1>3, <2>4, <2>5, <2>6, <2>7 DEF Skips
    <2>9. QED
        BY Zenon, <2>1, <2>8, MoveKeeps
<1>4. CASE /\ ~Skips(c)
           /\ job' = [job EXCEPT ![c] = "query"]
           /\ asked' = asked \cup {c}
           /\ UNCHANGED <<active, eofs>>
    <2>1. Moves(c, "query")
        BY Zenon, <1>0, <1>1, <1>2, <1>4 DEF Moves, JobState, LookupTypeOK, JobsSound
    <2>2. QED
        BY Zenon, <1>4, <2>1, MoveKeeps
<1>5. QED
    BY Zenon, <1>3, <1>4 DEF StartJob

\* What the answers to a query do to the job.
LEMMA AnsweredKeeps ==
    ASSUME LookupInv, NEW c \in Contact, Answered(c)
    PROVE  LookupInv'
<1>0. LookupTypeOK /\ JobsSound
    BY Zenon DEF LookupInv
<1>1. /\ Running(c) /\ data \in BOOLEAN /\ job[c] = "query" /\ Searching
      /\ queue \subseteq Contact /\ Node \subseteq Contact /\ blacklist \subseteq asked
    BY Zenon, <1>0 DEF LookupTypeOK, JobsSound, Answered, Running, Contact
<1>2. /\ op' = op /\ used' = used /\ unused' = unused /\ pc' = pc /\ asked' = asked
    BY Zenon DEF Answered, collecting
<1>3. PICK nodes \in SUBSET Node, token \in BOOLEAN, item \in BOOLEAN :
        \/ FindNodeAnswered(c, nodes)
        \/ GetPeersAnswered(c, nodes, token)
        \/ GetAnswered(c, nodes, token, item)
        \/ PutAnswered(c, nodes, token, item)
    BY Zenon DEF Answered
<1>4. Push(nodes) => queue' \subseteq Contact
    BY Zenon, <1>1 DEF Push
<1>5. End(c) => job' = [job EXCEPT ![c] = "ended"] /\ active \ {c} \subseteq active'
    BY Zenon DEF End, on_finish
<1>6. Insert(c) => found' = found \/ (c \in Node /\ found' = insert(c))
    BY Zenon, InsertIs
<1>7. CASE FindNodeAnswered(c, nodes)
    <2>1. Moves(c, "ended")
        BY Zenon, <1>1, <1>2, <1>4, <1>5, <1>6, <1>7 DEF FindNodeAnswered, Moves, JobState
    <2>2. QED
        BY Zenon, <1>1, <2>1, MoveKeeps
<1>8. CASE GetPeersAnswered(c, nodes, token)
    <2>1. Moves(c, "ended") \/ Moves(c, IF token THEN "find_token" ELSE "find")
        BY Zenon, <1>1, <1>2, <1>4, <1>5, <1>6, <1>8 DEF GetPeersAnswered, Moves, JobState
    <2>2. QED
        BY Zenon, <1>1, <2>1, MoveKeeps
<1>9. CASE GetAnswered(c, nodes, token, item)
    <2>1. data' \in BOOLEAN /\ (data => data')
        BY Zenon, <1>1, <1>9 DEF GetAnswered
    <2>2. Moves(c, "ended")
        BY Zenon, <1>1, <1>2, <1>4, <1>5, <1>6, <1>9, <2>1 DEF GetAnswered, Moves, JobState
    <2>3. QED
        BY Zenon, <1>1, <2>2, MoveKeeps
<1>10. CASE PutAnswered(c, nodes, token, item)
    <2>1. \/ Moves(c, "ended") \/ Moves(c, "update")
          \/ Moves(c, IF item THEN "write_older" ELSE "write")
        BY Zenon, <1>1, <1>2, <1>4, <1>5, <1>10 DEF PutAnswered, Moves, JobState
    <2>2. QED
        BY Zenon, <1>1, <2>1, MoveKeeps
<1>11. QED
    BY Zenon, <1>3, <1>7, <1>8, <1>9, <1>10

LEMMA QueryFailedKeeps ==
    ASSUME LookupInv, NEW c \in Contact, QueryFailed(c)
    PROVE  LookupInv'
<1>0. LookupTypeOK /\ JobsSound
    BY Zenon DEF LookupInv
<1>1. /\ Running(c) /\ data \in BOOLEAN /\ job[c] = "query" /\ c \in asked /\ Searching
      /\ queue \subseteq Contact /\ blacklist \subseteq asked
    BY Zenon, <1>0 DEF LookupTypeOK, JobsSound, QueryFailed, Running
<1>2. /\ op' = op /\ used' = used /\ unused' = unused /\ pc' = pc /\ asked' = asked
      /\ queue' = queue /\ found' = found /\ data' = data
      /\ blacklist' \subseteq asked
    BY Zenon, <1>1 DEF QueryFailed, collecting
<1>3. Moves(c, "find") \/ Moves(c, "ended")
    BY <1>1, <1>2 DEF QueryFailed, Moves, JobState, End, on_finish
<1>4. QED
    BY Zenon, <1>1, <1>3, MoveKeeps

LEMMA FindEndsKeeps ==
    ASSUME LookupInv, NEW c \in Contact, FindEnds(c)
    PROVE  LookupInv'
<1>0. LookupTypeOK /\ JobsSound
    BY Zenon DEF LookupInv
<1>1. /\ Running(c) /\ data \in BOOLEAN /\ job[c] # "spawned" /\ Searching
      /\ queue' \subseteq Contact /\ blacklist \subseteq asked
    BY Zenon, <1>0 DEF LookupTypeOK, JobsSound, FindEnds, Running, Contact, Push
<1>2. /\ op' = op /\ used' = used /\ unused' = unused /\ pc' = pc /\ asked' = asked
      /\ data' = data /\ blacklist' = blacklist
    BY Zenon DEF FindEnds, collecting
<1>3. found' = found \/ (c \in Node /\ found' = insert(c))
    BY Zenon, InsertIs DEF FindEnds
<1>4. Moves(c, "ended")
    BY <1>1, <1>2, <1>3 DEF FindEnds, Moves, JobState, End, on_finish
<1>5. QED
    BY Zenon, <1>1, <1>4, MoveKeeps

LEMMA WriteToNodeEndsKeeps ==
    ASSUME LookupInv, NEW c \in Contact, NEW answered \in BOOLEAN,
           WriteToNodeEnds(c, answered)
    PROVE  LookupInv'
<1>0. LookupTypeOK /\ JobsSound
    BY Zenon DEF LookupInv
<1>1. /\ Running(c) /\ data \in BOOLEAN /\ job[c] # "spawned" /\ Searching
      /\ queue \subseteq Contact /\ blacklist \subseteq asked
    BY Zenon, <1>0 DEF LookupTypeOK, JobsSound, WriteToNodeEnds, Running
<1>2. /\ op' = op /\ used' = used /\ unused' = unused /\ pc' = pc /\ asked' = asked
      /\ data' = data /\ blacklist' = blacklist /\ queue' = queue
    BY Zenon DEF WriteToNodeEnds, collecting
<1>3. Insert(c) => found' = found \/ (c \in Node /\ found' = insert(c))
    BY Zenon, InsertIs
<1>4. Moves(c, "ended") \/ Moves(c, "update")
    BY <1>1, <1>2, <1>3 DEF WriteToNodeEnds, Moves, JobState, End, on_finish
<1>5. QED
    BY Zenon, <1>1, <1>4, MoveKeeps

\* A job that was dismissed, or whose search was given up, ends.  In a drained
\* search it had asked.
LEMMA JobCancelledKeeps ==
    ASSUME LookupInv, NEW c \in Contact, JobCancelled(c)
    PROVE  LookupInv'
<1>0. LookupTypeOK /\ JobsSound /\ StopsSound
    BY Zenon DEF LookupInv
<1>1. /\ op' = op /\ used' = used /\ unused' = unused /\ pc' = pc /\ asked' = asked
      /\ data' = data /\ blacklist' = blacklist /\ queue' = queue /\ found' = found
      /\ active' = active /\ job' = [job EXCEPT ![c] = "ended"] /\ Running(c)
      /\ pc \in {"drain", "abort"}
    BY Zenon DEF JobCancelled, collecting
<1>2. /\ Contact' = Contact /\ Node' = Node /\ HasItem' = HasItem
      /\ \A d : Settled(d)' = Settled(d)
    BY Zenon, <1>1 DEF Contact, Node, Settled, Passed, HasItem, full
<1>3. \A d \in Contact : job'[d] = IF d = c THEN "ended" ELSE job[d]
    BY Zenon, <1>0, <1>1 DEF LookupTypeOK
<1>4. LookupTypeOK'
    BY Zenon, <1>0, <1>1, <1>2 DEF LookupTypeOK, JobState
<1>5. c \in used /\ Settled(c)
    BY Zenon, <1>0, <1>1 DEF JobsSound, StopsSound, Settled, Running
<1>6. JobsSound'
    <2>1. \A d \in used : d \in Contact
        BY Zenon, <1>0 DEF LookupTypeOK
    <2>2. \A d \in found : d \in Contact
        BY Zenon, <1>0 DEF LookupTypeOK, Contact
    <2>3. QED
        BY <1>0, <1>1, <1>2, <1>3, <1>5, <2>1, <2>2 DEF JobsSound
<1>7. StopsSound'
    BY Zenon, <1>0, <1>1, <1>2 DEF StopsSound
<1>8. QED
    BY Zenon, <1>4, <1>6, <1>7 DEF LookupInv

LEMMA DismissKeeps ==
    ASSUME LookupInv, NEW c \in Contact, Dismiss(c)
    PROVE  LookupInv'
<1>0. LookupTypeOK /\ JobsSound /\ StopsSound
    BY Zenon DEF LookupInv
<1>1. /\ op' = op /\ used' = used /\ unused' = unused /\ pc' = pc /\ asked' = asked
      /\ data' = data /\ blacklist' = blacklist /\ queue' = queue /\ found' = found
      /\ active' = active \ {c} /\ job' = job /\ job[c] # "spawned" /\ Searching
    BY Zenon DEF Dismiss, collecting, on_finish
<1>2. /\ Contact' = Contact /\ Node' = Node
      /\ \A d : Settled(d)' = Settled(d)
    BY Zenon, <1>1 DEF Contact, Node, Settled, Passed, HasItem, full
<1>3. LookupTypeOK'
    BY Zenon, <1>0, <1>1, <1>2 DEF LookupTypeOK
<1>4. JobsSound'
    BY Zenon, <1>0, <1>1, <1>2 DEF JobsSound
<1>5. StopsSound'
    BY Zenon, <1>1 DEF StopsSound, Searching
<1>6. QED
    BY Zenon, <1>3, <1>4, <1>5 DEF LookupInv

\* The collecting coroutine picks a candidate that no job had, or finds none.
LEMMA PickKeeps ==
    ASSUME LookupInv, Searching, NEW known \in SUBSET Contact, known \cap used = {},
           Pick(known), queue' \subseteq Contact,
           UNCHANGED <<op, found, data, blacklist, asked>>
    PROVE  LookupInv'
<1>0. LookupTypeOK /\ JobsSound /\ StopsSound
    BY Zenon DEF LookupInv
<1>1. /\ Contact' = Contact /\ Node' = Node
      /\ \A d : Settled(d)' = Settled(d)
    BY Zenon DEF Contact, Node, Settled, Passed, HasItem, full
<1>2. CASE known # {}
    <2> DEFINE m == Min(known)
    <2>1. m \in known
        <3>1. known \subseteq Nat
            BY Zenon, <1>0, Contacts DEF LookupTypeOK
        <3>2. QED
            BY Zenon, <1>2, <3>1, MinOfNats
    <2> HIDE DEF m
    <2>2. /\ used' = used \cup {m} /\ unused' = known \ {m} /\ active' = active \cup {m}
          /\ job' = [job EXCEPT ![m] = "spawned"] /\ pc' = "slot"
        BY Zenon, <1>2 DEF Pick, m
    <2>3. m \in Contact /\ m \notin used /\ m \notin found
        <3>1. m \in Contact /\ m \notin used
            BY Zenon, <2>1
        <3>2. job[m] = "none"
            BY Zenon, <1>0, <3>1 DEF JobsSound
        <3>3. QED
            BY Zenon, <1>0, <3>1, <3>2 DEF JobsSound
    <2>4. \A d \in Contact : job'[d] = IF d = m THEN "spawned" ELSE job[d]
        BY Zenon, <1>0, <2>2 DEF LookupTypeOK
    <2>5. LookupTypeOK'
        BY Zenon, <1>0, <1>1, <2>2, <2>3 DEF LookupTypeOK, JobState
    <2>6. JobsSound'
        <3>1. \A d \in found : d \in Contact
            BY Zenon, <1>0 DEF LookupTypeOK, Contact
        <3>2. \A d \in used : d \in Contact
            BY Zenon, <1>0 DEF LookupTypeOK
        <3>3. (used \cap unused)' = {}
            BY Zenon, <2>2
        <3>4. \A d \in used' : job'[d] = "spawned" \/ Settled(d)'
            BY Zenon, <1>0, <1>1, <2>2, <2>3, <2>4, <3>2 DEF JobsSound
        <3>5. \A d \in found' : job'[d] = "ended"
            BY Zenon, <1>0, <2>3, <2>4, <3>1 DEF JobsSound
        <3>6. QED
            BY <1>0, <1>1, <2>2, <2>3, <2>4, <3>3, <3>4, <3>5 DEF JobsSound
    <2>7. StopsSound'
        BY Zenon, <2>2 DEF StopsSound
    <2>8. QED
        BY Zenon, <2>5, <2>6, <2>7 DEF LookupInv
<1>3. CASE known = {}
    <2>1. /\ unused' = {} /\ used' = used /\ job' = job /\ active' = active
          /\ pc' \in {"drain", "pop"}
          /\ pc' = "drain" => active = {} /\ queue' = {}
        BY Zenon, <1>3 DEF Pick
    <2>2. LookupTypeOK'
        BY Zenon, <1>0, <1>1, <2>1 DEF LookupTypeOK
    <2>3. JobsSound'
        BY Zenon, <1>0, <1>1, <2>1 DEF JobsSound
    <2>4. StopsSound'
        BY Zenon, <2>1 DEF StopsSound
    <2>5. QED
        BY Zenon, <2>2, <2>3, <2>4 DEF LookupInv
<1>4. QED
    BY Zenon, <1>2, <1>3

LEMMA GetSlotKeeps ==
    ASSUME LookupInv, GetSlot
    PROVE  LookupInv'
<1>1. unused \in SUBSET Contact /\ unused \cap used = {} /\ queue \subseteq Contact
    BY Zenon DEF LookupInv, LookupTypeOK, JobsSound
<1>2. /\ UNCHANGED <<op, found, data, blacklist, asked>> /\ queue' = queue
      /\ Pick(unused) /\ Searching
    BY Zenon DEF GetSlot, Searching, collecting
<1>3. QED
    BY Zenon, <1>1, <1>2, PickKeeps

LEMMA PopCandidatesKeeps ==
    ASSUME LookupInv, PopCandidates
    PROVE  LookupInv'
<1> DEFINE known == unused \cup (queue \ used)
<1>1. known \in SUBSET Contact /\ known \cap used = {}
    BY Zenon DEF LookupInv, LookupTypeOK, JobsSound
<1>2. /\ UNCHANGED <<op, found, data, blacklist, asked>> /\ queue' \subseteq Contact
      /\ Pick(known) /\ Searching
    BY Zenon DEF PopCandidates, Searching, collecting
<1> HIDE DEF known
<1>3. QED
    BY Zenon, <1>1, <1>2, PickKeeps

\* The steps of the collecting coroutine once the search is over.
LEMMA StopKeeps ==
    ASSUME LookupInv,
           UNCHANGED <<op, used, unused, queue, job, active, found, data, blacklist, asked>>,
           \/ pc' = pc
           \/ pc' = "abort" /\ HasItem
           \/ pc \in {"drain", "abort"} /\ pc' \in {"write", "done"}
           \/ pc = "write" /\ pc' = "done"
    PROVE  LookupInv'
<1>0. LookupTypeOK /\ JobsSound /\ StopsSound
    BY Zenon DEF LookupInv
<1>1. /\ Contact' = Contact /\ Node' = Node /\ HasItem' = HasItem
      /\ \A d : Settled(d)' = Settled(d)
    BY Zenon DEF Contact, Node, Settled, Passed, HasItem, full
<1>2. LookupTypeOK' /\ JobsSound'
    BY Zenon, <1>0, <1>1 DEF LookupTypeOK, JobsSound
<1>3. pc = "drain" => \A c \in Contact : job[c] # "spawned"
    BY Zenon, <1>0 DEF JobsSound, StopsSound
<1>4. StopsSound'
    BY Zenon, <1>0, <1>1, <1>3 DEF StopsSound
<1>5. QED
    BY Zenon, <1>2, <1>4 DEF LookupInv

LEMMA LookupInvInit ==
    ASSUME LookupInit PROVE LookupInv
<1>1. first \subseteq Contact
    BY Zenon DEF LookupInit, Contact
<1>2. LookupTypeOK
    BY Zenon, <1>1 DEF LookupInit, LookupTypeOK, JobState
<1>3. JobsSound
    BY Zenon DEF LookupInit, JobsSound
<1>4. StopsSound
    BY Zenon DEF LookupInit, StopsSound
<1>5. QED
    BY Zenon, <1>2, <1>3, <1>4 DEF LookupInv

LEMMA LookupInvNext ==
    ASSUME LookupInv, [LookupNext]_lookupvars PROVE LookupInv'
<1>1. CASE GetSlot
    BY Zenon, <1>1, GetSlotKeeps
<1>2. CASE PopCandidates
    BY Zenon, <1>2, PopCandidatesKeeps
<1>3. ASSUME NEW c \in Contact, JobStep(c) PROVE LookupInv'
    BY Zenon, <1>3, StartJobKeeps, AnsweredKeeps, QueryFailedKeeps, FindEndsKeeps,
       WriteToNodeEndsKeeps, JobCancelledKeeps DEF JobStep
<1>4. ASSUME NEW c \in Contact, Dismiss(c) PROVE LookupInv'
    BY Zenon, <1>4, DismissKeeps
<1>5. CASE GiveUp
    BY Zenon, <1>5, StopKeeps DEF GiveUp, collecting, HasItem
<1>6. CASE Collected
    BY Zenon, <1>6, StopKeeps DEF Collected
<1>7. ASSUME NEW c \in DOMAIN tries, NEW answered \in BOOLEAN, WriteTried(c, answered)
      PROVE  LookupInv'
    BY Zenon, <1>7, StopKeeps DEF WriteTried
<1>8. CASE Written
    BY Zenon, <1>8, StopKeeps DEF Written
<1>9. CASE UNCHANGED lookupvars
    BY Zenon, <1>9, StopKeeps DEF lookupvars
<1>10. QED
    BY Zenon, <1>1, <1>2, <1>3, <1>4, <1>5, <1>6, <1>7, <1>8, <1>9
       DEF LookupNext, Finished

\* A search of the DHT ends with nothing closer left to ask, for any contacts
\* the table and the replies name, any size of the map and any number of slots,
\* whatever the nodes answer and whichever jobs are dismissed.
THEOREM SearchesAreExhaustive == LookupSpec => []NothingCloserLeft
<1>1. LookupInv => NothingCloserLeft
    <2> SUFFICES ASSUME LookupInv, pc \in {"drain", "write", "done"},
                        NEW c \in used \cup unused \cup queue
                 PROVE  Settled(c)
        BY Zenon DEF NothingCloserLeft, Settled, Passed, HasItem
    <2>1. LookupTypeOK /\ JobsSound /\ StopsSound
        BY Zenon DEF LookupInv
    <2>2. CASE HasItem
        BY Zenon, <2>2 DEF Settled
    <2>3. CASE ~HasItem
        <3>1. unused = {} /\ queue = {} /\ \A d \in Contact : job[d] # "spawned"
            BY Zenon, <2>1, <2>3 DEF StopsSound, JobsSound
        <3>2. c \in used /\ c \in Contact
            BY Zenon, <2>1, <3>1 DEF LookupTypeOK
        <3>3. QED
            BY Zenon, <2>1, <3>1, <3>2 DEF JobsSound
    <2>4. QED
        BY Zenon, <2>2, <2>3
<1>2. QED
    BY <1>1, LookupInvInit, LookupInvNext, PTL DEF LookupSpec

-----------------------------------------------------------------------------
(***************************************************************************)
(* What a MultiPeerReader returns.                                         *)
(***************************************************************************)
Data == UNION {Range(Blocks[j]) : j \in Injected}

Signature == {NoSig} \cup {Sig(j, b) : j \in Injected, b \in Nat}

Part == {HeadPart(j) : j \in Injected}
          \cup {Hdr(last, sig) : last \in BOOLEAN, sig \in Signature}
          \cup {Body(d) : d \in Data} \cup {Trailer, NoMore}

Progress == {"none", "later", "asked", "answered", "block", "no body", "failed"}

FetchType == [block : Nat, peer : SUBSET Peer, job : Progress]

ReaderRecord == [state : {"active", "done", "closed"}, reference : Injected \cup {0},
                 head_sent : BOOLEAN, block : Nat \ {0}, sig : Signature,
                 body : {<<>>} \cup {<<d>> : d \in Data}, trailer : BOOLEAN,
                 last_sent : BOOLEAN]

ReaderType ==
  /\ has \in [Peer -> Injected]
  /\ trying \subseteq Peer /\ good \subseteq Peer
  /\ reader \in ReaderRecord
  /\ reading_at \in {"idle", "reference", "first", "get", "retry"}
  /\ fetch \in FetchType /\ pre_fetch \in FetchType
  /\ out \in Seq(Part)

\* Peer p has block b of the reference list.
Has(p, b) == b <= Len(Blocks[has[p]]) /\ Blocks[has[p]][b] = ReferenceBlocks[b]

\* f is a fetch of block b from a peer that has it.
Fetches(f, b) ==
  f.block = b /\ b <= Len(ReferenceBlocks) /\ \A p \in f.peer : Has(p, b)

\* The block that the reader has announced in a chunk header and not returned.
Held == IF reader.body = <<>> THEN 0 ELSE 1

\* The reader is at the block after those it returned and the one it holds; a
\* fetch in progress is for that block, and the prepared one for the next block
\* that will be asked for.
ReadInv ==
  /\ ReaderType
  /\ DeliversReference
  /\ reader.reference = 0 => out = <<>> /\ reader.state # "done" /\ ~reader.trailer
  /\ reader.state = "active" =>
       /\ BodyParts(Len(out)) + Held + 1 = reader.block
       /\ reader.body # <<>> =>
            /\ reader.block <= Len(ReferenceBlocks) + 1
            /\ reader.body[1] = ReferenceBlocks[reader.block - 1]
       /\ reading_at \in {"get", "retry"} =>
            reader.body = <<>> /\ Fetches(fetch, reader.block)
       /\ pre_fetch = NoFetch
          \/ Fetches(pre_fetch, IF reading_at \in {"get", "retry"} THEN reader.block + 1
                                ELSE reader.block)

\* Injections are numbered from 1 and have blocks.
LEMMA BlocksType ==
    ASSUME NEW j \in Injected
    PROVE  j # 0 /\ Blocks[j] \in Seq(Data) /\ Len(Blocks[j]) \in Nat
<1>1. Blocks[j] \in Seq(Range(Blocks[j])) /\ j # 0
    BY Zenon, PeersAssumption
<1>2. Range(Blocks[j]) \subseteq Data
    BY Zenon DEF Data
<1>3. QED
    BY <1>1, <1>2

\* The blocks of the reference list, none before it was chosen.
LEMMA ReferenceType ==
    ASSUME ReaderType
    PROVE  ReferenceBlocks \in Seq(Data) /\ Len(ReferenceBlocks) \in Nat
    BY BlocksType DEF ReaderType, ReaderRecord, ReferenceBlocks

\* The counts of body parts after another part.
LEMMA PartReturned ==
    ASSUME ReaderType, NEW x \in Part, out' = Append(out, x), NEW n, n = Len(out)
    PROVE  /\ n \in Nat /\ Len(out') = n + 1 /\ out' \in Seq(Part) /\ DOMAIN out' = 1 .. n + 1
           /\ DOMAIN out = 1 .. n
           /\ out'[n + 1] = x /\ \A k \in 1 .. n : out'[k] = out[k]
           /\ \A k \in 0 .. n : BodyParts(k)' = BodyParts(k) /\ BodyParts(k) \in Nat
           /\ BodyParts(n + 1)' = BodyParts(n) + (IF x.part = "body" THEN 1 ELSE 0)
           /\ BodyParts(Len(out))' = BodyParts(n + 1)'
<1>1. /\ n \in Nat /\ Len(out') = n + 1 /\ out' \in Seq(Part) /\ DOMAIN out' = 1 .. n + 1
      /\ DOMAIN out = 1 .. n
      /\ out'[n + 1] = x /\ \A k \in 1 .. n : out'[k] = out[k]
    BY DEF ReaderType
<1>2. ASSUME NEW k \in 0 .. n PROVE BodyParts(k)' = BodyParts(k) /\ BodyParts(k) \in Nat
  <2> DEFINE S == {j \in 1 .. k : out[j].part = "body"}
  <2>1. S = {j \in 1 .. k : out'[j].part = "body"}
      BY <1>1
  <2>2. S \subseteq 1 .. k /\ k \in Nat
      BY <1>1
  <2> HIDE DEF S
  <2>3. IsFiniteSet(1 .. k)
      BY <2>2, FS_Interval
  <2>4. Cardinality(S) \in Nat
      BY Zenon, <2>2, <2>3, FS_Subset, FS_CardinalityType
  <2>5. QED
      BY Zenon, <2>1, <2>4 DEF BodyParts, S
<1>3. BodyParts(n + 1)' = BodyParts(n) + (IF x.part = "body" THEN 1 ELSE 0)
  <2> DEFINE S == {j \in 1 .. n : out[j].part = "body"}
             T == {j \in 1 .. n + 1 : out'[j].part = "body"}
  <2>1. S \subseteq 1 .. n /\ n + 1 \notin S
      BY <1>1
  <2>2. T = IF x.part = "body" THEN S \cup {n + 1} ELSE S
      BY <1>1
  <2>3. BodyParts(n + 1)' = Cardinality(T) /\ BodyParts(n) = Cardinality(S)
      BY Zenon DEF BodyParts
  <2> HIDE DEF S, T
  <2>4. IsFiniteSet(1 .. n)
      BY <1>1, FS_Interval
  <2>5. IsFiniteSet(S)
      BY Zenon, <2>1, <2>4, FS_Subset
  <2>6. Cardinality(S) \in Nat /\ Cardinality(S \cup {n + 1}) = Cardinality(S) + 1
      BY Zenon, <2>1, <2>5, FS_CardinalityType, FS_AddElement
  <2>7. QED
      BY <2>2, <2>3, <2>6
<1>4. BodyParts(Len(out))' = BodyParts(n + 1)'
    BY Zenon, <1>1 DEF BodyParts
<1>5. QED
    BY Zenon, <1>1, <1>2, <1>3, <1>4

\* A part that is not a body leaves what was returned before.
LEMMA OtherReturned ==
    ASSUME ReaderType, DeliversReference, NEW x \in Part, x.part # "body",
           out' = Append(out, x), ReferenceBlocks' = ReferenceBlocks \/ out = <<>>
    PROVE  DeliversReference' /\ BodyParts(Len(out))' = BodyParts(Len(out))
<1>1. PICK n : n = Len(out)
    BY Zenon
<1>2. /\ n \in Nat /\ DOMAIN out' = 1 .. n + 1 /\ DOMAIN out = 1 .. n
      /\ out'[n + 1] = x /\ \A k \in 1 .. n : out'[k] = out[k]
      /\ \A k \in 0 .. n : BodyParts(k)' = BodyParts(k) /\ BodyParts(k) \in Nat
      /\ BodyParts(n + 1)' = BodyParts(n)
      /\ BodyParts(Len(out))' = BodyParts(n + 1)'
    BY <1>1, PartReturned
<1>3. ASSUME NEW k \in DOMAIN out', out'[k].part = "body"
      PROVE  /\ BodyParts(k)' <= Len(ReferenceBlocks') 
             /\ out'[k].data = ReferenceBlocks'[BodyParts(k)']
  <2>1. k \in 1 .. n /\ out # <<>>
      BY <1>1, <1>2, <1>3
  <2>2. out[k].part = "body" /\ BodyParts(k)' = BodyParts(k) /\ k \in DOMAIN out
      BY <1>2, <1>3, <2>1
  <2>3. QED
      BY Zenon, <1>2, <2>1, <2>2 DEF DeliversReference
<1>4. QED
    BY Zenon, <1>1, <1>2, <1>3 DEF DeliversReference

\* The block that the reader holds is the next one.
LEMMA BodyReturned ==
    ASSUME ReaderType, DeliversReference, NEW d \in Data, out' = Append(out, Body(d)),
           ReferenceBlocks' = ReferenceBlocks,
           BodyParts(Len(out)) + 1 <= Len(ReferenceBlocks),
           d = ReferenceBlocks[BodyParts(Len(out)) + 1]
    PROVE  DeliversReference' /\ BodyParts(Len(out))' = BodyParts(Len(out)) + 1
<1>1. PICK n : n = Len(out)
    BY Zenon
<1>2. Body(d) \in Part /\ Body(d).part = "body" /\ Body(d).data = d
    BY DEF Part, Body
<1>3. /\ n \in Nat /\ DOMAIN out' = 1 .. n + 1 /\ DOMAIN out = 1 .. n
      /\ out'[n + 1] = Body(d) /\ \A k \in 1 .. n : out'[k] = out[k]
      /\ \A k \in 0 .. n : BodyParts(k)' = BodyParts(k) /\ BodyParts(k) \in Nat
      /\ BodyParts(n + 1)' = BodyParts(n) + 1
      /\ BodyParts(Len(out))' = BodyParts(n + 1)'
    BY Zenon, <1>1, <1>2, PartReturned
<1>4. ASSUME NEW k \in DOMAIN out', out'[k].part = "body"
      PROVE  /\ BodyParts(k)' <= Len(ReferenceBlocks') 
             /\ out'[k].data = ReferenceBlocks'[BodyParts(k)']
  <2>1. CASE k \in 1 .. n
    <3>1. out[k].part = "body" /\ BodyParts(k)' = BodyParts(k) /\ k \in DOMAIN out
        BY <1>3, <1>4, <2>1
    <3>2. QED
        BY Zenon, <1>3, <2>1, <3>1 DEF DeliversReference
  <2>2. CASE k = n + 1
      BY Zenon, <1>1, <1>2, <1>3, <2>2
  <2>3. QED
      BY <1>3, <2>1, <2>2
<1>5. QED
    BY Zenon, <1>1, <1>3, <1>4 DEF DeliversReference

-----------------------------------------------------------------------------
\* It holds when the reader was constructed.
LEMMA ReadInit == ReaderInit => ReadInv
<1> SUFFICES ASSUME ReaderInit PROVE ReadInv
    BY Zenon
<1>1. NoSig \in Signature /\ NoFetch \in FetchType
    BY DEF Signature, NoFetch, FetchType, Progress
<1>2. ReaderType
    BY <1>1 DEF ReaderInit, ReaderType, ReaderRecord
<1>3. BodyParts(Len(out)) = 0
  <2>1. {j \in 1 .. Len(out) : out[j].part = "body"} = {}
      BY DEF ReaderInit
  <2>2. QED
      BY Zenon, <2>1, FS_EmptySet DEF BodyParts
<1>4. DeliversReference
    BY DEF ReaderInit, DeliversReference
<1>5. QED
    BY <1>2, <1>3, <1>4 DEF ReaderInit, ReadInv, Held

\* Steps of the peers, of the lookup and of the jobs that download hash lists.
LEMMA PeersKeep ==
    ASSUME ReadInv, UNCHANGED <<has, reader, reading_at, fetch, pre_fetch, out>>,
           trying' \subseteq Peer, good' \subseteq Peer
    PROVE  ReadInv'
<1>1. ReaderType'
    BY Zenon DEF ReadInv, ReaderType
<1>2. UNCHANGED <<ReferenceBlocks, BodyParts(Len(out)), Held>>
    BY Zenon DEF ReferenceBlocks, BodyParts, Held
<1>3. DeliversReference'
    BY Zenon, <1>2 DEF ReadInv, DeliversReference, BodyParts
<1>4. QED
    BY Zenon, <1>1, <1>2, <1>3 DEF ReadInv, Fetches, Has

\* The reader fails or is closed.
LEMMA ClosedKeeps ==
    ASSUME ReadInv, ReadFails
    PROVE  ReadInv'
<1>1. /\ has' = has /\ out' = out /\ reader'.reference = reader.reference
      /\ reader'.state = "closed" /\ reader'.trailer = reader.trailer
    BY Zenon DEF ReadInv, ReaderType, ReaderRecord, ReadFails
<1>2. ReaderType'
    BY Zenon DEF ReadInv, ReaderType, ReaderRecord, ReadFails
<1>3. DeliversReference'
    BY Zenon, <1>1 DEF ReadInv, DeliversReference, BodyParts, ReferenceBlocks
<1>4. QED
    BY Zenon, <1>1, <1>2, <1>3 DEF ReadInv

\* What new_fetch_job gives.
LEMMA NewFetch ==
    ASSUME ReaderType, NEW G \in SUBSET Peer, NEW b \in Nat, NEW last,
           NEW f \in new_fetch_job(G, b, last)
    PROVE  /\ f \in FetchType
           /\ f = NoFetch \/ Fetches(f, b)
           /\ b <= Len(ReferenceBlocks) => Fetches(f, b)
<1>1. CASE b > Len(ReferenceBlocks)
  <2>1. f = NoFetch /\ NoFetch \in FetchType
      BY Zenon, <1>1 DEF new_fetch_job, NoFetch, FetchType, Progress
  <2>2. ~(b <= Len(ReferenceBlocks))
      BY <1>1, ReferenceType
  <2>3. QED
      BY Zenon, <2>1, <2>2
<1>2. CASE ~(b > Len(ReferenceBlocks))
  <2>1. PICK p \in choose_peer_for_block(G, b) :
          f = Fetch(b, p, IF last \in {{}, {p}} THEN "later" ELSE "asked")
      BY Zenon, <1>2 DEF new_fetch_job
  <2>2. p \in Peer /\ Has(p, b)
      BY Zenon DEF choose_peer_for_block, Has
  <2>3. f.block = b /\ f.peer = {p} /\ f \in FetchType
      BY Zenon, <2>1, <2>2 DEF Fetch, FetchType, Progress
  <2>4. QED
      BY <1>2, <2>2, <2>3, ReferenceType DEF Fetches
<1>3. QED
    BY Zenon, <1>1, <1>2

\* A fetch that moves on fetches the same block from the same peer.
LEMMA MovedFetch ==
    ASSUME NEW f \in FetchType, NEW to \in Progress, NEW g, g = [f EXCEPT !.job = to]
    PROVE  g \in FetchType /\ \A b : Fetches(f, b) => Fetches(g, b)
<1>1. g \in FetchType /\ g.block = f.block /\ g.peer = f.peer
    BY Zenon DEF FetchType
<1>2. QED
    BY Zenon, <1>1 DEF Fetches

LEMMA AskedFetch ==
    ASSUME NEW f \in FetchType
    PROVE  Ask(f) \in FetchType /\ \A b : Fetches(f, b) => Fetches(Ask(f), b)
<1>1. CASE f.job = "later"
    BY Zenon, <1>1, MovedFetch DEF Ask, Progress
<1>2. CASE f.job # "later"
    BY Zenon, <1>2 DEF Ask
<1>3. QED
    BY Zenon, <1>1, <1>2

\* fetch_block goes on with a fetch of the block the reader is at.
LEMMA FetchKeeps ==
    ASSUME ReadInv, UNCHANGED <<has, reader, out>>, trying' \subseteq Peer, good' \subseteq Peer,
           reading_at' \in {"idle", "reference", "first", "get", "retry"},
           fetch' \in FetchType, pre_fetch' \in FetchType,
           reader.state = "active" =>
             /\ reading_at' \in {"get", "retry"} =>
                  reader.body = <<>> /\ Fetches(fetch', reader.block)
             /\ pre_fetch' = NoFetch
                \/ Fetches(pre_fetch', IF reading_at' \in {"get", "retry"} THEN reader.block + 1
                                       ELSE reader.block)
    PROVE  ReadInv'
<1>1. ReaderType'
    BY Zenon DEF ReadInv, ReaderType
<1>2. UNCHANGED <<ReferenceBlocks, BodyParts(Len(out)), Held>>
    BY Zenon DEF ReferenceBlocks, BodyParts, Held
<1>3. DeliversReference'
    BY Zenon, <1>2 DEF ReadInv, DeliversReference, BodyParts
<1>4. QED
    BY Zenon, <1>1, <1>2, <1>3 DEF ReadInv, Fetches, Has

\* A part that is not a body is returned, and the reader stays at its block.
LEMMA PartKeeps ==
    ASSUME ReadInv, UNCHANGED <<has, trying, good, fetch, pre_fetch>>,
           reader.reference # 0,
           NEW x \in Part, x.part # "body", Return(x, reader'),
           reader' \in ReaderRecord,
           reader'.state = "active" => reader.state = "active" /\ reading_at = "idle",
           UNCHANGED <<reader.reference, reader.block, reader.body>>
    PROVE  ReadInv'
<1>1. out' = Append(out, x) /\ reading_at' = "idle"
    BY Zenon DEF Return
<1>2. UNCHANGED <<ReferenceBlocks, Held>>
    BY Zenon DEF ReferenceBlocks, Held
<1>3. DeliversReference' /\ BodyParts(Len(out))' = BodyParts(Len(out))
    BY Zenon, <1>1, <1>2, OtherReturned DEF ReadInv
<1>4. ReaderType'
    BY <1>1 DEF ReadInv, ReaderType
<1>5. QED
    BY Zenon, <1>1, <1>2, <1>3, <1>4 DEF ReadInv, Fetches, Has

\* choose_reference_hash_list: nothing was returned and fetched before.
LEMMA ReadHeadKeeps ==
    ASSUME ReadInv, ReadHead
    PROVE  ReadInv'
<1>1. reader.state = "active" /\ reader.reference = 0 /\ reading_at \in {"idle", "reference"}
    BY Zenon DEF ReadHead, At
<1>2. CASE Wait("reference")
    BY Zenon, <1>1, <1>2, FetchKeeps DEF ReadInv, ReaderType, Wait, peers
<1>3. CASE ReadFails
    BY Zenon, <1>3, ClosedKeeps
<1>4. ASSUME NEW p \in good, UNCHANGED <<has, peers, good, fetch, pre_fetch>>,
             Return(HeadPart(has[p]), [reader EXCEPT !.reference = has[p], !.head_sent = TRUE])
      PROVE  ReadInv'
  <2>1. has[p] \in Injected /\ has[p] # 0
      BY Zenon, BlocksType DEF ReadInv, ReaderType
  <2>2. HeadPart(has[p]) \in Part /\ HeadPart(has[p]).part = "head"
      BY <2>1 DEF HeadPart, Part
  <2>3. out' = Append(out, HeadPart(has[p])) /\ out = <<>> /\ reading_at' = "idle"
      BY Zenon, <1>1, <1>4 DEF Return, ReadInv
  <2>4. DeliversReference' /\ BodyParts(Len(out))' = BodyParts(Len(out))
      BY Zenon, <2>2, <2>3, OtherReturned DEF ReadInv
  <2>5. /\ reader'.reference = has[p] /\ reader'.block = reader.block
        /\ reader'.body = reader.body /\ reader'.state = reader.state
      BY Zenon, <1>4 DEF ReadInv, ReaderType, ReaderRecord, Return
  <2>6. ReaderType'
    <3>1. reader' \in ReaderRecord
        BY Zenon, <1>4, <2>1 DEF ReadInv, ReaderType, ReaderRecord, Return
    <3>2. QED
        BY <1>4, <2>2, <2>3, <3>1 DEF ReadInv, ReaderType, peers
  <2>7. ReferenceBlocks = <<>>
      BY Zenon, <1>1 DEF ReferenceBlocks
  <2>8. reader.body = <<>> /\ pre_fetch' = NoFetch
    <3>1. \A b \in Nat \ {0} : ~(b <= Len(ReferenceBlocks))
        BY <2>7
    <3>2. reader.block \in Nat \ {0}
        BY Zenon DEF ReadInv, ReaderType, ReaderRecord
    <3>3. pre_fetch = NoFetch
        BY Zenon, <1>1, <3>1, <3>2 DEF ReadInv, Fetches
    <3>4. BodyParts(Len(out)) = 0
      <4>1. {j \in 1 .. Len(out) : out[j].part = "body"} = {}
          BY <2>3
      <4>2. QED
          BY Zenon, <4>1, FS_EmptySet DEF BodyParts
    <3>5. QED
        BY <1>1, <1>4, <2>7, <3>2, <3>3, <3>4 DEF ReadInv, Held
  <2>9. QED
      BY Zenon, <1>1, <2>1, <2>3, <2>4, <2>5, <2>6, <2>8 DEF ReadInv, Held
<1>5. QED
    BY Zenon, <1>2, <1>3, <1>4 DEF ReadHead

\* The body of the chunk whose header was returned.
LEMMA ReadBodyKeeps ==
    ASSUME ReadInv, ReadBody
    PROVE  ReadInv'
<1>1. reader.state = "active" /\ reader.body # <<>> /\ reading_at = "idle"
    BY Zenon DEF ReadBody, At
<1>2. PICK d \in Data : reader.body = <<d>>
    BY Zenon, <1>1 DEF ReadInv, ReaderType, ReaderRecord
<1>3. Head(reader.body) = d /\ reader.body[1] = d
    BY <1>2
<1>4. out' = Append(out, Body(d)) /\ reader' = [reader EXCEPT !.body = <<>>] /\ reading_at' = "idle"
    BY Zenon, <1>3 DEF ReadBody, Return
<1>5. /\ reader'.reference = reader.reference /\ reader'.block = reader.block
      /\ reader'.body = <<>> /\ reader'.state = reader.state
    BY Zenon, <1>4 DEF ReadInv, ReaderType, ReaderRecord
<1>6. UNCHANGED ReferenceBlocks
    BY Zenon, <1>5 DEF ReferenceBlocks
<1>7. /\ BodyParts(Len(out)) \in Nat
      /\ BodyParts(Len(out)) + 2 = reader.block /\ reader.block \in Nat
      /\ reader.block <= Len(ReferenceBlocks) + 1
      /\ d = ReferenceBlocks[reader.block - 1] /\ Len(ReferenceBlocks) \in Nat
  <2>1. BodyParts(Len(out)) \in Nat
    <3>1. PICK n : n = Len(out)
        BY Zenon
    <3>2. Body(d) \in Part
        BY DEF Part
    <3>3. n \in Nat /\ \A k \in 0 .. n : BodyParts(k) \in Nat
        BY Zenon, <1>4, <3>1, <3>2, PartReturned DEF ReadInv
    <3>4. QED
        BY <3>1, <3>3
  <2>2. QED
      BY <1>1, <1>3, <2>1, ReferenceType DEF ReadInv, ReaderType, ReaderRecord, Held
<1>8. DeliversReference' /\ BodyParts(Len(out))' = BodyParts(Len(out)) + 1
  <2>1. BodyParts(Len(out)) + 1 = reader.block - 1
      BY <1>7
  <2>2. QED
      BY <1>4, <1>6, <1>7, <2>1, BodyReturned DEF ReadInv
<1>9. ReaderType'
  <2>1. Body(d) \in Part
      BY DEF Part
  <2>2. reader' \in ReaderRecord
      BY Zenon, <1>4 DEF ReadInv, ReaderType, ReaderRecord
  <2>3. QED
      BY <1>4, <2>1, <2>2 DEF ReadInv, ReaderType, ReadBody, peers
<1>10. UNCHANGED <<has, fetch, pre_fetch>>
    BY Zenon DEF ReadBody
<1>11. reader.reference # 0
    BY <1>7 DEF ReferenceBlocks
<1>12. QED
    BY <1>1, <1>5, <1>6, <1>7, <1>8, <1>9, <1>10, <1>11, <1>4 DEF ReadInv, Held, Fetches, Has

\* The parts that carry no data.
LEMMA PartTypes ==
    ASSUME NEW sig \in Signature
    PROVE  /\ \A last \in BOOLEAN : Hdr(last, sig) \in Part /\ Hdr(last, sig).part = "hdr"
           /\ Trailer \in Part /\ Trailer.part = "trailer"
           /\ NoMore \in Part /\ NoMore.part = "end"
           /\ NoSig \in Signature
<1>1. ASSUME NEW last \in BOOLEAN PROVE Hdr(last, sig) \in Part
    BY DEF Part
<1>2. \A last \in BOOLEAN : Hdr(last, sig).part = "hdr"
    BY Zenon DEF Hdr
<1>3. Trailer \in Part /\ NoMore \in Part /\ NoSig \in Signature
    BY DEF Part, Signature
<1>4. Trailer.part = "trailer" /\ NoMore.part = "end"
    BY Zenon DEF Trailer, NoMore
<1>5. QED
    BY Zenon, <1>1, <1>2, <1>3, <1>4

\* The last chunk header, the trailer and the end.
LEMMA LastPartsKeep ==
    ASSUME ReadInv, ReadLastHdr \/ ReadTrailer \/ ReadEnd
    PROVE  ReadInv'
<1>1. reader.sig \in Signature
    BY Zenon DEF ReadInv, ReaderType, ReaderRecord
<1>2. CASE ReadLastHdr
  <2>1. LastHdr \in Part /\ LastHdr.part # "body"
      BY Zenon, <1>1, PartTypes DEF LastHdr
  <2>2. reader' = [reader EXCEPT !.last_sent = TRUE, !.sig = NoSig,
                                 !.state = IF reader.trailer THEN @ ELSE "done"]
      BY Zenon, <1>2 DEF ReadLastHdr, Return
  <2>3. /\ reader'.reference = reader.reference /\ reader'.block = reader.block
        /\ reader'.body = reader.body /\ reader' \in ReaderRecord
      BY Zenon, <1>1, <2>2, PartTypes DEF ReadInv, ReaderType, ReaderRecord
  <2>4. /\ reader.reference # 0 /\ reader.state = "active" /\ reading_at = "idle"
        /\ UNCHANGED <<has, trying, good, fetch, pre_fetch>> /\ Return(LastHdr, reader')
      BY Zenon, <1>2, <2>2 DEF ReadLastHdr, At, peers
  <2>5. QED
      BY Zenon, <2>1, <2>3, <2>4, PartKeeps
<1>3. CASE ReadTrailer
  <2>1. reader' = [reader EXCEPT !.trailer = FALSE, !.state = "done"]
      BY Zenon, <1>3 DEF ReadTrailer, Return
  <2>2. /\ reader'.reference = reader.reference /\ reader'.block = reader.block
        /\ reader'.body = reader.body /\ reader' \in ReaderRecord /\ reader'.state = "done"
      BY Zenon, <2>1 DEF ReadInv, ReaderType, ReaderRecord
  <2>3. UNCHANGED <<has, trying, good, fetch, pre_fetch>> /\ Return(Trailer, reader')
      BY Zenon, <1>3, <2>1 DEF ReadTrailer, peers
  <2>4. reader.reference # 0
      BY Zenon, <1>3 DEF ReadTrailer, ReadInv
  <2>5. QED
      BY Zenon, <1>1, <2>2, <2>3, <2>4, PartTypes, PartKeeps
<1>4. CASE ReadEnd
  <2>1. /\ reader' = reader /\ reader.state = "done" /\ reader.reference # 0
        /\ UNCHANGED <<has, trying, good, fetch, pre_fetch>> /\ Return(NoMore, reader')
      BY Zenon, <1>4 DEF ReadEnd, Return, peers, ReadInv
  <2>2. reader' \in ReaderRecord
      BY Zenon, <2>1 DEF ReadInv, ReaderType
  <2>3. QED
      BY Zenon, <1>1, <2>1, <2>2, PartTypes, PartKeeps
<1>5. QED
    BY Zenon, <1>2, <1>3, <1>4

\* A block arrives: its chunk header is returned and the reader holds it.
LEMMA GetBlockKeeps ==
    ASSUME ReadInv, GetBlock
    PROVE  ReadInv'
<1>1. reader.state = "active" /\ reading_at = "get" /\ fetch' = NoFetch
      /\ UNCHANGED <<has, trying, good, pre_fetch>>
    BY Zenon DEF GetBlock, Got, peers
<1>2. reader.body = <<>> /\ Fetches(fetch, reader.block)
    BY Zenon, <1>1 DEF ReadInv
<1>3. PICK p \in fetch.peer :
        Return(Hdr(Blocks[has[p]][fetch.block] = Empty, reader.sig),
               [reader EXCEPT !.block = @ + 1, !.body = <<Blocks[has[p]][fetch.block]>>,
                              !.sig = Sig(has[p], fetch.block),
                              !.trailer = (fetch.block = Len(ReferenceBlocks))])
    BY Zenon DEF GetBlock
<1>4. /\ p \in Peer /\ has[p] \in Injected /\ fetch.block = reader.block
      /\ reader.block \in Nat \ {0} /\ reader.block <= Len(ReferenceBlocks)
      /\ Blocks[has[p]][fetch.block] = ReferenceBlocks[reader.block]
      /\ Blocks[has[p]][fetch.block] \in Data
      /\ reader.reference # 0
  <2>1. p \in Peer /\ has[p] \in Injected /\ reader.block \in Nat \ {0}
      BY Zenon, <1>3 DEF ReadInv, ReaderType, ReaderRecord, FetchType
  <2>2. /\ fetch.block = reader.block /\ reader.block <= Len(ReferenceBlocks)
        /\ Blocks[has[p]][fetch.block] = ReferenceBlocks[reader.block]
      BY <1>2, <1>3 DEF Fetches, Has
  <2>3. ReferenceBlocks \in Seq(Data) /\ Len(ReferenceBlocks) \in Nat
      BY Zenon, ReferenceType DEF ReadInv
  <2>4. ReferenceBlocks[reader.block] \in Data
      BY <2>1, <2>2, <2>3
  <2>5. reader.reference # 0
      BY <2>1, <2>2 DEF ReferenceBlocks
  <2>6. QED
      BY Zenon, <2>1, <2>2, <2>4, <2>5
<1> DEFINE d == Blocks[has[p]][fetch.block]
           x == Hdr(d = Empty, reader.sig)
<1>5. /\ out' = Append(out, x) /\ reading_at' = "idle"
      /\ reader' = [reader EXCEPT !.block = @ + 1, !.body = <<d>>,
                                  !.sig = Sig(has[p], fetch.block),
                                  !.trailer = (fetch.block = Len(ReferenceBlocks))]
    BY Zenon, <1>3 DEF Return
<1>6. x \in Part /\ x.part # "body"
  <2>1. reader.sig \in Signature
      BY Zenon DEF ReadInv, ReaderType, ReaderRecord
  <2>2. QED
      BY Zenon, <2>1, PartTypes
<1>7. Sig(has[p], fetch.block) \in Signature
    BY <1>4 DEF Signature
<1> HIDE DEF d, x
<1>8. d \in Data /\ d = ReferenceBlocks[reader.block]
    BY Zenon, <1>4 DEF d
<1>9. /\ reader'.reference = reader.reference /\ reader'.block = reader.block + 1
      /\ reader'.body = <<d>> /\ reader' \in ReaderRecord
  <2> DEFINE last == (fetch.block = Len(ReferenceBlocks))
             sig == Sig(has[p], fetch.block)
             m == reader.block + 1
             c == <<d>>
             r == [reader EXCEPT !.block = m, !.body = c]
  <2>1. reader' = [r EXCEPT !.sig = sig, !.trailer = last]
      BY Zenon, <1>5
  <2>2. m \in Nat \ {0} /\ c \in {<<>>} \cup {<<e>> : e \in Data}
      BY <1>4, <1>8
  <2> HIDE DEF m, c
  <2>3. last \in BOOLEAN /\ sig \in Signature
      BY Zenon, <1>7
  <2>4. r.reference = reader.reference /\ r.block = m /\ r.body = c /\ r \in ReaderRecord
      BY Zenon, <2>2 DEF ReadInv, ReaderType, ReaderRecord
  <2> HIDE DEF r, last, sig
  <2>5. /\ reader'.reference = r.reference /\ reader'.block = r.block
        /\ reader'.body = r.body /\ reader' \in ReaderRecord
      BY Zenon, <2>1, <2>3, <2>4 DEF ReaderRecord
  <2>6. QED
      BY Zenon, <2>4, <2>5 DEF m, c
<1>10. UNCHANGED ReferenceBlocks
    BY Zenon, <1>9 DEF ReferenceBlocks
<1>11. DeliversReference' /\ BodyParts(Len(out))' = BodyParts(Len(out))
    BY Zenon, <1>5, <1>6, <1>10, OtherReturned DEF ReadInv
<1>12. ReaderType'
  <2>1. NoFetch \in FetchType
      BY Zenon DEF NoFetch, FetchType, Progress
  <2>2. QED
      BY <1>1, <1>5, <1>6, <1>9, <2>1 DEF ReadInv, ReaderType
<1>13. BodyParts(Len(out))' + Held' + 1 = reader'.block
  <2>1. BodyParts(Len(out)) + 0 + 1 = reader.block
      BY Zenon, <1>1, <1>2 DEF ReadInv, Held
  <2>2. Held' = 1
      BY <1>9 DEF Held
  <2>3. BodyParts(Len(out)) \in Nat
    <3>1. PICK n : n = Len(out)
        BY Zenon
    <3>2. n \in Nat /\ \A k \in 0 .. n : BodyParts(k) \in Nat
        BY Zenon, <1>5, <1>6, <3>1, PartReturned DEF ReadInv
    <3>3. QED
        BY <3>1, <3>2
  <2>4. QED
      BY <1>9, <1>11, <2>1, <2>2, <2>3
<1>14. /\ reader'.block <= Len(ReferenceBlocks') + 1
       /\ reader'.body[1] = ReferenceBlocks'[reader'.block - 1]
  <2>1. reader'.block - 1 = reader.block /\ reader'.body[1] = d
      BY <1>4, <1>9
  <2>2. Len(ReferenceBlocks) \in Nat
      BY Zenon, ReferenceType DEF ReadInv
  <2>3. QED
      BY <1>4, <1>8, <1>9, <1>10, <2>1, <2>2
<1>15. pre_fetch' = NoFetch \/ Fetches(pre_fetch, reader.block)'
    BY Zenon, <1>1, <1>9, <1>10 DEF ReadInv, Fetches, Has
<1>16. QED
    BY Zenon, <1>4, <1>5, <1>9, <1>11, <1>12, <1>13, <1>14, <1>15 DEF ReadInv

\* A peer answers without a body: the reader is done.
LEMMA GetNothingKeeps ==
    ASSUME ReadInv, GetNothing
    PROVE  ReadInv'
<1>1. /\ reader.state = "active" /\ reading_at = "get" /\ fetch' = NoFetch
      /\ UNCHANGED <<has, trying, good, pre_fetch>>
      /\ out' = Append(out, LastHdr) /\ reading_at' = "idle"
      /\ reader' = [reader EXCEPT !.block = @ + 1, !.last_sent = TRUE, !.sig = NoSig,
                                  !.state = "done"]
    BY Zenon DEF GetNothing, Got, peers, Return
<1>2. reader.sig \in Signature
    BY Zenon DEF ReadInv, ReaderType, ReaderRecord
<1>3. LastHdr \in Part /\ LastHdr.part # "body" /\ NoSig \in Signature
    BY Zenon, <1>2, PartTypes DEF LastHdr
<1>4. reader'.reference = reader.reference /\ reader'.state = "done" /\ reader' \in ReaderRecord
  <2> DEFINE m == reader.block + 1
             r == [reader EXCEPT !.block = m, !.last_sent = TRUE]
  <2>1. reader' = [r EXCEPT !.sig = NoSig, !.state = "done"]
      BY Zenon, <1>1
  <2>2. m \in Nat \ {0}
      BY DEF ReadInv, ReaderType, ReaderRecord
  <2> HIDE DEF m
  <2>3. r.reference = reader.reference /\ r \in ReaderRecord
      BY Zenon, <2>2 DEF ReadInv, ReaderType, ReaderRecord
  <2> HIDE DEF r
  <2>4. QED
      BY Zenon, <1>3, <2>1, <2>3 DEF ReaderRecord
<1>5. UNCHANGED ReferenceBlocks
    BY Zenon, <1>4 DEF ReferenceBlocks
<1>6. DeliversReference'
    BY Zenon, <1>1, <1>3, <1>5, OtherReturned DEF ReadInv
<1>7. ReaderType'
  <2>1. NoFetch \in FetchType
      BY Zenon DEF NoFetch, FetchType, Progress
  <2>2. QED
      BY <1>1, <1>3, <1>4, <2>1 DEF ReadInv, ReaderType
<1>8. reader.reference # 0
  <2>1. Fetches(fetch, reader.block) /\ reader.block \in Nat \ {0}
      BY Zenon, <1>1 DEF ReadInv, ReaderType, ReaderRecord
  <2>2. QED
      BY <2>1 DEF Fetches, ReferenceBlocks
<1>9. QED
    BY Zenon, <1>4, <1>6, <1>7, <1>8 DEF ReadInv

\* fetch_block up to its first get_block.
LEMMA ReadHdrKeeps ==
    ASSUME ReadInv, ReadHdr
    PROVE  ReadInv'
<1>1. reader.state = "active" /\ reading_at \in {"idle", "first"} /\ reader.body = <<>>
      /\ reader.block <= Len(ReferenceBlocks) /\ reader.block \in Nat
    BY Zenon DEF ReadHdr, At, NeedsBlock, ReadInv, ReaderType, ReaderRecord
<1>2. CASE Wait("first")
    BY Zenon, <1>1, <1>2, FetchKeeps DEF ReadInv, ReaderType, Wait, peers
<1>3. CASE ReadFails
    BY Zenon, <1>3, ClosedKeeps
<1>4. ASSUME NEW f \in IF pre_fetch # NoFetch THEN {pre_fetch}
                       ELSE new_fetch_job(good, reader.block, {}),
             NEW n \in new_fetch_job(good, reader.block + 1, f.peer),
             fetch' = Ask(f), pre_fetch' = n, reading_at' = "get",
             UNCHANGED <<has, peers, good, reader, out>>
      PROVE  ReadInv'
  <2>1. f \in FetchType /\ Fetches(f, reader.block)
    <3>1. CASE pre_fetch # NoFetch
        BY Zenon, <1>1, <1>4, <3>1 DEF ReadInv, ReaderType
    <3>2. CASE pre_fetch = NoFetch
        BY Zenon, <1>1, <1>4, <3>2, NewFetch DEF ReadInv, ReaderType
    <3>3. QED
        BY Zenon, <3>1, <3>2
  <2>2. n \in FetchType /\ (n = NoFetch \/ Fetches(n, reader.block + 1))
      BY <1>1, <1>4, NewFetch DEF ReadInv, ReaderType
  <2>3. QED
      BY Zenon, <1>1, <1>4, <2>1, <2>2, AskedFetch, FetchKeeps DEF ReadInv, ReaderType, peers
<1>5. QED
    BY Zenon, <1>2, <1>3, <1>4 DEF ReadHdr

\* A fetch moves on: what it fetches stays the same.
LEMMA MovesKeep ==
    ASSUME ReadInv, NEW S, "none" \notin S, NEW result \in Progress, FetchMoves(S, result)
    PROVE  ReadInv'
<1>1. NoFetch.job = "none"
    BY Zenon DEF NoFetch
<1>2. fetch \in FetchType /\ pre_fetch \in FetchType
    BY Zenon DEF ReadInv, ReaderType
<1>3. UNCHANGED <<has, trying, good, reader, reading_at, out>>
    BY Zenon DEF FetchMoves, peers
<1>4. CASE pre_fetch.job \in S /\ pre_fetch' = [pre_fetch EXCEPT !.job = result]
           /\ UNCHANGED fetch
  <2>1. pre_fetch' \in FetchType /\ \A b : Fetches(pre_fetch, b) => Fetches(pre_fetch', b)
      BY Zenon, <1>2, <1>4, MovedFetch
  <2>2. pre_fetch # NoFetch
      BY Zenon, <1>1, <1>4
  <2>3. QED
      BY Zenon, <1>2, <1>3, <1>4, <2>1, <2>2, FetchKeeps DEF ReadInv, ReaderType
<1>5. CASE fetch' = [fetch EXCEPT !.job = result] /\ UNCHANGED pre_fetch
  <2>1. fetch' \in FetchType /\ \A b : Fetches(fetch, b) => Fetches(fetch', b)
      BY Zenon, <1>2, <1>5, MovedFetch
  <2>2. QED
      BY Zenon, <1>2, <1>3, <1>5, <2>1, FetchKeeps DEF ReadInv, ReaderType
<1>6. QED
    BY Zenon, <1>4, <1>5 DEF FetchMoves

\* get_block fails: another peer is asked, now or when one responds.
LEMMA GetFailsKeeps ==
    ASSUME ReadInv, GetFails
    PROVE  ReadInv'
<1>1. /\ reader.state = "active" /\ reading_at = "get" /\ reader.body = <<>>
      /\ Fetches(fetch, reader.block) /\ reader.block \in Nat
    BY Zenon DEF GetFails, Got, ReadInv, ReaderType, ReaderRecord
<1>2. CASE ReadFails
    BY Zenon, <1>2, ClosedKeeps
<1> DEFINE G == good \ fetch.peer
<1>3. ASSUME unmark_as_good(fetch.peer), UNCHANGED <<has, peers, reader, out>>,
             IF G # {} THEN (\E f \in new_fetch_job(G, fetch.block, {}) : fetch' = Ask(f))
                          /\ reading_at' = "get"
             ELSE fetch' = [fetch EXCEPT !.peer = {}] /\ reading_at' = "retry"
      PROVE  ReadInv'
  <2>1. G \subseteq Peer /\ fetch.block = reader.block /\ fetch \in FetchType
        /\ reader.block <= Len(ReferenceBlocks)
      BY Zenon, <1>1 DEF ReadInv, ReaderType, Fetches
  <2>2. fetch' \in FetchType /\ Fetches(fetch', reader.block) /\ reading_at' \in {"get", "retry"}
    <3>1. CASE G # {}
        BY Zenon, <1>1, <1>3, <2>1, <3>1, NewFetch, AskedFetch DEF ReadInv
    <3>2. CASE G = {}
      <4>1. fetch' \in FetchType /\ fetch'.block = fetch.block /\ fetch'.peer = {}
          BY Zenon, <1>3, <2>1, <3>2 DEF FetchType
      <4>2. QED
          BY Zenon, <1>3, <2>1, <3>2, <4>1 DEF Fetches
    <3>3. QED
        BY Zenon, <3>1, <3>2
  <2>3. NoFetch \in FetchType
      BY Zenon DEF NoFetch, FetchType, Progress
  <2>4. QED
      BY Zenon, <1>1, <1>3, <2>1, <2>2, <2>3, FetchKeeps
      DEF ReadInv, ReaderType, unmark_as_good, peers
<1>4. QED
    BY Zenon, <1>2, <1>3 DEF GetFails

\* A peer responded, or none is left, for the block that is asked again.
LEMMA RetryKeeps ==
    ASSUME ReadInv, Retry
    PROVE  ReadInv'
<1>1. /\ reader.state = "active" /\ reading_at = "retry" /\ reader.body = <<>>
      /\ Fetches(fetch, reader.block) /\ reader.block \in Nat
    BY Zenon DEF Retry, ReadInv, ReaderType, ReaderRecord
<1>2. CASE ReadFails
    BY Zenon, <1>2, ClosedKeeps
<1>3. ASSUME \E f \in new_fetch_job(good, fetch.block, {}) : fetch' = Ask(f), reading_at' = "get",
             UNCHANGED <<has, peers, good, reader, pre_fetch, out>>
      PROVE  ReadInv'
  <2>1. fetch.block = reader.block /\ reader.block <= Len(ReferenceBlocks)
      BY Zenon, <1>1 DEF Fetches
  <2>2. PICK f \in new_fetch_job(good, fetch.block, {}) : fetch' = Ask(f)
      BY Zenon, <1>3
  <2>3. f \in FetchType /\ Fetches(f, reader.block)
      BY Zenon, <1>1, <2>1, NewFetch DEF ReadInv, ReaderType
  <2>4. fetch' \in FetchType /\ Fetches(fetch', reader.block)
      BY Zenon, <2>2, <2>3, AskedFetch
  <2>5. QED
      BY Zenon, <1>1, <1>3, <2>4, FetchKeeps DEF ReadInv, ReaderType, peers
<1>4. QED
    BY Zenon, <1>2, <1>3 DEF Retry

\* The invariant holds after every step.
LEMMA ReadStepKeeps == ReadInv /\ [ReaderNext]_reader_vars => ReadInv'
<1> SUFFICES ASSUME ReadInv, [ReaderNext]_reader_vars PROVE ReadInv'
    BY Zenon
<1>1. CASE PeerStep
    BY Zenon, <1>1, PeersKeep DEF PeerStep, CandidateGood, CandidateFails, CandidateTimesOut,
       ReadInv, ReaderType
<1>2. CASE LookupStep
    BY Zenon, <1>2, PeersKeep, PeersAssumption DEF LookupStep, DhtIsReady, LookupFails, LookupFinds,
       add_candidates, ReadInv, ReaderType
<1>3. CASE ReadStep
    BY Zenon, <1>3, GetBlockKeeps, GetNothingKeeps, GetFailsKeeps, RetryKeeps, ReadHdrKeeps,
       ReadHeadKeeps DEF ReadStep
<1>4. CASE CallStep
    BY Zenon, <1>4, ReadBodyKeeps, LastPartsKeep DEF CallStep
<1>5. CASE FetchStep
    BY Zenon, <1>5, MovesKeep DEF FetchStep, AnswerStep, PeerAnswers, PeerFails, JobEnds, Progress
<1>6. CASE Close
    BY Zenon, <1>6, ClosedKeeps DEF Close
<1>7. CASE UNCHANGED reader_vars
    BY Zenon, <1>7, PeersKeep DEF reader_vars, peers, ReadInv, ReaderType
<1>8. QED
    BY Zenon, <1>1, <1>2, <1>3, <1>4, <1>5, <1>6, <1>7 DEF ReaderNext

\* For any peers with copies of any injections, any order of their answers and
\* failures, and whichever constructor was used, what async_read_part returns is
\* the body of the response whose head it returned, block by block.
THEOREM ReadersDeliverTheReference == ReaderSpec => []DeliversReference
<1>1. ReadInv => DeliversReference
    BY Zenon DEF ReadInv
<1>2. QED
    BY ReadInit, ReadStepKeeps, <1>1, PTL DEF ReaderSpec
=============================================================================
