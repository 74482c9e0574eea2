---------------------------- MODULE ClientProofs -----------------------------
(***************************************************************************)
(* Proofs about what a client runs: ClientSetup, for every configuration;  *)
(* Metrics, for every length of a week, any time and any number of starts  *)
(* and events; and CacheClient with its DhtGroups, for any items and       *)
(* groups and any number of calls.                                         *)
(***************************************************************************)
EXTENDS ClientSetup, Metrics, CacheClient, TLAPS

-----------------------------------------------------------------------------
(***************************************************************************)
(* ClientSetup: StopLeavesNothing and FetchReturnsClean.                   *)
(***************************************************************************)

\* The tasks that make a cache, a DHT or a server end, or are let go, when the
\* client is stopped; before it is started they do not exist.
StopInv ==
  /\ internal = "Created" => /\ ~cache /\ dht = "none" /\ ~upnp /\ ~server
                             /\ injector = "none" /\ setup = "unborn"
  /\ was_stopped => /\ ~cache /\ dht = "none" /\ ~upnp /\ ~server
                    /\ injector \in {"none", "reset"}

\* A fetch that returned has no branch left; one that is cleaning up has a
\* result or was cancelled.
FetchInv ==
  /\ fetch \in [kind : Kinds \cup {"none"}, at : Nat, timer : {"off", "on", "fired"},
                holder : {"none", "ok", "error", "timed_out"},
                phase : {"returned", "select", "direct", "cleanup"}, cancelled : BOOLEAN,
                result : {"none", "ok", "error", "timed_out", "thrown"}]
  /\ fetch.phase = "direct" => fetch.kind \notin Selects
  /\ fetch.phase \in {"select", "cleanup"} => fetch.kind \in Selects
  /\ fetch.phase = "cleanup" => fetch.holder # "none" \/ fetch.cancelled
  /\ fetch.phase = "returned" => fetch.at = 0 /\ fetch.timer = "off"
  /\ FetchReturnsClean

others == <<config, internal, cache, starting, setup, injector, dht, upnp, server, i2p, listen,
            peer>>

-----------------------------------------------------------------------------
LEMMA StopInit == SetupInit => StopInv
    BY Zenon DEF SetupInit, StopInv, was_stopped

LEMMA StopKept ==
    ASSUME StopInv, UNCHANGED <<internal, cache, setup, injector, dht, upnp, server>>
    PROVE  StopInv'
    BY Zenon DEF StopInv, was_stopped

LEMMA LifeStep ==
    ASSUME StopInv, start_ouinet \/ stop_ouinet \/ listen_tcp \/ ListenEnds
    PROVE  StopInv'
<1>1. CASE start_ouinet
    BY Zenon, <1>1 DEF StopInv, was_stopped, start_ouinet
<1>2. CASE stop_ouinet
    BY Zenon, <1>2 DEF StopInv, was_stopped, stop_ouinet
<1>3. CASE listen_tcp
    BY Zenon, <1>3, StopKept DEF listen_tcp
<1>4. CASE ListenEnds
    BY Zenon, <1>4, StopKept DEF ListenEnds
<1>5. QED
    BY Zenon, <1>1, <1>2, <1>3, <1>4

LEMMA SetupStepStop ==
    ASSUME StopInv, SetupStep
    PROVE  StopInv'
<1> USE DEF StopInv, was_stopped, SetupWaits
<1>1. CASE SetupBegins
    BY Zenon, <1>1 DEF SetupBegins
<1>2. CASE Built
    BY Zenon, <1>2 DEF Built, bittorrent_dht
<1>3. CASE I2pAccepts
    BY Zenon, <1>3 DEF I2pAccepts
<1>4. CASE SetupThrows
    BY Zenon, <1>4 DEF SetupThrows
<1>5. CASE InjectorBegins
    BY Zenon, <1>5 DEF InjectorBegins, bittorrent_dht
<1>6. CASE InjectorReady
    BY Zenon, <1>6 DEF InjectorReady
<1>7. CASE I2pCreated
    BY Zenon, <1>7 DEF I2pCreated
<1>8. CASE Bootstrapped
    BY Zenon, <1>8 DEF Bootstrapped
<1>9. QED
    BY Zenon, <1>1, <1>2, <1>3, <1>4, <1>5, <1>6, <1>7, <1>8 DEF SetupStep

LEMMA PeerStepStop ==
    ASSUME StopInv, PeerArrives \/ PeerRequests \/ PeerPicks \/ PeerTunnels \/ PeerThrows
    PROVE  StopInv'
<1>1. UNCHANGED <<internal, cache, setup, injector, dht, upnp, server>>
    BY Zenon DEF PeerArrives, PeerRequests, PeerPicks, PeerTunnels, PeerThrows, Peer
<1>2. QED
    BY Zenon, <1>1, StopKept

LEMMA FetchLeavesRest ==
    ASSUME FetchStep \/ CallerCancels \/ \E k \in Kinds : FetchBegins(k)
    PROVE  UNCHANGED others
    BY Zenon DEF FetchStep, StageDone, TimerFires, BodyThrows, TimerThrows, SelectWakes, SelectReturns,
       CallerCancels, FetchBegins, Fetch, others

LEMMA StopStep == StopInv /\ [SetupNext]_setup_vars => StopInv'
<1> SUFFICES ASSUME StopInv, [SetupNext]_setup_vars PROVE StopInv'
    BY Zenon
<1>1. ASSUME UNCHANGED others PROVE StopInv'
    BY Zenon, <1>1, StopKept DEF others
<1>2. CASE UNCHANGED setup_vars
    BY Zenon, <1>1, <1>2 DEF setup_vars, others
<1>3. QED
    BY Zenon, <1>1, <1>2, FetchLeavesRest, LifeStep, SetupStepStop, PeerStepStop DEF SetupNext

-----------------------------------------------------------------------------
LEMMA FetchInit == SetupInit => FetchInv
    BY DEF SetupInit, FetchInv, NoFetch, FetchReturnsClean

LEMMA EndedInv ==
    ASSUME FetchInv, fetch.phase \in {"direct", "select"}, fetch.kind # "none",
           NEW result \in {"ok", "error", "timed_out", "thrown"},
           fetch.phase = "select" => result # "thrown",
           fetch.phase = "direct" => (result = "thrown") = fetch.cancelled,
           fetch' = Ended(result)
    PROVE  FetchInv'
<1>1. CASE fetch.phase = "direct"
    BY Zenon, <1>1 DEF FetchInv, Ended, FetchReturnsClean
<1>2. CASE fetch.phase = "select"
    BY Zenon, <1>2 DEF FetchInv, Ended, FetchReturnsClean
<1>3. QED
    BY Zenon, <1>1, <1>2

LEMMA FetchBegun ==
    ASSUME FetchInv, NEW k \in Kinds, FetchBegins(k)
    PROVE  FetchInv'
<1>1. PICK first \in FirstStages(k) :
         fetch' = [NoFetch EXCEPT !.kind = k, !.at = first, !.timer = "on",
                     !.phase = IF k \in Selects THEN "select" ELSE "direct"]
    BY Zenon DEF FetchBegins, Fetch
<1>2. first \in Nat
    BY DEF FirstStages, connect_to_origin
<1>3. QED
    BY Zenon, <1>1, <1>2 DEF FetchInv, NoFetch, FetchReturnsClean

LEMMA StageStep ==
    ASSUME FetchInv, StageDone
    PROVE  FetchInv'
<1>1. /\ fetch.kind \in Kinds /\ fetch.at # 0 /\ ~fetch.cancelled
      /\ fetch.phase \in {"direct", "select"} /\ fetch.kind # "none"
    BY Zenon DEF StageDone, InBody, BodyCancelled, FetchInv, Kinds, Stages
<1>2. CASE fetch' = Ended("ok") \/ fetch' = Ended("error")
    BY Zenon, <1>1, <1>2, EndedInv DEF FetchInv
<1>3. ASSUME NEW stage \in NextStages, fetch' = [fetch EXCEPT !.at = stage]
      PROVE  FetchInv'
  <2>1. stage \in Nat
      BY DEF NextStages
  <2>2. QED
      BY Zenon, <1>1, <1>3, <2>1 DEF FetchInv, FetchReturnsClean
<1>4. QED
    BY Zenon, <1>2, <1>3 DEF StageDone, Fetch

LEMMA FetchSteps ==
    ASSUME FetchInv, FetchStep \/ CallerCancels
    PROVE  FetchInv'
<1> USE DEF Fetch, FetchReturnsClean
<1>1. CASE TimerFires
    BY Zenon, <1>1 DEF TimerFires, FetchInv
<1>2. CASE BodyThrows
  <2>1. fetch.kind \in Kinds /\ fetch.at # 0 /\ fetch.phase # "returned"
      BY Zenon, <1>2 DEF BodyThrows, InBody, FetchInv
  <2>2. CASE fetch.kind \in Selects
      BY Zenon, <1>2, <2>1, <2>2 DEF BodyThrows, FetchInv
  <2>3. CASE fetch.kind \notin Selects
    <3>1. fetch.phase = "direct" /\ fetch.kind # "none" /\ fetch.cancelled \in BOOLEAN
        BY Zenon, <2>1, <2>3 DEF FetchInv, Kinds, Stages
    <3>2. fetch' = Ended(IF fetch.cancelled THEN "thrown" ELSE "timed_out")
        BY Zenon, <1>2, <2>3 DEF BodyThrows
    <3>3. CASE fetch.cancelled
        BY Zenon, <3>1, <3>2, <3>3, EndedInv
    <3>4. CASE ~fetch.cancelled
        BY Zenon, <3>1, <3>2, <3>4, EndedInv
    <3>5. QED
        BY Zenon, <3>3, <3>4
  <2>4. QED
      BY Zenon, <2>2, <2>3
<1>3. CASE TimerThrows
    BY Zenon, <1>3 DEF TimerThrows, FetchInv
<1>4. CASE SelectWakes
    BY Zenon, <1>4 DEF SelectWakes, FetchInv
<1>5. CASE SelectReturns
    BY Zenon, <1>5 DEF SelectReturns, FetchInv
<1>6. CASE CallerCancels
    BY Zenon, <1>6 DEF CallerCancels, FetchInv
<1>7. QED
    BY Zenon, <1>1, <1>2, <1>3, <1>4, <1>5, <1>6, StageStep DEF FetchStep

LEMMA FetchNext == FetchInv /\ [SetupNext]_setup_vars => FetchInv'
<1> SUFFICES ASSUME FetchInv, [SetupNext]_setup_vars PROVE FetchInv'
    BY Zenon
<1>1. ASSUME UNCHANGED fetch PROVE FetchInv'
    BY Zenon, <1>1 DEF FetchInv, FetchReturnsClean
<1>2. CASE stop_ouinet
  <2>1. CASE UNCHANGED fetch
      BY Zenon, <1>1, <2>1
  <2>2. CASE fetch' = [fetch EXCEPT !.cancelled = @ \/ fetch.phase # "returned"]
      BY Zenon, <2>2 DEF FetchInv, FetchReturnsClean
  <2>3. QED
      BY Zenon, <1>2, <2>1, <2>2 DEF stop_ouinet
<1>3. CASE start_ouinet \/ listen_tcp \/ ListenEnds \/ SetupStep
    BY Zenon, <1>1, <1>3 DEF start_ouinet, listen_tcp, ListenEnds, SetupStep, SetupBegins, Built,
       I2pAccepts, SetupThrows, InjectorBegins, InjectorReady, I2pCreated, Bootstrapped
<1>4. CASE PeerArrives \/ PeerRequests \/ PeerPicks \/ PeerTunnels \/ PeerThrows
    BY Zenon, <1>1, <1>4 DEF PeerArrives, PeerRequests, PeerPicks, PeerTunnels, PeerThrows, Peer
<1>5. CASE UNCHANGED setup_vars
    BY Zenon, <1>1, <1>5 DEF setup_vars
<1>6. QED
    BY Zenon, <1>2, <1>3, <1>4, <1>5, FetchBegun, FetchSteps DEF SetupNext

-----------------------------------------------------------------------------
\* Once the client was stopped there is no cache, DHT, port mapping or server,
\* whichever coroutines of the set-up were suspended then.
THEOREM StoppedIsBare == SetupSpec => []StopLeavesNothing
<1>1. StopInv => StopLeavesNothing
    BY Zenon DEF StopInv, StopLeavesNothing
<1>2. QED
    BY StopInit, StopStep, <1>1, PTL DEF SetupSpec

\* A fetch leaves no branch of select() running when it returns, and throws
\* exactly when its caller was cancelled, whenever timer, caller, answers and
\* the stopping of the client come.
THEOREM FetchesReturnClean == SetupSpec => []FetchReturnsClean
<1>1. FetchInv => FetchReturnsClean
    BY Zenon DEF FetchInv
<1>2. QED
    BY FetchInit, FetchNext, <1>1, PTL DEF SetupSpec

-----------------------------------------------------------------------------
(***************************************************************************)
(* Metrics: RecordsDoNotMix.                                               *)
(***************************************************************************)

Collected == finished \cup unfinished

\* A record with data of its device only.
Pure(r) == r.data \subseteq {r.id.device}

\* Between the writing of a new device id and the clearing of the collector
\* the runner stores nothing, and otherwise the collector holds what belongs
\* to the current device id, which is the one that other threads see.
MixInv ==
    /\ \A r \in records : Pure(r)
    /\ \A i \in DOMAIN oldest_record : Pure(oldest_record[i])
    /\ client \in {"none", "starting"} => pc = "none" /\ Collected = {}
    /\ client \in {"none", "starting", "running", "stopping"}
    /\ pc \notin {"none", "reset"} => record_id.device = device.id
    /\ pc \notin {"none", "reset", "clear"} => Collected \subseteq {device.id}
    /\ pc = "write" => buffer \subseteq {device.id}
    /\ pc = "select" => alarm.event \in {"rotate", "increment"}
    /\ pc \in {"collect", "write"} => then \in {"top", "rotate", "increment", "ended"}

-----------------------------------------------------------------------------
LEMMA MixInit == MetricsInit => MixInv
    BY DEF MetricsInit, MixInv, Collected

\* The record that a write leaves is one of the current device.
LEMMA WithRecordPure ==
    ASSUME MixInv, NEW data \in SUBSET {device.id}
    PROVE  \A r \in WithRecord(data) : Pure(r)
    BY DEF MixInv, WithRecord, Pure, current_record_id

\* A process that ends leaves its memory empty, and records as they may be.
LEMMA EndsInv ==
    ASSUME MixInv, Ends, \A r \in records' : Pure(r)
    PROVE  MixInv'
    BY DEF MixInv, Ends, Collected, Pure

LEMMA DiskLeftPure ==
    ASSUME MixInv, DiskLeft
    PROVE  \A r \in records' : Pure(r)
<1>1. CASE pc = "write"
  <2>1. buffer \in SUBSET {device.id} /\ {} \in SUBSET {device.id}
      BY Zenon, <1>1 DEF MixInv
  <2>2. records' \in {records, WithRecord(buffer), WithRecord({}),
                      {r \in records : r.id # current_record_id}}
      BY Zenon, <1>1 DEF DiskLeft
  <2>3. QED
      BY Zenon, <2>1, <2>2, WithRecordPure DEF MixInv
<1>2. CASE pc # "write"
  <2>1. records' \subseteq records
      BY Zenon, <1>2 DEF DiskLeft
  <2>2. QED
      BY Zenon, <2>1 DEF MixInv
<1>3. QED
    BY Zenon, <1>1, <1>2

LEMMA ThreadStepInv ==
    ASSUME MixInv, ThreadStep
    PROVE  MixInv'
<1>1. CASE Started
    BY Zenon, <1>1 DEF MixInv, Started, Threads, mark_modified, Collected, Pure, diskvars, runvars,
       idvars
<1>2. ASSUME NEW d \in unfinished, Finished(d) PROVE MixInv'
    BY Zenon, <1>2 DEF MixInv, Finished, Threads, mark_modified, Collected, Pure, diskvars, runvars,
       idvars
<1>3. ASSUME NEW marks \in BOOLEAN, Counted(record_id, marks) PROVE MixInv'
    BY Zenon, <1>3 DEF MixInv, Counted, Threads, Collected, Pure, diskvars, runvars, idvars
<1>4. ASSUME NEW p \in BOOLEAN, set_processor(p) PROVE MixInv'
    BY Zenon, <1>4 DEF MixInv, set_processor, Threads, Collected, Pure, diskvars, runvars, idvars,
       collvars
<1>5. QED
    BY Zenon, <1>1, <1>2, <1>3, <1>4 DEF ThreadStep

\* The steps of the runner that leave the records and the collector alone.
LEMMA ListenStepInv ==
    ASSUME MixInv, on_event \/ OnModified \/ OnAlarm \/ OnProcessor \/ OnClosed \/ OnBackoff
    PROVE  MixInv'
<1> USE DEF MixInv, Collected, Pure, diskvars, idvars, collvars
<1>1. CASE on_event
    BY Zenon, <1>1 DEF on_event
<1>2. CASE OnModified
    BY Zenon, <1>2 DEF OnModified, StoreThen
<1>3. CASE OnAlarm
    BY Zenon, <1>3 DEF OnAlarm, StoreThen
<1>4. CASE OnProcessor
    BY Zenon, <1>4 DEF OnProcessor
<1>5. CASE OnClosed
    BY Zenon, <1>5 DEF OnClosed, StoreThen
<1>6. CASE OnBackoff
    BY Zenon, <1>6 DEF OnBackoff
<1>7. QED
    BY Zenon, <1>1, <1>2, <1>3, <1>4, <1>5, <1>6

LEMMA SendStepInv ==
    ASSUME MixInv, Load \/ Sent \/ SendCancelled \/ SendDropped \/ Discard
    PROVE  MixInv'
<1> USE DEF MixInv, Collected, diskvars, idvars, collvars
<1>1. CASE Load
    BY <1>1 DEF Load, load_stored_records
<1>2. CASE Sent
    BY Zenon, <1>2 DEF Sent
<1>3. CASE SendCancelled
    BY Zenon, <1>3 DEF SendCancelled
<1>4. CASE SendDropped
    BY Zenon, <1>4 DEF SendDropped
<1>5. CASE Discard
    BY <1>5 DEF Discard
<1>6. QED
    BY Zenon, <1>1, <1>2, <1>3, <1>4, <1>5

LEMMA StoreStepInv ==
    ASSUME MixInv, Collect \/ Write \/ Purge
    PROVE  MixInv'
<1>1. CASE Collect
    BY Zenon, <1>1 DEF MixInv, Collect, Collected, diskvars, idvars, collvars
<1>2. CASE Write
  <2>1. \A r \in records' : Pure(r)
      BY Zenon, <1>2, WithRecordPure DEF MixInv, Write
  <2>2. QED
      BY Zenon, <1>2, <2>1 DEF MixInv, Write, Collected, idvars, collvars
<1>3. CASE Purge
    BY Zenon, <1>3 DEF MixInv, Purge, Collected, idvars, collvars
<1>4. QED
    BY Zenon, <1>1, <1>2, <1>3

LEMMA ChangeStepInv ==
    ASSUME MixInv, Rotate \/ Reset \/ Increment \/ Clear
    PROVE  MixInv'
<1> USE DEF MixInv, Collected
<1>1. CASE Rotate
    BY Zenon, <1>1 DEF Rotate, WriteDevice, collvars
<1>2. CASE Reset
    BY Zenon, <1>2 DEF Reset, SetNumber, collvars
<1>3. CASE Increment
    BY Zenon, <1>3 DEF Increment, SetNumber, collvars
<1>4. CASE Clear
    BY Zenon, <1>4 DEF Clear, mark_modified, diskvars, idvars
<1>5. QED
    BY Zenon, <1>1, <1>2, <1>3, <1>4

LEMMA ProcessStepInv ==
    ASSUME MixInv, NewDeviceId \/ LoadNumber \/ stop \/ Stopped \/ MetricsCrash \/ SendFails
    PROVE  MixInv'
<1>1. CASE NewDeviceId
    BY Zenon, <1>1 DEF MixInv, NewDeviceId, Collected, runvars, collvars
<1>2. CASE LoadNumber
    BY Zenon, <1>2 DEF MixInv, LoadNumber, load_stored_records, Collected, collvars
<1>3. CASE stop
    BY Zenon, <1>3 DEF MixInv, stop, Collected, diskvars, runvars, idvars, collvars
<1>4. CASE Stopped
  <2>1. \A r \in records' : Pure(r)
      BY Zenon, <1>4, DiskLeftPure DEF MixInv, Stopped, diskvars
  <2>2. QED
      BY Zenon, <1>4, <2>1, EndsInv DEF Stopped
<1>5. CASE MetricsCrash
    BY Zenon, <1>5, DiskLeftPure, EndsInv DEF MetricsCrash
<1>6. CASE SendFails
    BY Zenon, <1>6, EndsInv DEF MixInv, SendFails, diskvars
<1>7. QED
    BY Zenon, <1>1, <1>2, <1>3, <1>4, <1>5, <1>6

LEMMA MixStep == MixInv /\ [MetricsNext]_metricsvars => MixInv'
<1> SUFFICES ASSUME MixInv, [MetricsNext]_metricsvars PROVE MixInv'
    BY Zenon
<1>1. ASSUME UNCHANGED <<diskvars, client, runvars, idvars, collvars>> PROVE MixInv'
    BY Zenon, <1>1 DEF MixInv, Collected, diskvars, runvars, idvars, collvars
<1>2. CASE Tick \/ WatchStep
    BY Zenon, <1>1, <1>2 DEF Tick, WatchStep
<1>3. CASE UNCHANGED metricsvars
    BY Zenon, <1>1, <1>3 DEF metricsvars
<1>4. QED
    BY Zenon, <1>2, <1>3, ThreadStepInv, ListenStepInv, SendStepInv, StoreStepInv, ChangeStepInv,
       ProcessStepInv
    DEF MetricsNext, RunnerStep

\* No stored record and no record on its way to a server holds data that was
\* collected under another device id, wherever the process ends, whatever file
\* it cuts short, and whatever other threads add to the collector meanwhile.
THEOREM RecordsStayPure == MetricsSpec => []RecordsDoNotMix
<1>1. MixInv => RecordsDoNotMix
    BY Zenon DEF MixInv, RecordsDoNotMix, Pure
<1>2. QED
    BY MixInit, MixStep, <1>1, PTL DEF MetricsSpec

-----------------------------------------------------------------------------
\* A coroutine that waits for the name of a new group to be written adds to
\* the group that store was called for; nothing is announced by a client that
\* is not up.
AnnounceInv ==
  /\ saving \in [Adder -> {NoSave} \cup {Saving(at, g, i) : at \in {"http", "group"},
                                                            g \in Group, i \in Item}]
  /\ adding \in [Adder -> Adding]
  /\ \A a \in Adder : saving[a].pc = "group" =>
       adding[a] = Writing(saving[a].group, saving[a].item)
  /\ announced = [x \in Announcer |-> announced[x]]
  /\ enabled \subseteq Announcer
  /\ state # "up" => enabled = {}
  /\ GroupsAreAnnounced

-----------------------------------------------------------------------------
\* The names that the operators on the index leave in memory.
LEMMA DomainAfterRemove ==
    ASSUME NEW gs, NEW d, NEW I
    PROVE  DOMAIN GroupsAfterRemove(gs, d, I) = DOMAIN gs \ Emptied(gs, d, I)
    BY Zenon DEF GroupsAfterRemove

LEMMA DomainWithItem ==
    ASSUME NEW gs, NEW n, NEW i
    PROVE  DOMAIN WithItem(gs, n, i) = DOMAIN gs \cup {n}
    BY Zenon DEF WithItem

LEMMA AnnounceInit == CInit => AnnounceInv
    BY DEF CInit, Init, AnnounceInv, GroupsAreAnnounced, Adding, NoSave

\* A step that announces nothing less and knows no more groups.
LEMMA AnnouncedKept ==
    ASSUME GroupsAreAnnounced, DOMAIN groups' \subseteq DOMAIN groups,
           UNCHANGED <<state, enabled, announced>>
    PROVE  GroupsAreAnnounced'
    BY Zenon DEF GroupsAreAnnounced

\* The item is added to the group that is then announced.
LEMMA AddAnnounced ==
    ASSUME AnnounceInv, state = "up", NEW a, NEW d, NEW g, NEW i, NEW ok \in BOOLEAN,
           CompleteAdd(a, d, g, i, ok), Announce(IF ok THEN {g} ELSE {}),
           UNCHANGED <<state, enabled>>
    PROVE  GroupsAreAnnounced' /\ announced' = [x \in Announcer |-> announced'[x]]
<1>1. announced' = [x \in Announcer |-> IF x \in enabled
                                        THEN announced[x] \cup (IF ok THEN {g} ELSE {})
                                        ELSE announced[x]]
    BY Zenon DEF Announce
<1>2. DOMAIN groups' \subseteq DOMAIN groups \cup (IF ok THEN {g} ELSE {})
  <2>1. \/ ok /\ groups' = WithItem(groups, g, i)
        \/ ~ok /\ groups' = groups
      BY Zenon DEF CompleteAdd
  <2>2. CASE ok /\ groups' = WithItem(groups, g, i)
    <3>1. DOMAIN WithItem(groups, g, i) = DOMAIN groups \cup {g}
        BY Zenon, DomainWithItem
    <3>2. QED
        BY Zenon, <2>2, <3>1
  <2>3. CASE ~ok /\ groups' = groups
      BY Zenon, <2>3
  <2>4. QED
      BY Zenon, <2>1, <2>2, <2>3
<1>3. ASSUME state' = "up", NEW x \in enabled' PROVE DOMAIN groups' \subseteq announced'[x]
  <2>1. DOMAIN groups \subseteq announced[x] /\ x \in Announcer /\ x \in enabled
      BY <1>3 DEF AnnounceInv, GroupsAreAnnounced
  <2>2. announced'[x] = announced[x] \cup (IF ok THEN {g} ELSE {})
      BY Zenon, <1>1, <2>1
  <2>3. QED
      BY Zenon, <1>2, <2>1, <2>2
<1>4. QED
    BY Zenon, <1>1, <1>3 DEF GroupsAreAnnounced

LEMMA StoreStep ==
    ASSUME AnnounceInv, NEW a \in Adder,
           \/ \E g \in Group, i \in Item : StoreBegins(a, g, i)
           \/ StoreFails(a) \/ StoredToNewGroup(a) \/ GroupNotAdded(a)
           \/ \E ok \in BOOLEAN : StoredToOldGroup(a, ok) \/ GroupAdded(a, ok)
    PROVE  AnnounceInv'
<1> USE DEF NoSave, Saving
<1>1. ASSUME NEW g \in Group, NEW i \in Item, StoreBegins(a, g, i) PROVE AnnounceInv'
    BY <1>1, AnnouncedKept DEF AnnounceInv, StoreBegins, vars
<1>2. CASE StoreFails(a)
    BY <1>2, AnnouncedKept DEF AnnounceInv, StoreFails, vars
<1>3. CASE StoredToNewGroup(a)
  <2>1. saving[a].group \in Group /\ saving[a].item \in Item
      BY <1>3 DEF AnnounceInv, StoredToNewGroup
  <2>2. GroupsAreAnnounced'
      BY <1>3, AnnouncedKept DEF AnnounceInv, StoredToNewGroup, AddToNew
  <2>3. QED
      BY <1>3, <2>1, <2>2 DEF AnnounceInv, StoredToNewGroup, AddToNew, Adding
<1>4. CASE GroupNotAdded(a)
  <2>1. UNCHANGED <<state, groups, announced, enabled>> /\ adding' = [adding EXCEPT ![a] = Idle]
        /\ saving' = [saving EXCEPT ![a] = NoSave]
      BY Zenon, <1>4 DEF GroupNotAdded, WriteFails, Cancelled
  <2>2. GroupsAreAnnounced'
      BY <2>1, AnnouncedKept DEF AnnounceInv
  <2>3. QED
      BY <2>1, <2>2 DEF AnnounceInv, Adding
<1>5. ASSUME NEW ok \in BOOLEAN, StoredToOldGroup(a, ok) PROVE AnnounceInv'
  <2>1. GroupsAreAnnounced' /\ announced' = [x \in Announcer |-> announced'[x]]
      BY Zenon, <1>5, AddAnnounced DEF StoredToOldGroup, AddToOld
  <2>2. QED
      BY <1>5, <2>1 DEF AnnounceInv, StoredToOldGroup, AddToOld, CompleteAdd, Adding
<1>6. ASSUME NEW ok \in BOOLEAN, GroupAdded(a, ok) PROVE AnnounceInv'
  <2>1. adding[a].group = saving[a].group
      BY <1>6 DEF GroupAdded, AnnounceInv, Writing
  <2>2. GroupsAreAnnounced' /\ announced' = [x \in Announcer |-> announced'[x]]
      BY Zenon, <1>6, <2>1, AddAnnounced DEF GroupAdded, Written
  <2>3. QED
      BY <1>6, <2>2 DEF AnnounceInv, GroupAdded, Written, CompleteAdd, Adding
<1>7. QED
    BY Zenon, <1>1, <1>2, <1>3, <1>4, <1>5, <1>6

\* Only groups that leave the index are taken from the announcers.
LEMMA UnpublishStep ==
    ASSUME AnnounceInv, NEW i, unpublish_cache_entry(i), UNCHANGED <<saving, enabled>>
    PROVE  AnnounceInv'
<1>1. DOMAIN groups' = DOMAIN groups \ Emptied(groups, disk, {i})
    BY Zenon, DomainAfterRemove DEF unpublish_cache_entry, remove
<1>2. Unannounced(i) \subseteq Emptied(groups, disk, {i})
    BY Zenon DEF Unannounced, Backed_remove_pinned_returns, remove_returns
<1>3. /\ announced' = [x \in Announcer |-> IF x \in enabled THEN announced[x] \ Unannounced(i)
                                           ELSE announced[x]]
      /\ UNCHANGED <<state, adding>>
    BY Zenon DEF unpublish_cache_entry, remove
<1>4. ASSUME state' = "up", NEW x \in enabled' PROVE DOMAIN groups' \subseteq announced'[x]
  <2>1. DOMAIN groups \subseteq announced[x] /\ x \in Announcer /\ x \in enabled
      BY <1>3, <1>4 DEF AnnounceInv, GroupsAreAnnounced
  <2>2. announced'[x] = announced[x] \ Unannounced(i)
      BY Zenon, <1>3, <2>1
  <2>3. QED
      BY Zenon, <1>1, <1>2, <2>1, <2>2
<1>5. announced' = [x \in Announcer |-> announced'[x]]
    BY Zenon, <1>3
<1>6. GroupsAreAnnounced'
    BY Zenon, <1>4 DEF GroupsAreAnnounced
<1>7. QED
    BY <1>3, <1>5, <1>6 DEF AnnounceInv

LEMMA EnableStep ==
    ASSUME AnnounceInv, NEW x \in Announcer, Enable(x)
    PROVE  AnnounceInv'
<1>1. /\ announced' = [announced EXCEPT ![x] = AllGroups(groups)]
      /\ enabled' = enabled \cup {x} /\ UNCHANGED <<vars, saving>> /\ state = "up"
    BY Zenon DEF Enable
<1>2. ASSUME NEW y \in enabled' PROVE DOMAIN groups' \subseteq announced'[y]
  <2>1. CASE y = x
    <3>1. announced'[x] = AllGroups(groups)
        BY Zenon, <1>1 DEF AnnounceInv
    <3>2. QED
        BY Zenon, <1>1, <2>1, <3>1 DEF AllGroups, vars
  <2>2. CASE y # x
    <3>1. y \in Announcer /\ DOMAIN groups \subseteq announced[y]
        BY <1>1, <1>2, <2>2 DEF AnnounceInv, GroupsAreAnnounced
    <3>2. announced'[y] = announced[y]
        BY Zenon, <1>1, <2>2, <3>1 DEF AnnounceInv
    <3>3. QED
        BY Zenon, <1>1, <3>1, <3>2 DEF vars
  <2>3. QED
      BY Zenon, <2>1, <2>2
<1>3. GroupsAreAnnounced'
    BY Zenon, <1>2 DEF GroupsAreAnnounced
<1>4. announced' = [y \in Announcer |-> announced'[y]]
    BY Zenon, <1>1 DEF AnnounceInv
<1>5. QED
    BY <1>1, <1>3, <1>4 DEF AnnounceInv, vars

\* Steps that leave names, announcements and calls alone.
LEMMA QuietStep ==
    ASSUME AnnounceInv, UNCHANGED <<state, groups, adding, saving, enabled, announced>>
    PROVE  AnnounceInv'
<1>1. GroupsAreAnnounced'
    BY AnnouncedKept DEF AnnounceInv
<1>2. QED
    BY <1>1 DEF AnnounceInv

LEMMA WalkKeeps ==
    ASSUME AnnounceInv, WalkStep
    PROVE  AnnounceInv'
<1>1. ASSUME NEW w \in Walker, WalkBegins(w) \/ \E i \in Item : Visit(w, i) \/ HeadUnreadable(w, i)
      PROVE  AnnounceInv'
    BY Zenon, <1>1, QuietStep DEF WalkBegins, Visit, HeadUnreadable, vars
<1>2. ASSUME NEW i \in Item, keep_cache_entry(i) PROVE AnnounceInv'
    BY Zenon, <1>2, QuietStep, UnpublishStep DEF keep_cache_entry, vars
<1>3. ASSUME NEW i \in Item, local_purge(i) PROVE AnnounceInv'
    BY Zenon, <1>3, UnpublishStep DEF local_purge
<1>4. QED
    BY Zenon, <1>1, <1>2, <1>3 DEF WalkStep

LEMMA RestartStep ==
    ASSUME AnnounceInv, CCrash \/ Build
    PROVE  AnnounceInv'
<1>1. CASE CCrash
  <2>1. adding' = [a \in Adder |-> Idle]
      BY Zenon, <1>1 DEF CCrash, Crash, CrashInside, Stop
  <2>2. QED
      BY <1>1, <2>1 DEF CCrash, AnnounceInv, GroupsAreAnnounced, Adding, NoSave
<1>2. CASE Build
  <2>1. enabled = {} /\ UNCHANGED <<saving, adding, enabled, announced>>
      BY <1>2 DEF Build, AnnounceInv, LoadFails
  <2>2. QED
      BY <2>1 DEF AnnounceInv, GroupsAreAnnounced
<1>3. QED
    BY Zenon, <1>1, <1>2

LEMMA AnnounceStep == AnnounceInv /\ [CNext]_cvars => AnnounceInv'
<1> SUFFICES ASSUME AnnounceInv, [CNext]_cvars PROVE AnnounceInv'
    BY Zenon
<1>1. ASSUME NEW g \in Group, Pin(g) PROVE AnnounceInv'
    BY Zenon, <1>1, QuietStep DEF Pin, pin_group, unpin_group
<1>2. ASSUME NEW i \in Item, Age(i) PROVE AnnounceInv'
    BY Zenon, <1>2, QuietStep DEF Age, vars
<1>3. CASE UNCHANGED cvars
    BY Zenon, <1>3, QuietStep DEF cvars, vars
<1>4. QED
    BY Zenon, <1>1, <1>2, <1>3, StoreStep, EnableStep, WalkKeeps, RestartStep DEF CNext

-----------------------------------------------------------------------------
\* Every announcer announces every group of the own index from the moment it is
\* enabled, whatever calls of store, walks, failures and restarts interleave.
THEOREM AnnouncesItsGroups == CSpec => []GroupsAreAnnounced
<1>1. AnnounceInv => GroupsAreAnnounced
    BY DEF AnnounceInv
<1>2. QED
    BY AnnounceInit, AnnounceStep, <1>1, PTL DEF CSpec

-----------------------------------------------------------------------------
(***************************************************************************)
(* Starting: what load_stored_groups leaves.                               *)
(***************************************************************************)
\* A group that is not removed has an item that can be read, of its own or of
\* the static cache, and removing items that cannot be read keeps it.
LEMMA CheckedGroups ==
    ASSUME NEW gs, NEW d, CheckLoaded(gs, d), NEW n \in DOMAIN groups'
    PROVE  \E i \in AllItems(groups', n) : Readable(stored', i)
<1> DEFINE Dead == {i \in Item : stored[i] = "old" /\ ~is_pinned_item(gs, d, i)}
           gs1 == GroupsAfterRemove(gs, d, Dead)
           d1 == DiskAfterRemove(gs, d, Dead)
           s1 == [i \in Item |-> IF i \in Dead \/ stored[i] = "foreign" THEN "none" ELSE stored[i]]
           bad == BadGroups(gs1, s1)
           gs2 == GroupsWithout(gs1, bad)
           d2 == DiskWithout(d1, bad)
           I == BadItems(gs1, s1)
<1>1. groups' = GroupsAfterRemove(gs2, d2, I) /\ stored' = s1
    BY Zenon DEF CheckLoaded
<1> HIDE DEF Dead, gs1, d1, s1, d2
<1>2. n \in DOMAIN gs2 /\ groups'[n] = (IF n \in Removing(gs2, d2, I) THEN gs2[n] \ I ELSE gs2[n])
    BY Zenon, <1>1 DEF GroupsAfterRemove
<1>3. n \in DOMAIN gs1 /\ n \notin bad /\ gs2[n] = gs1[n]
    BY Zenon, <1>2 DEF GroupsWithout, Restrict
<1>4. PICK i \in AllItems(gs1, n) : Readable(s1, i)
    BY Zenon, <1>3 DEF BadGroups, AllGroups
<1>5. i \notin I
    BY Zenon, <1>4 DEF BadItems
<1>6. i \in AllItems(groups', n)
    BY Zenon, <1>2, <1>3, <1>4, <1>5 DEF AllItems, ItemsOf
<1>7. QED
    BY Zenon, <1>1, <1>4, <1>6

\* However the disk was left, a client that has started knows no group without
\* an item it can read.
THEOREM StartsDropDeadGroups == CSpec => StartDropsDeadGroups
<1>1. ASSUME [CNext]_cvars, state # "up", state' = "up"
      PROVE  Build /\ Unnamed = {}
  <2>1. Build
      BY Zenon, <1>1 DEF CNext, cvars, vars, StoreBegins, StoreFails, StoredToNewGroup, GroupNotAdded,
         StoredToOldGroup, GroupAdded, Enable, Pin, WalkStep, WalkBegins, Visit, HeadUnreadable,
         keep_cache_entry, local_purge, Age, CCrash, AddToNew, AddToOld, Written, WriteFails, Cancelled,
         pin_group, unpin_group, unpublish_cache_entry, remove, Crash, CrashInside, Stop
  <2>2. QED
      BY Zenon, <1>1, <2>1 DEF Build, LoadFails
<1>2. [CNext]_cvars =>
        (state # "up" /\ state' = "up" =>
           \A n \in DOMAIN groups' : \E i \in AllItems(groups', n) : Readable(stored', i))
  <2> SUFFICES ASSUME [CNext]_cvars, state # "up", state' = "up", NEW n \in DOMAIN groups'
               PROVE  \E i \in AllItems(groups', n) : Readable(stored', i)
      BY Zenon
  <2>1. PICK gs \in LoadedGroups : CheckLoaded(gs, DiskWithout(disk, LoadRemoves))
      BY Zenon, <1>1 DEF Build, LoadFails
  <2>2. QED
      BY Zenon, <2>1, CheckedGroups
<1>3. QED
    BY <1>2, PTL DEF CSpec, StartDropsDeadGroups

-----------------------------------------------------------------------------
(***************************************************************************)
(* Disk and memory, while the process only stops between file operations.  *)
(***************************************************************************)
\* The groups whose directory some call of add is making.
Busy == {adding[a].group : a \in {b \in Adder : adding[b] # Idle}}

\* Disk d tells what memory gs tells, but for the groups of W.
Mirrors(d, gs, W) ==
  /\ DOMAIN gs \subseteq Group
  /\ \A g \in Group :
       /\ d[g].items = ItemsOf(gs, g)
       /\ g \in DOMAIN gs => d[g].exists /\ d[g].name = "whole"
       /\ d[g].exists => g \in DOMAIN gs \/ g \in W

\* Every directory can be loaded, and those with items have their name.
Sound(d) ==
  /\ d \in [Group -> Dir]
  /\ \A g \in Group :
       /\ ~d[g].exists => d[g].items = {}
       /\ d[g].exists => d[g].name # "missing"
       /\ d[g].items # {} => d[g].name = "whole"

\* A call of add that is suspended is alone, in a directory of its own that
\* neither memory nor another call knows of.
MirrorInv ==
  /\ state \in {"down", "up"}
  /\ Sound(disk)
  /\ state = "up" => Mirrors(disk, groups, Busy)
  /\ adding \in [Adder -> Adding]
  /\ \A a \in Adder : adding[a] # Idle =>
       /\ state = "up" /\ adding[a].group \notin DOMAIN groups
       /\ disk[adding[a].group].exists /\ disk[adding[a].group].maker = a
  /\ \A a, b \in Adder : adding[a] # Idle /\ adding[b] # Idle => a = b

LEMMA MirrorInit == CInit => MirrorInv
<1> SUFFICES ASSUME CInit PROVE MirrorInv
    BY Zenon
<1>1. Sound(disk)
    BY Zenon DEF CInit, Init, Sound, Dir, NoDir
<1>2. QED
    BY <1>1 DEF CInit, Init, MirrorInv, Adding

\* Removing items or groups from both leaves both telling the same.
LEMMA RemoveMirrors ==
    ASSUME NEW gs, NEW d, Sound(d), NEW W, Mirrors(d, gs, W), NEW I
    PROVE  /\ Sound(DiskAfterRemove(gs, d, I))
           /\ Mirrors(DiskAfterRemove(gs, d, I), GroupsAfterRemove(gs, d, I), W)
<1> DEFINE d1 == DiskAfterRemove(gs, d, I)
           gs1 == GroupsAfterRemove(gs, d, I)
           E == Emptied(gs, d, I)
           R == Removing(gs, d, I)
<1>1. /\ d1 = [g \in Group |-> IF g \in E THEN NoDir
                               ELSE IF g \in R THEN [d[g] EXCEPT !.items = @ \ I] ELSE d[g]]
      /\ gs1 = [n \in DOMAIN gs \ E |-> IF n \in R THEN gs[n] \ I ELSE gs[n]]
    BY Zenon DEF DiskAfterRemove, GroupsAfterRemove
<1>2. E \subseteq DOMAIN gs /\ R \subseteq DOMAIN gs
    BY Zenon DEF Emptied, Removing
<1> HIDE DEF d1, gs1, E, R
<1>3. ASSUME NEW g \in Group
      PROVE  /\ d1[g] \in Dir
             /\ ~d1[g].exists => d1[g].items = {}
             /\ d1[g].exists => d1[g].name # "missing"
             /\ d1[g].items # {} => d1[g].name = "whole"
             /\ d1[g].items = ItemsOf(gs1, g)
             /\ g \in DOMAIN gs1 => d1[g].exists /\ d1[g].name = "whole"
             /\ d1[g].exists => g \in DOMAIN gs1 \/ g \in W
  <2>1. /\ d[g] \in Dir
        /\ ~d[g].exists => d[g].items = {}
        /\ d[g].exists => d[g].name # "missing"
        /\ d[g].items # {} => d[g].name = "whole"
      BY Zenon DEF Sound
  <2>2. /\ d[g].items = ItemsOf(gs, g)
        /\ g \in DOMAIN gs => d[g].exists /\ d[g].name = "whole"
        /\ d[g].exists => g \in DOMAIN gs \/ g \in W
      BY Zenon DEF Mirrors
  <2>3. CASE g \in E
      BY Zenon, <1>1, <1>2, <2>3 DEF NoDir, Dir, ItemsOf
  <2>4. CASE g \notin E /\ g \in R
    <3>1. d1[g] = [d[g] EXCEPT !.items = d[g].items \ I]
        BY Zenon, <1>1, <2>4
    <3>2. /\ d1[g] \in Dir /\ d1[g].exists = d[g].exists /\ d1[g].name = d[g].name
          /\ d1[g].items = d[g].items \ I
        BY Zenon, <2>1, <3>1 DEF Dir
    <3>3. g \in DOMAIN gs /\ g \in DOMAIN gs1 /\ gs1[g] = gs[g] \ I
        BY Zenon, <1>1, <1>2, <2>4
    <3>4. QED
        BY Zenon, <2>1, <2>2, <3>2, <3>3 DEF ItemsOf
  <2>5. CASE g \notin E /\ g \notin R
    <3>1. d1[g] = d[g]
        BY Zenon, <1>1, <2>5
    <3>2. (g \in DOMAIN gs1 <=> g \in DOMAIN gs) /\ (g \in DOMAIN gs => gs1[g] = gs[g])
        BY Zenon, <1>1, <2>5
    <3>3. QED
        BY Zenon, <2>1, <2>2, <3>1, <3>2 DEF ItemsOf
  <2>6. QED
      BY Zenon, <2>3, <2>4, <2>5
<1>4. DOMAIN gs1 \subseteq Group /\ d1 \in [Group -> Dir]
    BY Zenon, <1>1, <1>3 DEF Mirrors
<1>5. QED
    BY Zenon, <1>3, <1>4 DEF Sound, Mirrors, d1, gs1

LEMMA WithoutMirrors ==
    ASSUME NEW gs, NEW d, Sound(d), NEW W, Mirrors(d, gs, W), NEW N
    PROVE  /\ Sound(DiskWithout(d, N))
           /\ Mirrors(DiskWithout(d, N), GroupsWithout(gs, N), W)
<1> DEFINE d1 == DiskWithout(d, N)
           gs1 == GroupsWithout(gs, N)
<1>1. /\ d1 = [g \in Group |-> IF g \in N THEN NoDir ELSE d[g]]
      /\ gs1 = [n \in DOMAIN gs \ N |-> gs[n]]
    BY Zenon DEF DiskWithout, GroupsWithout, Restrict
<1> HIDE DEF d1, gs1
<1>2. ASSUME NEW g \in Group
      PROVE  /\ d1[g] \in Dir
             /\ ~d1[g].exists => d1[g].items = {}
             /\ d1[g].exists => d1[g].name # "missing"
             /\ d1[g].items # {} => d1[g].name = "whole"
             /\ d1[g].items = ItemsOf(gs1, g)
             /\ g \in DOMAIN gs1 => d1[g].exists /\ d1[g].name = "whole"
             /\ d1[g].exists => g \in DOMAIN gs1 \/ g \in W
  <2>1. CASE g \in N
      BY Zenon, <1>1, <2>1 DEF NoDir, Dir, ItemsOf
  <2>2. CASE g \notin N
      BY Zenon, <1>1, <2>2 DEF Sound, Mirrors, ItemsOf
  <2>3. QED
      BY Zenon, <2>1, <2>2
<1>3. DOMAIN gs1 \subseteq Group /\ d1 \in [Group -> Dir]
    BY Zenon, <1>1, <1>2 DEF Mirrors
<1>4. QED
    BY Zenon, <1>2, <1>3 DEF Sound, Mirrors, d1, gs1

\* What is loaded is what the disk holds once the empty directories are gone.
LEMMA LoadMirrors ==
    ASSUME Sound(disk), NEW gs \in LoadedGroups
    PROVE  LET d == DiskWithout(disk, LoadRemoves) IN Sound(d) /\ Mirrors(d, gs, {})
<1> DEFINE Full == Dirs \ EmptyDirs
           Names == {LoadedName(g) : g \in Full}
           d == DiskWithout(disk, LoadRemoves)
<1>1. \A g \in Full : LoadedName(g) = g
    BY Zenon DEF Sound, Dirs, EmptyDirs, LoadedName
<1>2. Names = Full
    BY Zenon, <1>1
<1>3. PICK pick \in [Names -> Full] : /\ \A n \in Names : LoadedName(pick[n]) = n
                                      /\ gs = [n \in Names |-> disk[pick[n]].items]
    BY Zenon DEF LoadedGroups
<1>4. \A n \in Full : pick[n] = n
    BY Zenon, <1>1, <1>2, <1>3
<1>5. gs = [g \in Full |-> disk[g].items]
    BY Zenon, <1>2, <1>3, <1>4
<1>6. d = [g \in Group |-> IF g \in EmptyDirs THEN NoDir ELSE disk[g]]
    BY Zenon DEF DiskWithout, LoadRemoves, Unnamed, Sound, Dirs, EmptyDirs
<1> HIDE DEF Names, d
<1>7. ASSUME NEW g \in Group
      PROVE  /\ d[g] \in Dir
             /\ ~d[g].exists => d[g].items = {}
             /\ d[g].exists => d[g].name # "missing"
             /\ d[g].items # {} => d[g].name = "whole"
             /\ d[g].items = ItemsOf(gs, g)
             /\ g \in DOMAIN gs => d[g].exists /\ d[g].name = "whole"
             /\ d[g].exists => g \in DOMAIN gs
  <2>1. CASE g \in EmptyDirs
      BY Zenon, <1>5, <1>6, <2>1 DEF NoDir, Dir, ItemsOf
  <2>2. CASE g \notin EmptyDirs
      BY Zenon, <1>5, <1>6, <2>2 DEF Sound, Dirs, EmptyDirs, ItemsOf
  <2>3. QED
      BY Zenon, <2>1, <2>2
<1>8. DOMAIN gs \subseteq Group /\ d \in [Group -> Dir]
    BY Zenon, <1>5, <1>6, <1>7 DEF Dirs
<1>9. QED
    BY Zenon, <1>7, <1>8 DEF Sound, Mirrors, d

\* add ends, in disk d, with its item in the group's directory and in memory.
LEMMA AddMirrors ==
    ASSUME NEW d, Sound(d), NEW W, NEW g \in Group, NEW i \in Item, Mirrors(d, groups, W),
           d[g].name = "whole",
           disk' = [d EXCEPT ![g] = DirWithItem(@, i)], groups' = WithItem(groups, g, i)
    PROVE  Sound(disk') /\ Mirrors(disk', groups', W \ {g})
<1> DEFINE dir == DirWithItem(d[g], i)
<1>1. d[g] \in Dir /\ dir = [d[g] EXCEPT !.exists = TRUE, !.items = d[g].items \cup {i}]
    BY Zenon DEF Sound, DirWithItem
<1>2. dir \in Dir /\ dir.exists = TRUE /\ dir.items = d[g].items \cup {i} /\ dir.name = "whole"
  <2> DEFINE its == d[g].items \cup {i}
             old == d[g]
  <2>1. its \in SUBSET Item
      BY Zenon, <1>1 DEF Dir
  <2>2. dir = [old EXCEPT !.exists = TRUE, !.items = its] /\ old \in Dir /\ old.name = "whole"
      BY Zenon, <1>1
  <2> HIDE DEF its, old, dir
  <2>3. dir \in Dir /\ dir.exists = TRUE /\ dir.items = its /\ dir.name = "whole"
      BY Zenon, <2>1, <2>2 DEF Dir
  <2>4. QED
      BY Zenon, <2>3 DEF its
<1> HIDE DEF dir
<1>3. disk' \in [Group -> Dir] /\ disk'[g] = dir /\ \A h \in Group \ {g} : disk'[h] = d[h]
    BY Zenon, <1>2 DEF Sound, dir
<1>4. /\ DOMAIN groups' = DOMAIN groups \cup {g} /\ groups'[g] = ItemsOf(groups, g) \cup {i}
      /\ \A h \in DOMAIN groups \ {g} : groups'[h] = groups[h]
    BY Zenon DEF WithItem
<1>5. \A h \in Group \ {g} : ItemsOf(groups', h) = ItemsOf(groups, h)
    BY Zenon, <1>4 DEF ItemsOf
<1>6. ItemsOf(groups', g) = dir.items
    BY Zenon, <1>2, <1>4 DEF ItemsOf, Mirrors
<1>7. Sound(disk')
    BY Zenon, <1>2, <1>3 DEF Sound
<1>8. Mirrors(disk', groups', W \ {g})
    BY Zenon, <1>2, <1>3, <1>4, <1>5, <1>6 DEF Mirrors
<1>9. QED
    BY Zenon, <1>7, <1>8

LEMMA AddOldStep ==
    ASSUME MirrorInv, Calm, NEW a \in Adder, NEW g \in Group, NEW i \in Item,
           NEW ok \in BOOLEAN, AddToOld(a, g, i, ok)
    PROVE  MirrorInv'
<1>1. NobodyAdds /\ adding' = [adding EXCEPT ![a] = Idle] /\ state = "up" /\ UNCHANGED state
    BY Zenon DEF AddToOld, CompleteAdd, Calm
<1>2. Busy = {} /\ Busy' = {} /\ adding' = adding
    BY <1>1 DEF Busy, NobodyAdds, MirrorInv
<1>3. disk' = [disk EXCEPT ![g] = DirWithItem(@, i)] /\ groups' = WithItem(groups, g, i)
    BY Zenon DEF AddToOld, CompleteAdd, Calm
<1>4. Sound(disk) /\ Mirrors(disk, groups, {}) /\ disk[g].name = "whole"
    BY Zenon, <1>1, <1>2 DEF MirrorInv, AddToOld, Mirrors
<1>5. Sound(disk') /\ Mirrors(disk', groups', {} \ {g})
    BY Zenon, <1>3, <1>4, AddMirrors
<1>6. \A b \in Adder : adding'[b] = Idle
    BY Zenon, <1>1, <1>2 DEF NobodyAdds
<1>7. QED
    BY Zenon, <1>1, <1>2, <1>5, <1>6 DEF MirrorInv

LEMMA AddNewStep ==
    ASSUME MirrorInv, Calm, NEW a \in Adder, NEW g \in Group, NEW i \in Item, AddToNew(a, g, i)
    PROVE  MirrorInv'
<1>1. /\ NobodyAdds /\ state = "up" /\ ~disk[g].exists /\ UNCHANGED <<state, groups>>
      /\ disk' = [disk EXCEPT ![g] = NewDir(a)]
      /\ adding' = [adding EXCEPT ![a] = Writing(g, i)]
    BY Zenon DEF AddToNew, Calm
<1>2. Sound(disk) /\ Mirrors(disk, groups, {})
    BY Zenon, <1>1 DEF MirrorInv, Busy, NobodyAdds
<1>3. /\ NewDir(a) \in Dir /\ NewDir(a).exists = TRUE /\ NewDir(a).items = {}
      /\ NewDir(a).name = "empty" /\ NewDir(a).maker = a
    BY Zenon DEF NewDir, NoDir, Dir
<1>4. /\ disk' \in [Group -> Dir] /\ disk'[g] = NewDir(a)
      /\ \A h \in Group \ {g} : disk'[h] = disk[h]
    BY Zenon, <1>1, <1>2, <1>3 DEF Sound
<1>5. g \notin DOMAIN groups /\ ItemsOf(groups, g) = {}
    BY Zenon, <1>1, <1>2 DEF Mirrors, ItemsOf
<1>6. /\ adding' \in [Adder -> Adding] /\ adding'[a] = Writing(g, i) /\ Writing(g, i) # Idle
      /\ \A b \in Adder \ {a} : adding'[b] = Idle
    BY <1>1 DEF MirrorInv, NobodyAdds, Adding, Writing, Idle
<1>7. Writing(g, i).group = g
    BY Zenon DEF Writing
<1>8. Busy' = {g}
    BY Zenon, <1>6, <1>7 DEF Busy
<1>9. Sound(disk')
    BY Zenon, <1>2, <1>3, <1>4 DEF Sound
<1>10. Mirrors(disk', groups', {g})
    BY Zenon, <1>1, <1>2, <1>3, <1>4, <1>5 DEF Mirrors
<1>11. \A b \in Adder : adding'[b] # Idle => b = a
    BY Zenon, <1>6
<1>12. QED
    BY Zenon, <1>1, <1>3, <1>4, <1>5, <1>6, <1>7, <1>8, <1>9, <1>10, <1>11 DEF MirrorInv

LEMMA WrittenStep ==
    ASSUME MirrorInv, Calm, NEW a \in Adder, NEW ok \in BOOLEAN, Written(a, ok)
    PROVE  MirrorInv'
<1> DEFINE g == adding[a].group
           i == adding[a].item
           d == NameWritten(a, disk, g)
<1>1. /\ state = "up" /\ UNCHANGED state /\ adding[a] # Idle
      /\ adding' = [adding EXCEPT ![a] = Idle]
      /\ disk' = [d EXCEPT ![g] = DirWithItem(@, i)] /\ groups' = WithItem(groups, g, i)
    BY Zenon DEF Written, CompleteAdd, Calm
<1>2. g \in Group /\ i \in Item
    BY <1>1 DEF MirrorInv, Adding, Writing
<1>3. /\ disk[g].exists /\ disk[g].maker = a /\ g \notin DOMAIN groups
      /\ \A b \in Adder : adding[b] # Idle => b = a
    BY Zenon, <1>1 DEF MirrorInv
<1>4. Busy = {g}
    BY Zenon, <1>1, <1>3 DEF Busy
<1>5. Sound(disk) /\ Mirrors(disk, groups, {g})
    BY Zenon, <1>1, <1>4 DEF MirrorInv
<1>6. d = [disk EXCEPT ![g].name = "whole"]
    BY Zenon, <1>3 DEF NameWritten
<1> HIDE DEF d, g, i
<1>7. /\ d \in [Group -> Dir] /\ d[g].name = "whole" /\ d[g].items = disk[g].items
      /\ d[g].exists = disk[g].exists /\ \A h \in Group \ {g} : d[h] = disk[h]
    BY Zenon, <1>2, <1>5, <1>6 DEF Sound, Dir
<1>8. Sound(d)
    BY Zenon, <1>5, <1>7 DEF Sound
<1>9. Mirrors(d, groups, {g})
    BY Zenon, <1>2, <1>3, <1>5, <1>7 DEF Mirrors
<1>10. Sound(disk') /\ Mirrors(disk', groups', {g} \ {g})
    BY Zenon, <1>1, <1>2, <1>7, <1>8, <1>9, AddMirrors
<1>11. adding' \in [Adder -> Adding] /\ \A b \in Adder : adding'[b] = Idle
    BY <1>1, <1>3 DEF MirrorInv, Adding
<1>12. Busy' = {} /\ {g} \ {g} = {}
    BY Zenon, <1>11 DEF Busy
<1>13. QED
    BY Zenon, <1>1, <1>10, <1>11, <1>12 DEF MirrorInv

LEMMA RemoveStep ==
    ASSUME MirrorInv, Calm, NEW i, remove(i)
    PROVE  MirrorInv'
<1>1. /\ groups' = GroupsAfterRemove(groups, disk, {i})
      /\ disk' = DiskAfterRemove(groups, disk, {i})
      /\ state = "up" /\ UNCHANGED <<state, adding>>
    BY Zenon DEF remove
<1>2. Busy' = Busy /\ Sound(disk) /\ Mirrors(disk, groups, Busy)
    BY <1>1 DEF Busy, MirrorInv
<1>3. Sound(disk') /\ Mirrors(disk', groups', Busy)
    BY Zenon, <1>1, <1>2, RemoveMirrors
<1>4. DOMAIN groups' \subseteq DOMAIN groups
  <2>1. DOMAIN GroupsAfterRemove(groups, disk, {i}) = DOMAIN groups \ Emptied(groups, disk, {i})
      BY Zenon, DomainAfterRemove
  <2>2. QED
      BY Zenon, <1>1, <2>1
<1>5. ASSUME NEW g \in Group, g \notin DOMAIN groups PROVE disk'[g] = disk[g]
  <2>1. g \notin Emptied(groups, disk, {i}) /\ g \notin Removing(groups, disk, {i})
      BY Zenon, <1>5 DEF Emptied, Removing
  <2>2. QED
      BY Zenon, <1>1, <2>1 DEF DiskAfterRemove
<1>6. ASSUME NEW a \in Adder, adding[a] # Idle PROVE adding[a].group \in Group
    BY <1>6 DEF MirrorInv, Adding, Writing
<1>7. QED
    BY <1>1, <1>2, <1>3, <1>4, <1>5, <1>6 DEF MirrorInv

LEMMA PinStep ==
    ASSUME MirrorInv, Calm, NEW g \in Group, pin_group(g) \/ unpin_group(g)
    PROVE  MirrorInv'
<1>1. UNCHANGED <<state, groups, adding>> /\ state = "up" /\ Busy' = Busy
    BY DEF pin_group, unpin_group, Busy
<1>2. PICK p \in BOOLEAN : disk' = [disk EXCEPT ![g].pin = p]
    BY Zenon DEF pin_group, unpin_group
<1>3. disk \in [Group -> Dir]
    BY Zenon DEF MirrorInv, Sound
<1>4. /\ disk' \in [Group -> Dir]
      /\ \A h \in Group : /\ disk'[h].exists = disk[h].exists /\ disk'[h].name = disk[h].name
                          /\ disk'[h].items = disk[h].items /\ disk'[h].maker = disk[h].maker
    BY Zenon, <1>2, <1>3 DEF Dir
<1>5. Sound(disk')
    BY Zenon, <1>4 DEF MirrorInv, Sound
<1>6. Mirrors(disk', groups', Busy')
    BY Zenon, <1>1, <1>4 DEF MirrorInv, Mirrors
<1>7. ASSUME NEW a \in Adder, adding[a] # Idle PROVE adding[a].group \in Group
    BY <1>7 DEF MirrorInv, Adding, Writing
<1>8. QED
    BY Zenon, <1>1, <1>4, <1>5, <1>6, <1>7 DEF MirrorInv

LEMMA StopsStep ==
    ASSUME MirrorInv, Calm, CCrash
    PROVE  MirrorInv'
<1>1. Crash
    BY Zenon DEF CCrash, CrashInside, Calm
<1>2. PICK A \in SUBSET {a \in Adder : adding[a] # Idle} :
        disk' = [g \in Group |-> IF \E a \in A : adding[a].group = g /\ disk[g].maker = a
                                 THEN [disk[g] EXCEPT !.name = "whole"] ELSE disk[g]]
    BY Zenon, <1>1 DEF Crash
<1>3. state' = "down" /\ adding' = [a \in Adder |-> Idle]
    BY Zenon, <1>1 DEF Crash, Stop
<1>4. \A a \in A : disk[adding[a].group].exists
    BY Zenon DEF MirrorInv
<1>5. ASSUME NEW g \in Group
      PROVE  /\ disk'[g] \in Dir
             /\ ~disk'[g].exists => disk'[g].items = {}
             /\ disk'[g].exists => disk'[g].name # "missing"
             /\ disk'[g].items # {} => disk'[g].name = "whole"
  <2>1. /\ disk[g] \in Dir
        /\ ~disk[g].exists => disk[g].items = {}
        /\ disk[g].exists => disk[g].name # "missing"
        /\ disk[g].items # {} => disk[g].name = "whole"
      BY Zenon DEF MirrorInv, Sound
  <2>2. disk'[g] = [disk[g] EXCEPT !.name = "whole"] \/ disk'[g] = disk[g]
      BY Zenon, <1>2
  <2>3. QED
      BY Zenon, <2>1, <2>2 DEF Dir
<1>6. Sound(disk')
    BY Zenon, <1>2, <1>5 DEF Sound
<1>7. QED
    BY <1>3, <1>6 DEF MirrorInv, Adding

LEMMA BuildStep ==
    ASSUME MirrorInv, Calm, Build
    PROVE  MirrorInv'
<1>1. Sound(disk) /\ Unnamed = {} /\ state = "down"
    BY Zenon DEF MirrorInv, Sound, Unnamed, Dirs, Build
<1>2. \A a \in Adder : adding[a] = Idle
    BY Zenon, <1>1 DEF MirrorInv
<1>3. PICK gs \in LoadedGroups : CheckLoaded(gs, DiskWithout(disk, LoadRemoves))
    BY Zenon, <1>1 DEF Build, LoadFails
<1> DEFINE d == DiskWithout(disk, LoadRemoves)
<1>4. Sound(d) /\ Mirrors(d, gs, {})
    BY Zenon, <1>1, LoadMirrors
<1> HIDE DEF d
<1> DEFINE Dead == {i \in Item : stored[i] = "old" /\ ~is_pinned_item(gs, d, i)}
           gs1 == GroupsAfterRemove(gs, d, Dead)
           d1 == DiskAfterRemove(gs, d, Dead)
           s1 == [i \in Item |-> IF i \in Dead \/ stored[i] = "foreign" THEN "none" ELSE stored[i]]
           bad == BadGroups(gs1, s1)
           gs2 == GroupsWithout(gs1, bad)
           d2 == DiskWithout(d1, bad)
           I == BadItems(gs1, s1)
<1>5. groups' = GroupsAfterRemove(gs2, d2, I) /\ disk' = DiskAfterRemove(gs2, d2, I)
    BY Zenon, <1>3 DEF CheckLoaded, d
<1> HIDE DEF Dead, s1
<1>6. Sound(d1) /\ Mirrors(d1, gs1, {})
    BY Zenon, <1>4, RemoveMirrors
<1> HIDE DEF gs1, d1, bad, I
<1>7. Sound(d2) /\ Mirrors(d2, gs2, {})
    BY Zenon, <1>6, WithoutMirrors
<1> HIDE DEF gs2, d2
<1>8. Sound(disk') /\ Mirrors(disk', groups', {})
    BY Zenon, <1>5, <1>7, RemoveMirrors
<1>9. state' = "up" /\ UNCHANGED adding
    BY Zenon, <1>1 DEF Build, LoadFails
<1>10. Busy' = {}
    BY Zenon, <1>2, <1>9 DEF Busy
<1>11. QED
    BY Zenon, <1>2, <1>8, <1>9, <1>10 DEF MirrorInv

LEMMA MayKept == ASSUME [CNext]_cvars PROVE may' = may
    BY Zenon DEF CNext, cvars, vars, StoreBegins, StoreFails, StoredToNewGroup, GroupNotAdded,
       StoredToOldGroup, GroupAdded, Enable, Pin, WalkStep, WalkBegins, Visit, HeadUnreadable,
       keep_cache_entry, local_purge, Age, CCrash, AddToNew, AddToOld, Written, WriteFails, Cancelled,
       pin_group, unpin_group, unpublish_cache_entry, remove, Crash, CrashInside, Stop, Build,
       LoadFails

LEMMA MirrorKept ==
    ASSUME MirrorInv, UNCHANGED <<state, groups, disk, adding>>
    PROVE  MirrorInv'
    BY DEF MirrorInv, Busy, Mirrors, Sound

LEMMA MirrorStep ==
    AnnounceInv /\ (Calm => MirrorInv) /\ [CNext]_cvars => (Calm => MirrorInv)'
<1> SUFFICES ASSUME AnnounceInv, MirrorInv, Calm, [CNext]_cvars PROVE MirrorInv'
  <2>1. ASSUME [CNext]_cvars PROVE Calm' => Calm
      BY Zenon, <2>1, MayKept DEF Calm
  <2>2. QED
      BY Zenon, <2>1
<1>1. ASSUME NEW a \in Adder, saving[a].pc \in {"http", "group"}
      PROVE  saving[a].group \in Group /\ saving[a].item \in Item
    BY <1>1 DEF AnnounceInv, NoSave, Saving
<1>2. ASSUME UNCHANGED vars PROVE MirrorInv'
    BY Zenon, <1>2, MirrorKept DEF vars
<1>3. ASSUME NEW a \in Adder, StoredToNewGroup(a) PROVE MirrorInv'
    BY Zenon, <1>1, <1>3, AddNewStep DEF StoredToNewGroup
<1>4. ASSUME NEW a \in Adder, GroupNotAdded(a) PROVE FALSE
    BY Zenon, <1>4 DEF GroupNotAdded, WriteFails, Cancelled, Calm
<1>5. ASSUME NEW a \in Adder, NEW ok \in BOOLEAN, StoredToOldGroup(a, ok) PROVE MirrorInv'
    BY Zenon, <1>1, <1>5, AddOldStep DEF StoredToOldGroup
<1>6. ASSUME NEW a \in Adder, NEW ok \in BOOLEAN, GroupAdded(a, ok) PROVE MirrorInv'
    BY Zenon, <1>6, WrittenStep DEF GroupAdded
<1>7. ASSUME NEW g \in Group, Pin(g) PROVE MirrorInv'
    BY Zenon, <1>7, PinStep DEF Pin
<1>8. ASSUME NEW i \in Item, keep_cache_entry(i) PROVE MirrorInv'
    BY Zenon, <1>2, <1>8, RemoveStep DEF keep_cache_entry, unpublish_cache_entry
<1>9. ASSUME NEW i \in Item, local_purge(i) PROVE MirrorInv'
    BY Zenon, <1>9, RemoveStep DEF local_purge, unpublish_cache_entry
<1>10. CASE CCrash \/ Build
    BY Zenon, <1>10, StopsStep, BuildStep
<1>11. ASSUME NEW a \in Adder, StoreFails(a) \/ \E g \in Group, i \in Item : StoreBegins(a, g, i)
       PROVE  UNCHANGED vars
    BY Zenon, <1>11 DEF StoreFails, StoreBegins
<1>12. ASSUME NEW w \in Walker, WalkBegins(w) \/ \E i \in Item : Visit(w, i) \/ HeadUnreadable(w, i)
       PROVE  UNCHANGED vars
    BY Zenon, <1>12 DEF WalkBegins, Visit, HeadUnreadable
<1>13. CASE UNCHANGED cvars \/ (\E x \in Announcer : Enable(x)) \/ \E i \in Item : Age(i)
    BY Zenon, <1>2, <1>13 DEF cvars, Enable, Age
<1>14. QED
    BY Zenon, <1>2, <1>3, <1>4, <1>5, <1>6, <1>7, <1>8, <1>9, <1>10, <1>11, <1>12, <1>13
    DEF CNext, WalkStep

\* While only one coroutine adds at a time and the process stops only between
\* file operations, the disk always holds what memory holds, for any index,
\* across any number of restarts.
THEOREM DiskIsMemory == CSpec => []DiskMirrorsMemory
<1>1. (Calm => MirrorInv) => DiskMirrorsMemory
  <2> SUFFICES ASSUME Calm, MirrorInv PROVE DiskMirrorsMemory
      BY Zenon DEF DiskMirrorsMemory
  <2>1. ASSUME NEW g \in Busy PROVE \E a \in Adder : adding[a] # Idle /\ adding[a].group = g
      BY Zenon DEF Busy
  <2>2. QED
      BY Zenon, <2>1 DEF MirrorInv, Mirrors, DiskMirrorsMemory
<1>2. CInit => (Calm => MirrorInv)
    BY Zenon, MirrorInit
<1>3. QED
    BY AnnounceInit, AnnounceStep, MirrorStep, <1>1, <1>2, PTL DEF CSpec

-----------------------------------------------------------------------------
(***************************************************************************)
(* Entries of the HTTP store can be found through the index.               *)
(***************************************************************************)
\* Nothing fails and the process does not stop: calls of store may overlap.
Faultless == may \subseteq {"overlap"}

\* Some call of store has committed item i and is still adding it to a group.
Entering(i) == \E a \in Adder : saving[a].pc = "group" /\ saving[a].item = i

Indexed(i) == \E n \in DOMAIN groups : i \in groups[n]

\* An entry that was stored is in the index or about to be.  Before the client
\* is up there are only entries that an older version left.
EntryInv ==
  /\ stored \in [Item -> {"none", "foreign", "fresh", "old"}]
  /\ \A i \in Item : stored[i] \in {"fresh", "old"} =>
       state = "up" /\ (Indexed(i) \/ Entering(i))

LEMMA EntryInit == CInit => EntryInv
    BY Zenon DEF CInit, Init, EntryInv

\* Removing an item leaves the other items, and the item in a pinned group,
\* where they were.
LEMMA OthersStay ==
    ASSUME NEW gs, NEW d, NEW j, NEW n \in DOMAIN gs, NEW i \in gs[n],
           i # j \/ is_pinned(d, n)
    PROVE  /\ n \in DOMAIN GroupsAfterRemove(gs, d, {j})
           /\ i \in GroupsAfterRemove(gs, d, {j})[n]
<1>1. n \notin Emptied(gs, d, {j})
    BY Zenon DEF Emptied, Removing
<1>2. n \in DOMAIN GroupsAfterRemove(gs, d, {j})
    BY Zenon, <1>1 DEF GroupsAfterRemove
<1>3. GroupsAfterRemove(gs, d, {j})[n] = IF n \in Removing(gs, d, {j}) THEN gs[n] \ {j} ELSE gs[n]
    BY Zenon, <1>1 DEF GroupsAfterRemove
<1>4. QED
    BY Zenon, <1>2, <1>3 DEF Removing

\* An item that is added is in the index, and so is what was in it.
LEMMA AddedIsIndexed ==
    ASSUME NEW g, NEW i, groups' = WithItem(groups, g, i)
    PROVE  Indexed(i)' /\ \A j : Indexed(j) => Indexed(j)'
<1>1. DOMAIN groups' = DOMAIN groups \cup {g}
    BY Zenon, DomainWithItem
<1>2. groups'[g] = ItemsOf(groups, g) \cup {i}
    BY Zenon DEF WithItem
<1>3. \A n \in DOMAIN groups : groups[n] \subseteq groups'[n]
    BY Zenon DEF WithItem, ItemsOf
<1>4. QED
    BY Zenon, <1>1, <1>2, <1>3 DEF Indexed

\* Only coroutine a goes on: the other items being entered still are.
LEMMA EnteringKept ==
    ASSUME AnnounceInv, NEW a \in Adder, NEW s, saving' = [saving EXCEPT ![a] = s], NEW j
    PROVE  /\ Entering(j) => Entering(j)' \/ (saving[a].pc = "group" /\ saving[a].item = j)
           /\ s.pc = "group" /\ s.item = j => Entering(j)'
<1>1. saving'[a] = s /\ \A b \in Adder : b # a => saving'[b] = saving[b]
    BY DEF AnnounceInv
<1>2. QED
    BY Zenon, <1>1 DEF Entering

\* The item of the step is stored and is or will be in the index.
LEMMA EntryStored ==
    ASSUME AnnounceInv, EntryInv, Faultless, NEW a \in Adder,
           StoredToNewGroup(a) \/ \E ok \in BOOLEAN : StoredToOldGroup(a, ok)
    PROVE  EntryInv'
<1>1. PICK i \in Item, g \in Group : saving[a] = [pc |-> "http", group |-> g, item |-> i]
    BY DEF AnnounceInv, StoredToNewGroup, StoredToOldGroup, NoSave, Saving
<1>2. stored' = [stored EXCEPT ![i] = "fresh"] /\ state' = "up"
    BY <1>1 DEF StoredToNewGroup, StoredToOldGroup, AddToNew, AddToOld
<1> saving[a].pc # "group"
    BY <1>1
<1>3. CASE StoredToNewGroup(a)
  <2> DEFINE s == [saving[a] EXCEPT !.pc = "group"]
  <2>1. saving' = [saving EXCEPT ![a] = s] /\ groups' = groups
      BY Zenon, <1>3 DEF StoredToNewGroup, AddToNew
  <2>2. s.pc = "group" /\ s.item = i
      BY <1>1
  <2> HIDE DEF s
  <2>3. \A j : Entering(j) => Entering(j)'
      BY Zenon, <2>1, EnteringKept
  <2>4. Entering(i)'
      BY Zenon, <2>1, <2>2, EnteringKept
  <2>5. \A j : Indexed(j) => Indexed(j)'
      BY Zenon, <2>1 DEF Indexed
  <2>6. QED
      BY Zenon, <1>1, <1>2, <2>3, <2>4, <2>5 DEF EntryInv
<1>4. ASSUME NEW ok \in BOOLEAN, StoredToOldGroup(a, ok) PROVE EntryInv'
  <2>1. groups' = WithItem(groups, g, i)
      BY <1>1, <1>4 DEF StoredToOldGroup, AddToOld, CompleteAdd, Faultless
  <2>2. saving' = [saving EXCEPT ![a] = NoSave]
      BY Zenon, <1>4 DEF StoredToOldGroup
  <2>3. Indexed(i)' /\ \A j : Indexed(j) => Indexed(j)'
      BY Zenon, <2>1, AddedIsIndexed
  <2>4. \A j : Entering(j) => Entering(j)'
      BY Zenon, <2>2, EnteringKept
  <2>5. QED
      BY Zenon, <1>1, <1>2, <2>3, <2>4 DEF EntryInv
<1>5. QED
    BY Zenon, <1>3, <1>4

\* The item that was being entered is in the index.
LEMMA EntryAdded ==
    ASSUME AnnounceInv, EntryInv, Faultless, NEW a \in Adder, NEW ok \in BOOLEAN,
           GroupAdded(a, ok)
    PROVE  EntryInv'
<1>1. PICK i \in Item, g \in Group : saving[a] = [pc |-> "group", group |-> g, item |-> i]
    BY DEF AnnounceInv, GroupAdded, NoSave, Saving
<1> state' = "up" /\ stored' = stored /\ adding[a] = Writing(g, i)
    BY <1>1 DEF AnnounceInv, GroupAdded, Written
<1>2. adding[a].group = g /\ adding[a].item = i
    BY DEF Writing
<1>3. groups' = WithItem(groups, g, i)
    BY Zenon, <1>2 DEF GroupAdded, Written, CompleteAdd, Faultless
<1>4. saving' = [saving EXCEPT ![a] = NoSave]
    BY Zenon DEF GroupAdded
<1>5. Indexed(i)' /\ \A j : Indexed(j) => Indexed(j)'
    BY Zenon, <1>3, AddedIsIndexed
<1>6. \A j : Entering(j) => Entering(j)' \/ j = i
  <2>1. saving[a].item = i
      BY <1>1
  <2>2. QED
      BY Zenon, <1>4, <2>1, EnteringKept
<1>7. QED
    BY Zenon, <1>5, <1>6 DEF EntryInv

\* What is unpublished is removed as well, unless a pinned group holds it.
LEMMA EntryRemoved ==
    ASSUME EntryInv, NEW i \in Item, remove(i), UNCHANGED saving,
           \/ stored' = [stored EXCEPT ![i] = "none"]
           \/ MetPinned(i) /\ stored' = stored
    PROVE  EntryInv'
<1>1. groups' = GroupsAfterRemove(groups, disk, {i}) /\ state' = "up" /\ state = "up"
    BY Zenon DEF remove
<1>2. ASSUME NEW j, j # i, Indexed(j) PROVE Indexed(j)'
  <2>1. PICK n \in DOMAIN groups : j \in groups[n]
      BY Zenon, <1>2 DEF Indexed
  <2>2. n \in DOMAIN groups' /\ j \in groups'[n]
      BY Zenon, <1>1, <1>2, <2>1, OthersStay
  <2>3. QED
      BY Zenon, <2>2 DEF Indexed
<1>3. MetPinned(i) => Indexed(i)'
  <2> SUFFICES ASSUME MetPinned(i) PROVE Indexed(i)'
      BY Zenon
  <2>1. PICK n \in DOMAIN groups : i \in groups[n] /\ is_pinned(disk, n)
      BY Zenon DEF MetPinned
  <2>2. n \in DOMAIN groups' /\ i \in groups'[n]
      BY Zenon, <1>1, <2>1, OthersStay
  <2>3. QED
      BY Zenon, <2>2 DEF Indexed
<1>4. \A j : Entering(j) => Entering(j)'
    BY Zenon DEF Entering
<1>5. QED
    BY Zenon, <1>1, <1>2, <1>3, <1>4 DEF EntryInv

\* A step that adds no entry and leaves the index and the calls of store.
LEMMA EntryKept ==
    ASSUME EntryInv, UNCHANGED <<state, groups>>, \A j : Entering(j) => Entering(j)',
           \/ UNCHANGED stored
           \/ \E i \in Item : RemoveEntry(i)
           \/ \E i \in Item : stored[i] = "fresh" /\ stored' = [stored EXCEPT ![i] = "old"]
    PROVE  EntryInv'
<1>1. \A j : Indexed(j) => Indexed(j)'
    BY Zenon DEF Indexed
<1>2. QED
    BY Zenon, <1>1 DEF EntryInv, RemoveEntry

LEMMA EntryStep ==
    AnnounceInv /\ (Faultless => EntryInv) /\ [CNext]_cvars => (Faultless => EntryInv)'
<1> SUFFICES ASSUME AnnounceInv, EntryInv, Faultless, [CNext]_cvars PROVE EntryInv'
  <2>1. ASSUME [CNext]_cvars PROVE Faultless' => Faultless
      BY Zenon, <2>1, MayKept DEF Faultless
  <2>2. QED
      BY Zenon, <2>1
<1>1. ASSUME UNCHANGED saving PROVE \A j : Entering(j) => Entering(j)'
    BY Zenon, <1>1 DEF Entering
<1>2. ASSUME NEW a \in Adder, StoreFails(a) \/ \E g \in Group, i \in Item : StoreBegins(a, g, i)
      PROVE  EntryInv'
  <2>1. PICK s : saving' = [saving EXCEPT ![a] = s]
      BY Zenon, <1>2 DEF StoreFails, StoreBegins
  <2>2. saving[a].pc # "group" /\ UNCHANGED <<state, groups, stored>>
      BY <1>2 DEF StoreFails, StoreBegins, vars, NoSave
  <2>3. \A j : Entering(j) => Entering(j)'
      BY Zenon, <2>1, <2>2, EnteringKept
  <2>4. QED
      BY Zenon, <2>2, <2>3, EntryKept
<1>3. ASSUME NEW a \in Adder, GroupNotAdded(a) PROVE FALSE
    BY Zenon, <1>3 DEF GroupNotAdded, WriteFails, Cancelled, Faultless
<1>4. ASSUME NEW i \in Item, keep_cache_entry(i) PROVE EntryInv'
  <2>1. CASE UNCHANGED vars
      BY Zenon, <1>1, <1>4, <2>1, EntryKept DEF keep_cache_entry, vars
  <2>2. CASE unpublish_cache_entry(i) /\ RemoveEntry(i)
      BY Zenon, <1>4, <2>2, EntryRemoved DEF keep_cache_entry, unpublish_cache_entry, RemoveEntry
  <2>3. QED
      BY Zenon, <1>4, <2>1, <2>2 DEF keep_cache_entry
<1>5. ASSUME NEW i \in Item, local_purge(i) PROVE EntryInv'
    BY Zenon, <1>5, EntryRemoved DEF local_purge, unpublish_cache_entry, RemoveEntry
<1>6. ASSUME NEW g \in Group, Pin(g) PROVE EntryInv'
    BY Zenon, <1>1, <1>6, EntryKept DEF Pin, pin_group, unpin_group
<1>7. CASE \E x \in Announcer : Enable(x)
    BY Zenon, <1>1, <1>7, EntryKept DEF Enable, vars
<1>8. CASE \E w \in Walker : WalkBegins(w) \/ \E i \in Item : Visit(w, i) \/ HeadUnreadable(w, i)
    BY Zenon, <1>1, <1>8, EntryKept DEF WalkBegins, Visit, HeadUnreadable, vars
<1>9. ASSUME NEW i \in Item, Age(i) PROVE EntryInv'
    BY Zenon, <1>1, <1>9, EntryKept DEF Age, vars
<1>10. CASE CCrash
    BY Zenon, <1>10 DEF CCrash, Crash, CrashInside, Faultless
<1>11. CASE Build
  <2>1. \A i \in Item : stored[i] \in {"none", "foreign"}
      BY Zenon, <1>11 DEF Build, EntryInv
  <2>2. stored' = stored \/ \A i \in Item : stored'[i] = "none"
      BY Zenon, <1>11, <2>1 DEF Build, CheckLoaded
  <2>3. stored' \in [Item -> {"none", "foreign", "fresh", "old"}]
      BY Zenon, <1>11 DEF Build, CheckLoaded, EntryInv
  <2>4. QED
      BY Zenon, <2>1, <2>2, <2>3 DEF EntryInv
<1>12. CASE UNCHANGED cvars
    BY Zenon, <1>1, <1>12, EntryKept DEF cvars, vars
<1>13. QED
    BY Zenon, <1>2, <1>3, <1>4, <1>5, <1>6, <1>7, <1>8, <1>9, <1>10, <1>11, <1>12, EntryStored, EntryAdded
    DEF CNext, WalkStep

\* Without failures, however calls of store, collections, purges and pins
\* overlap, an entry that no call of store is working on can be found through
\* a group, for any index.
THEOREM StoredIsIndexed == CSpec => []EntriesAreIndexed
<1>1. (Faultless => EntryInv) => EntriesAreIndexed
  <2> SUFFICES ASSUME Faultless, EntryInv, NEW i \in Item, stored[i] \in {"fresh", "old"},
                      \A a \in Adder : saving[a] = NoSave \/ saving[a].item # i
               PROVE  \E n \in DOMAIN groups : i \in groups[n]
      BY Zenon DEF EntriesAreIndexed, Faultless
  <2>1. ~Entering(i)
      BY DEF Entering, NoSave
  <2>2. QED
      BY Zenon, <2>1 DEF EntryInv, Indexed
<1>2. CInit => (Faultless => EntryInv)
    BY Zenon, EntryInit
<1>3. QED
    BY AnnounceInit, AnnounceStep, EntryStep, <1>1, <1>2, PTL DEF CSpec
=============================================================================
