---------------------------- MODULE NetworkProofs ----------------------------
(***************************************************************************)
(* Proofs about Bep5Client, for any swarms, caches of any size and any     *)
(* number of calls, and about UPnPUpdater, for every set of devices, every *)
(* lease and margin, and rounds of any length.                             *)
(***************************************************************************)
EXTENDS Bep5Client, UPnPUpdater, FiniteSetTheorems, TLAPS

-----------------------------------------------------------------------------
(***************************************************************************)
(* Bep5Client: FailureIsExhaustive and HelperNeedsInjector.                *)
(***************************************************************************)

Sequence(q) == \E S : q \in Seq(S)

\* The coroutines of connect() that still count.
Active == {s \in Swarm : lookup[s] \in {"start", "wait", "ready", "sent"}}

\* No endpoint is twice in a list of candidates.
Distinct(list) == \A c, d \in list : c.ep = d.ep => c = d

Candidate(c) == c = [ep |-> c.ep, type |-> c.type] /\ c.type \in Swarm

CallShape ==
    /\ call = [pc |-> call.pc, target |-> call.target, n |-> call.n,
               cancelled |-> call.cancelled, open |-> call.open, jobs |-> call.jobs,
               result |-> call.result]
    /\ call.pc \in {"idle", "receive", "pick", "join"}
    /\ call.cancelled \in BOOLEAN /\ call.open \in BOOLEAN /\ call.jobs \in Nat
    /\ call.target \subseteq Swarm

\* Every endpoint that was offered is tried once, is a candidate, or is in the
\* channel, ...
ListsInv ==
    /\ Sequence(channel)
    /\ \A i \in 1 .. Len(channel) : Distinct(channel[i]) /\ \A c \in channel[i] : Candidate(c)
    /\ Distinct(candidates)
    /\ \A c \in candidates : Candidate(c) /\ c.ep \notin used
    /\ \A e : e \in offered <=> \/ e \in used
                                \/ \E c \in candidates : c.ep = e
                                \/ \E i \in 1 .. Len(channel) : \E c \in channel[i] : c.ep = e
    /\ tries \in [Endpoint -> Nat]
    /\ \A e \in Endpoint : tries[e] = IF e \in used THEN 1 ELSE 0

\* ... and while no attempt has succeeded the channel is open until the last
\* lookup has sent what it found.
CallInv ==
    /\ CallShape
    /\ lookup \in [Swarm -> {"none", "start", "wait", "ready", "sent", "done"}]
    /\ \A a \in attempts : a = [ep |-> a.ep, type |-> a.type, stage |-> a.stage]
                           /\ a.type \in Swarm
    /\ call.cancelled => call.result # NoPeer
    /\ call.pc \in {"idle", "receive"} => candidates = {}
    /\ call.pc = "idle" => \A s \in Swarm : lookup[s] = "none"
    /\ ~call.cancelled /\ call.pc # "idle" =>
          /\ \A s \in Swarm : lookup[s] = "none" <=> s \notin call.target
          /\ call.jobs = Cardinality(Active)
          /\ call.open <=> call.jobs > 0
    /\ ~call.cancelled /\ call.pc = "join" =>
          candidates = {} /\ channel = <<>> /\ ~call.open

SeenInv == announced = TRUE /\ evidence \in BOOLEAN /\ seen \in BOOLEAN /\ (seen => evidence)

-----------------------------------------------------------------------------
(***************************************************************************)
(* Sequences of sets, and finite sets of swarms.                           *)
(***************************************************************************)
LEMMA AppendSequence ==
    ASSUME NEW q, Sequence(q), NEW x
    PROVE  /\ Sequence(Append(q, x))
           /\ Len(q) \in Nat /\ Len(Append(q, x)) = Len(q) + 1
           /\ \A i \in 1 .. Len(q) : Append(q, x)[i] = q[i]
           /\ Append(q, x)[Len(q) + 1] = x
<1>1. PICK S : q \in Seq(S)
    BY Zenon DEF Sequence
<1>2. q \in Seq(S \cup {x}) /\ x \in S \cup {x}
    BY <1>1
<1>3. Append(q, x) \in Seq(S \cup {x})
    BY <1>2
<1>4. QED
    BY <1>2, <1>3 DEF Sequence

LEMMA TailSequence ==
    ASSUME NEW q, Sequence(q), q # <<>>
    PROVE  /\ Sequence(Tail(q)) /\ Head(q) = q[1]
           /\ Len(q) \in Nat \ {0} /\ Len(Tail(q)) = Len(q) - 1
           /\ \A i \in 1 .. Len(q) - 1 : Tail(q)[i] = q[i + 1]
<1>1. PICK S : q \in Seq(S)
    BY Zenon DEF Sequence
<1>2. Tail(q) \in Seq(S)
    BY <1>1
<1>3. QED
    BY <1>1, <1>2 DEF Sequence

LEMMA EmptySequence == Sequence(<<>>) /\ Len(<<>>) = 0
<1>1. <<>> \in Seq({})
    OBVIOUS
<1>2. QED
    BY Zenon, <1>1 DEF Sequence

LEMMA SwarmSets ==
    ASSUME NEW T \in SUBSET Swarm
    PROVE  /\ IsFiniteSet(T) /\ Cardinality(T) \in Nat
           /\ Cardinality(T) = 0 <=> T = {}
           /\ \A s \in T : Cardinality(T \ {s}) = Cardinality(T) - 1
<1>1. IsFiniteSet(T)
    BY Zenon, FS_Subset, Bep5Assumption
<1>2. QED
    BY Zenon, <1>1, FS_CardinalityType, FS_EmptySet, FS_RemoveElement

-----------------------------------------------------------------------------
LEMMA Bep5Starts == Bep5Init => ListsInv /\ CallInv /\ SeenInv
<1> SUFFICES ASSUME Bep5Init PROVE ListsInv /\ CallInv /\ SeenInv
    BY Zenon
<1>1. ListsInv
    BY EmptySequence DEF Bep5Init, ListsInv, Distinct
<1>2. CallInv
    BY Zenon DEF Bep5Init, CallInv, CallShape, Idle
<1>3. SeenInv
    BY Zenon DEF Bep5Init, SeenInv
<1>4. QED
    BY Zenon, <1>1, <1>2, <1>3

LEMMA SeenStep == SeenInv /\ [Bep5Next]_bepvars => SeenInv'
<1> SUFFICES ASSUME SeenInv, [Bep5Next]_bepvars PROVE SeenInv'
    BY Zenon
<1> USE DEF SeenInv
<1>1. ASSUME UNCHANGED pingvars PROVE SeenInv'
    BY Zenon, <1>1 DEF pingvars
<1>2. CASE Selected
    BY Zenon, <1>2 DEF Selected
<1>3. CASE PingerReady
    BY Zenon, <1>3 DEF PingerReady
<1>4. CASE PingerWakes
    BY Zenon, <1>4 DEF PingerWakes
<1>5. ASSUME NEW answered \in BOOLEAN, Pinged(answered) PROVE SeenInv'
    BY Zenon, <1>5 DEF Pinged
<1>6. CASE Return
    BY Zenon, <1>6 DEF Return
<1>7. ASSUME NEW s \in Swarm,
             \/ LookAgain(s) \/ Stale(s) \/ wait_for_ready(s) \/ SendCandidates(s)
             \/ LookupDone(s) \/ LookupCancelled(s)
             \/ \E eps \in Found[s] : swarm_loop(s, eps)
      PROVE  UNCHANGED pingvars
    BY Zenon, <1>7 DEF LookAgain, Stale, wait_for_ready, SendCandidates, LookupDone, LookupCancelled,
       swarm_loop
<1>8. CASE start \/ Receive \/ pick_candidate \/ LoopsEnd \/ CallerCancels
    BY Zenon, <1>1, <1>8 DEF start, Receive, pick_candidate, LoopsEnd, CallerCancels
<1>9. ASSUME NEW a \in attempts, AttemptStep(a) PROVE UNCHANGED pingvars
    BY Zenon, <1>9 DEF AttemptStep, Connected, AttemptFails, AttemptSucceeds
<1>10. ASSUME NEW target \in Targets, connect(target) PROVE UNCHANGED pingvars
    BY Zenon, <1>10 DEF connect
<1>11. CASE UNCHANGED bepvars
    BY Zenon, <1>1, <1>11 DEF bepvars
<1>12. QED
    BY Zenon, <1>1, <1>2, <1>3, <1>4, <1>5, <1>6, <1>7, <1>8, <1>9, <1>10, <1>11
    DEF Bep5Next, SwarmStep, CallStep

-----------------------------------------------------------------------------
(***************************************************************************)
(* A step of connect() or of one of its coroutines.                        *)
(***************************************************************************)
ListsSame == UNCHANGED <<channel, candidates, used, tries, offered>>

LEMMA ListsKept == ASSUME ListsInv, ListsSame PROVE ListsInv'
    BY Zenon DEF ListsInv, ListsSame, Distinct, Candidate, Sequence

LEMMA JobsSet ==
    ASSUME CallShape, NEW j, NEW o
    PROVE  [call EXCEPT !.jobs = j, !.open = o] =
           [pc |-> call.pc, target |-> call.target, n |-> call.n,
            cancelled |-> call.cancelled, open |-> o, jobs |-> j, result |-> call.result]
<1> DEFINE k == [call EXCEPT !.jobs = j, !.open = o]
           fields == {"pc", "target", "n", "cancelled", "open", "jobs", "result"}
<1>1. DOMAIN call = fields
    BY Zenon DEF CallShape
<1>2. k = [x \in fields |-> IF x = "open" THEN o ELSE IF x = "jobs" THEN j ELSE call[x]]
    BY Zenon, <1>1
<1>3. QED
    BY <1>2

LEMMA ConnectStep ==
    ASSUME ListsInv, CallInv, NEW target \in Targets, connect(target)
    PROVE  ListsInv' /\ CallInv'
<1>1. ListsInv'
    BY Zenon, ListsKept DEF connect, ListsSame
<1> DEFINE swarms == IF started = "no" THEN {} ELSE target \cap Swarm
<1>2. CASE swarms = {}
  <2>1. /\ call' = [pc |-> "idle", target |-> {}, n |-> call.n + 1, cancelled |-> FALSE,
                    open |-> FALSE, jobs |-> 0, result |-> NoPeer]
        /\ UNCHANGED <<lookup, attempts, candidates, channel>> /\ call.pc = "idle"
      BY Zenon, <1>2 DEF connect, Idle
  <2>2. CallShape'
      BY Zenon, <2>1 DEF CallShape
  <2>3. QED
      BY Zenon, <1>1, <2>1, <2>2 DEF CallInv
<1>3. CASE swarms # {}
  <2>1. swarms \in SUBSET Swarm
      BY Zenon
  <2> HIDE DEF swarms
  <2>2. /\ call' = [pc |-> "receive", target |-> swarms, n |-> call.n + 1, cancelled |-> FALSE,
                    open |-> TRUE, jobs |-> Cardinality(swarms), result |-> NoPeer]
        /\ lookup' = [s \in Swarm |-> IF s \in swarms THEN "start" ELSE "none"]
        /\ UNCHANGED <<attempts, candidates, channel>>
      BY Zenon, <1>3 DEF connect, Idle, swarms
  <2>3. candidates = {}
      BY Zenon DEF connect, CallInv
  <2>4. Active' = swarms
      BY Zenon, <2>1, <2>2 DEF Active
  <2>5. Cardinality(swarms) \in Nat /\ Cardinality(swarms) > 0
      BY <1>3, <2>1, SwarmSets
  <2>6. CallShape'
      BY Zenon, <2>1, <2>2, <2>5 DEF CallShape
  <2>7. QED
      BY Zenon, <1>1, <2>1, <2>2, <2>3, <2>4, <2>5, <2>6 DEF CallInv
<1>4. QED
    BY Zenon, <1>1, <1>2, <1>3

LEMMA LookupStep ==
    ASSUME ListsInv, CallInv, NEW s \in Swarm,
           wait_for_ready(s) \/ LookupDone(s) \/ LookupCancelled(s)
    PROVE  ListsInv' /\ CallInv'
<1>1. ListsInv'
    BY Zenon, ListsKept DEF wait_for_ready, LookupDone, LookupCancelled, ListsSame
<1>2. CASE wait_for_ready(s)
  <2>1. Active' = Active
      BY Zenon, <1>2 DEF wait_for_ready, Active, CallInv
  <2>2. QED
      BY Zenon, <1>1, <1>2, <2>1 DEF wait_for_ready, CallInv, CallShape
<1>3. CASE LookupCancelled(s)
    BY Zenon, <1>1, <1>3 DEF LookupCancelled, CallInv, CallShape
<1>4. CASE LookupDone(s)
  <2>1. /\ s \in Active /\ ~call.cancelled
        /\ lookup' = [lookup EXCEPT ![s] = "done"]
        /\ UNCHANGED <<attempts, candidates, channel>>
      BY Zenon, <1>4 DEF LookupDone, Active
  <2>2. Active' = Active \ {s}
      BY Zenon, <2>1 DEF Active, CallInv
  <2>3. /\ Cardinality(Active) \in Nat \ {0}
        /\ Cardinality(Active') = Cardinality(Active) - 1
      BY Zenon, <2>1, <2>2, SwarmSets DEF Active
  <2>4. call.jobs = Cardinality(Active) /\ call.open = TRUE /\ call.pc # "idle"
      BY <2>1, <2>3 DEF CallInv, CallShape, Active
  <2> DEFINE o == call.open /\ call.jobs > 1
  <2>5. o \in BOOLEAN /\ (o <=> call.jobs > 1)
      BY Zenon, <2>4
  <2>6. call' = [call EXCEPT !.jobs = call.jobs - 1, !.open = o]
      BY Zenon, <1>4 DEF LookupDone
  <2> HIDE DEF o
  <2>7. call' = [pc |-> call.pc, target |-> call.target, n |-> call.n,
                 cancelled |-> call.cancelled, open |-> o, jobs |-> call.jobs - 1,
                 result |-> call.result]
      BY Zenon, <2>6, JobsSet DEF CallInv
  <2>8. CallShape'
      BY <2>3, <2>4, <2>5, <2>7 DEF CallInv, CallShape
  <2>9. /\ lookup' \in [Swarm -> {"none", "start", "wait", "ready", "sent", "done"}]
        /\ \A t \in Swarm : lookup'[t] = "none" <=> t \notin call'.target
      BY Zenon, <1>4, <2>1, <2>4, <2>7 DEF CallInv, LookupDone
  <2>10. call'.jobs = Cardinality(Active') /\ (call'.open <=> call'.jobs > 0)
      BY <2>3, <2>4, <2>5, <2>7
  <2>11. call.pc # "join"
      BY Zenon, <2>1, <2>4 DEF CallInv
  <2>12. ~call'.cancelled /\ call'.pc = call.pc
      BY Zenon, <2>1, <2>7
  <2>13. QED
      BY Zenon, <1>1, <2>1, <2>4, <2>8, <2>9, <2>10, <2>11, <2>12 DEF CallInv
<1>5. QED
    BY Zenon, <1>2, <1>3, <1>4

LEMMA SendStep ==
    ASSUME ListsInv, CallInv, NEW s \in Swarm, SendCandidates(s)
    PROVE  ListsInv' /\ CallInv'
<1> DEFINE peers == Range(swarm[s].peers)
           sent == {[ep |-> e, type |-> s] : e \in peers}
<1>1. /\ channel' = Append(channel, sent) /\ offered' = offered \cup peers
      /\ lookup' = [lookup EXCEPT ![s] = "sent"]
      /\ s \in Active /\ ~call.cancelled
      /\ UNCHANGED <<call, candidates, used, attempts, tries>>
    BY Zenon DEF SendCandidates, Active
<1> HIDE DEF peers
<1>2. /\ Distinct(sent) /\ \A c \in sent : Candidate(c)
      /\ \A e : e \in peers <=> \E c \in sent : c.ep = e
  <2>1. \A c \in sent : c = [ep |-> c.ep, type |-> s] /\ c.type = s /\ c.ep \in peers
      OBVIOUS
  <2>2. \A e \in peers : [ep |-> e, type |-> s] \in sent /\ [ep |-> e, type |-> s].ep = e
      BY Zenon
  <2> HIDE DEF sent
  <2>3. \A e : e \in peers => \E c \in sent : c.ep = e
      BY Zenon, <2>2
  <2>4. Distinct(sent)
      BY Zenon, <2>1 DEF Distinct
  <2>5. \A c \in sent : Candidate(c)
      BY Zenon, <2>1 DEF Candidate
  <2>6. QED
      BY Zenon, <2>1, <2>3, <2>4, <2>5
<1> HIDE DEF sent
<1>3. ListsInv'
  <2>1. /\ Sequence(channel') /\ Len(channel) \in Nat /\ Len(channel') = Len(channel) + 1
        /\ \A i \in 1 .. Len(channel) : channel'[i] = channel[i]
        /\ channel'[Len(channel) + 1] = sent
      BY <1>1, AppendSequence DEF ListsInv
  <2>2. \A i \in 1 .. Len(channel') : Distinct(channel'[i]) /\ \A c \in channel'[i] : Candidate(c)
      BY <2>1, <1>2 DEF ListsInv
  <2>3. ASSUME NEW e
        PROVE  (\E i \in 1 .. Len(channel') : \E c \in channel'[i] : c.ep = e)
               <=> (e \in peers \/ \E i \in 1 .. Len(channel) : \E c \in channel[i] : c.ep = e)
      BY <2>1, <1>2
  <2>4. \A e : e \in offered' <=> \/ e \in used'
                                  \/ \E c \in candidates' : c.ep = e
                                  \/ \E i \in 1 .. Len(channel') : \E c \in channel'[i] : c.ep = e
      BY Zenon, <1>1, <2>3 DEF ListsInv
  <2>5. Distinct(candidates') /\ \A c \in candidates' : Candidate(c) /\ c.ep \notin used'
      BY Zenon, <1>1 DEF ListsInv
  <2>6. tries' \in [Endpoint -> Nat] /\ \A e \in Endpoint : tries'[e] = IF e \in used' THEN 1 ELSE 0
      BY Zenon, <1>1 DEF ListsInv
  <2>7. QED
      BY Zenon, <2>1, <2>2, <2>4, <2>5, <2>6 DEF ListsInv, Distinct, Candidate
<1>4. CallInv'
  <2>1. Active' = Active /\ Active # {}
      BY Zenon, <1>1 DEF Active, CallInv
  <2>2. Cardinality(Active) \in Nat \ {0}
      BY Zenon, <2>1, SwarmSets DEF Active
  <2>3. call.pc \notin {"join", "idle"}
      BY <1>1, <2>2 DEF CallInv, Active, CallShape
  <2>4. CallShape'
      BY Zenon, <1>1 DEF CallInv, CallShape
  <2>5. /\ lookup' \in [Swarm -> {"none", "start", "wait", "ready", "sent", "done"}]
        /\ \A t \in Swarm : lookup'[t] = "none" <=> lookup[t] = "none"
      BY Zenon, <1>1 DEF CallInv, Active
  <2>6. QED
      BY Zenon, <1>1, <2>1, <2>3, <2>4, <2>5 DEF CallInv
<1>5. QED
    BY Zenon, <1>3, <1>4

LEMMA ReceiveStep ==
    ASSUME ListsInv, CallInv, Receive
    PROVE  ListsInv' /\ CallInv'
<1>1. ~call.cancelled /\ call.pc = "receive" /\ candidates = {}
    BY Zenon DEF Receive, CallInv
<1>2. UNCHANGED <<lookup, used, attempts, tries, offered>> /\ Active' = Active
    BY Zenon DEF Receive, Active
<1>3. CASE /\ channel # <<>>
           /\ candidates' = {c \in Head(channel) : c.ep \notin used}
           /\ channel' = Tail(channel)
           /\ call' = [call EXCEPT !.pc = "pick"]
  <2>1. /\ Sequence(channel') /\ Head(channel) = channel[1]
        /\ Len(channel) \in Nat \ {0} /\ Len(channel') = Len(channel) - 1
        /\ \A i \in 1 .. Len(channel) - 1 : channel'[i] = channel[i + 1]
      BY Zenon, <1>3, TailSequence DEF ListsInv
  <2>2. \A i \in 1 .. Len(channel') : Distinct(channel'[i]) /\ \A c \in channel'[i] : Candidate(c)
      BY <2>1 DEF ListsInv
  <2>3. Distinct(channel[1]) /\ \A c \in channel[1] : Candidate(c)
      BY <2>1 DEF ListsInv
  <2>4. Distinct(candidates') /\ \A c \in candidates' : Candidate(c) /\ c.ep \notin used'
      BY <1>2, <1>3, <2>1, <2>3 DEF Distinct
  <2>5. ASSUME NEW e
        PROVE  (\E i \in 1 .. Len(channel) : \E c \in channel[i] : c.ep = e)
               <=> \/ \E c \in channel[1] : c.ep = e
                   \/ \E i \in 1 .. Len(channel') : \E c \in channel'[i] : c.ep = e
    <3>1. ASSUME NEW i \in 1 .. Len(channel), i # 1
          PROVE  i - 1 \in 1 .. Len(channel') /\ channel'[i - 1] = channel[i]
        BY <2>1, <3>1
    <3>2. ASSUME NEW i \in 1 .. Len(channel')
          PROVE  i + 1 \in 1 .. Len(channel) /\ channel'[i] = channel[i + 1]
        BY <2>1
    <3>3. 1 \in 1 .. Len(channel)
        BY <2>1
    <3>4. QED
        BY Zenon, <3>1, <3>2, <3>3
  <2>6. \A e : e \in offered' <=> \/ e \in used'
                                  \/ \E c \in candidates' : c.ep = e
                                  \/ \E i \in 1 .. Len(channel') : \E c \in channel'[i] : c.ep = e
    <3>1. ASSUME NEW e
          PROVE  (\E c \in candidates' : c.ep = e) \/ e \in used
                 <=> (\E c \in channel[1] : c.ep = e) \/ e \in used
        BY Zenon, <1>3, <2>1
    <3>2. \A e : e \in offered <=> \/ e \in used
                                  \/ \E i \in 1 .. Len(channel) : \E c \in channel[i] : c.ep = e
        BY Zenon, <1>1 DEF ListsInv
    <3>3. QED
        BY Zenon, <1>2, <2>5, <3>1, <3>2
  <2>7. ListsInv'
      BY Zenon, <1>2, <2>1, <2>2, <2>4, <2>6 DEF ListsInv, Distinct, Candidate
  <2>8. CallShape' /\ call'.pc = "pick" /\ call'.cancelled = call.cancelled
        /\ call'.open = call.open /\ call'.jobs = call.jobs /\ call'.target = call.target
      BY Zenon, <1>3 DEF CallInv, CallShape
  <2>9. CallInv'
      BY Zenon, <1>1, <1>2, <2>8 DEF CallInv
  <2>10. QED
      BY Zenon, <2>7, <2>9
<1>4. CASE /\ channel = <<>> /\ ~call.open
           /\ call' = [call EXCEPT !.pc = "join"]
           /\ UNCHANGED <<channel, candidates>>
  <2>1. ListsInv'
      BY Zenon, <1>2, <1>4, ListsKept DEF ListsSame
  <2>2. CallShape' /\ call'.pc = "join" /\ call'.cancelled = call.cancelled
        /\ call'.open = call.open /\ call'.jobs = call.jobs /\ call'.target = call.target
      BY Zenon, <1>4 DEF CallInv, CallShape
  <2>3. QED
      BY Zenon, <1>1, <1>2, <1>4, <2>1, <2>2 DEF CallInv
<1>5. QED
    BY Zenon, <1>3, <1>4 DEF Receive

LEMMA PickStep ==
    ASSUME ListsInv, CallInv, pick_candidate
    PROVE  ListsInv' /\ CallInv'
<1>1. ~call.cancelled /\ call.pc = "pick" /\ UNCHANGED <<lookup, channel, offered>>
    BY Zenon DEF pick_candidate
<1>2. Active' = Active
    BY Zenon, <1>1 DEF Active
<1>3. ASSUME NEW c \in candidates,
             candidates' = candidates \ {c}, used' = used \cup {c.ep},
             tries' = [tries EXCEPT ![c.ep] = @ + 1],
             attempts' = attempts \cup {[ep |-> c.ep, type |-> c.type, stage |-> "connect"]},
             UNCHANGED call
      PROVE  ListsInv' /\ CallInv'
  <2>1. Candidate(c) /\ c.ep \notin used
      BY Zenon DEF ListsInv
  <2>2. Distinct(candidates') /\ \A d \in candidates' : Candidate(d) /\ d.ep \notin used'
      BY Zenon, <1>3 DEF ListsInv, Distinct
  <2>3. /\ tries' \in [Endpoint -> Nat]
        /\ \A e \in Endpoint : tries'[e] = IF e \in used' THEN 1 ELSE 0
    <3>1. tries \in [Endpoint -> Nat] /\ \A e \in Endpoint : tries[e] = IF e \in used THEN 1 ELSE 0
        BY Zenon DEF ListsInv
    <3>2. tries' \in [Endpoint -> Nat]
      <4> DEFINE ep == c.ep
      <4>1. tries' = [tries EXCEPT ![ep] = tries[ep] + 1]
          BY Zenon, <1>3
      <4> HIDE DEF ep
      <4>2. CASE ep \in Endpoint
          BY <3>1, <4>1, <4>2
      <4>3. CASE ep \notin Endpoint
          BY Zenon, <3>1, <4>1, <4>3
      <4>4. QED
          BY Zenon, <4>2, <4>3
    <3>3. \A e \in Endpoint : tries'[e] = IF e = c.ep THEN tries[e] + 1 ELSE tries[e]
        BY Zenon, <1>3, <3>1
    <3>4. QED
        BY <1>3, <2>1, <3>1, <3>2, <3>3
  <2>4. \A e : (e \in used' \/ \E d \in candidates' : d.ep = e)
               <=> (e \in used \/ \E d \in candidates : d.ep = e)
      BY Zenon, <1>3
  <2>5. ListsInv'
    <3>1. \A e : e \in offered' <=> \/ e \in used'
                                    \/ \E d \in candidates' : d.ep = e
                                    \/ \E i \in 1 .. Len(channel') : \E d \in channel'[i] : d.ep = e
        BY Zenon, <1>1, <2>4 DEF ListsInv
    <3>2. /\ Sequence(channel')
          /\ \A i \in 1 .. Len(channel') :
                Distinct(channel'[i]) /\ \A d \in channel'[i] : Candidate(d)
        BY Zenon, <1>1 DEF ListsInv
    <3>3. QED
        BY Zenon, <2>2, <2>3, <3>1, <3>2 DEF ListsInv, Distinct, Candidate
  <2>6. \A a \in attempts' : a = [ep |-> a.ep, type |-> a.type, stage |-> a.stage]
                             /\ a.type \in Swarm
      BY <1>3, <2>1 DEF CallInv, Candidate
  <2>7. QED
      BY Zenon, <1>1, <1>2, <1>3, <2>5, <2>6 DEF CallInv, CallShape
<1>4. CASE /\ candidates = {}
           /\ call' = [call EXCEPT !.pc = "receive"]
           /\ UNCHANGED <<candidates, used, attempts, tries>>
  <2>1. ListsInv'
      BY Zenon, <1>1, <1>4, ListsKept DEF ListsSame
  <2>2. CallShape' /\ call'.pc = "receive" /\ call'.cancelled = call.cancelled
        /\ call'.open = call.open /\ call'.jobs = call.jobs /\ call'.target = call.target
      BY Zenon, <1>4 DEF CallInv, CallShape
  <2>3. QED
      BY Zenon, <1>1, <1>2, <1>4, <2>1, <2>2 DEF CallInv
<1>5. QED
    BY Zenon, <1>3, <1>4 DEF pick_candidate

LEMMA LoopsEndStep ==
    ASSUME ListsInv, CallInv, LoopsEnd
    PROVE  ListsInv' /\ CallInv'
<1>1. ListsInv'
    BY Zenon, ListsKept DEF LoopsEnd, ListsSame
<1>2. CallShape' /\ call'.pc = "join" /\ call'.cancelled = TRUE /\ call'.result = call.result
    BY Zenon DEF LoopsEnd, CallInv, CallShape
<1>3. QED
    BY Zenon, <1>1, <1>2 DEF LoopsEnd, CallInv

LEMMA AttemptsStep ==
    ASSUME ListsInv, CallInv, NEW a \in attempts, AttemptStep(a)
    PROVE  ListsInv' /\ CallInv'
<1>1. ListsInv'
    BY Zenon, ListsKept DEF AttemptStep, Connected, AttemptFails, AttemptSucceeds, ListsSame
<1>2. a = [ep |-> a.ep, type |-> a.type, stage |-> a.stage] /\ a.type \in Swarm
    BY Zenon DEF CallInv
<1>3. CASE Connected(a)
  <2> DEFINE b == [a EXCEPT !.stage = "handshake"]
  <2>1. b = [ep |-> b.ep, type |-> b.type, stage |-> b.stage] /\ b.type \in Swarm
      BY <1>2
  <2>2. attempts' = (attempts \ {a}) \cup {b} /\ UNCHANGED <<call, lookup, candidates, channel>>
      BY Zenon, <1>3 DEF Connected
  <2> HIDE DEF b
  <2>3. Active' = Active
      BY Zenon, <2>2 DEF Active
  <2>4. QED
      BY Zenon, <1>1, <2>1, <2>2, <2>3 DEF CallInv, CallShape
<1>4. CASE AttemptFails(a)
  <2>1. Active' = Active
      BY Zenon, <1>4 DEF AttemptFails, Active
  <2>2. QED
      BY Zenon, <1>1, <1>4, <2>1 DEF AttemptFails, CallInv, CallShape
<1>5. CASE AttemptSucceeds(a)
  <2>1. /\ CallShape' /\ call'.cancelled = TRUE /\ call'.pc = call.pc
        /\ call'.result = [ep |-> a.ep, type |-> a.type]
      BY Zenon, <1>5 DEF AttemptSucceeds, CallInv, CallShape
  <2>2. call'.result # NoPeer
      BY <1>2, <2>1, Bep5Assumption DEF NoPeer
  <2>3. QED
      BY Zenon, <1>1, <1>5, <2>1, <2>2 DEF AttemptSucceeds, CallInv
<1>6. QED
    BY Zenon, <1>3, <1>4, <1>5 DEF AttemptStep

LEMMA FrameStep ==
    ASSUME ListsInv, CallInv, FrameGone
    PROVE  ListsInv' /\ CallInv'
<1>1. ListsInv'
    BY EmptySequence DEF FrameGone, ListsInv, Distinct
<1>2. CallShape'
    BY Zenon DEF FrameGone, CallShape, Idle
<1>3. QED
    BY Zenon, <1>1, <1>2 DEF FrameGone, CallInv, Idle

LEMMA OtherStep ==
    ASSUME ListsInv, CallInv, UNCHANGED callvars
    PROVE  ListsInv' /\ CallInv'
<1>1. ListsInv'
    BY Zenon, ListsKept DEF callvars, ListsSame
<1>2. Active' = Active
    BY Zenon DEF callvars, Active
<1>3. QED
    BY Zenon, <1>1, <1>2 DEF callvars, CallInv, CallShape

LEMMA Bep5Step == ListsInv /\ CallInv /\ [Bep5Next]_bepvars => ListsInv' /\ CallInv'
<1> SUFFICES ASSUME ListsInv, CallInv, [Bep5Next]_bepvars PROVE ListsInv' /\ CallInv'
    BY Zenon
<1>1. CASE SwarmStep
  <2>1. UNCHANGED callvars
      BY Zenon, <1>1 DEF SwarmStep, start, Selected, LookAgain, Stale, swarm_loop, PingerReady,
         PingerWakes, Pinged
  <2>2. QED
      BY Zenon, <2>1, OtherStep
<1>2. CASE CallStep
  <2>1. CASE Return
      BY Zenon, <2>1, FrameStep DEF Return
  <2>2. QED
      BY Zenon, <1>2, <2>1, LookupStep, SendStep, ReceiveStep, PickStep, LoopsEndStep DEF CallStep
<1>3. ASSUME NEW target \in Targets, connect(target) PROVE ListsInv' /\ CallInv'
    BY Zenon, <1>3, ConnectStep
<1>4. CASE CallerCancels
    BY Zenon, <1>4, FrameStep DEF CallerCancels
<1>5. ASSUME NEW a \in attempts, AttemptStep(a) PROVE ListsInv' /\ CallInv'
    BY Zenon, <1>5, AttemptsStep
<1>6. CASE UNCHANGED bepvars
    BY Zenon, <1>6, OtherStep DEF bepvars
<1>7. QED
    BY Zenon, <1>1, <1>2, <1>3, <1>4, <1>5, <1>6 DEF Bep5Next

-----------------------------------------------------------------------------
\* connect() fails only after every swarm it was to use had its say and every
\* peer that these had was tried, each once.
THEOREM FailuresAreExhaustive == Bep5Spec => []FailureIsExhaustive
<1>1. ListsInv /\ CallInv => FailureIsExhaustive
  <2> SUFFICES ASSUME ListsInv, CallInv, Joined, call.result = NoPeer
               PROVE  /\ \A s \in call.target : lookup[s] = "done"
                      /\ \A e \in Endpoint : tries[e] = IF e \in offered THEN 1 ELSE 0
      BY Zenon DEF FailureIsExhaustive
  <2>1. call.pc = "join" /\ ~call.cancelled /\ candidates = {} /\ channel = <<>>
      BY Zenon DEF Joined, CallInv
  <2>2. \A s \in call.target : lookup[s] = "done"
      BY Zenon, <2>1 DEF Joined, CallInv, CallShape
  <2>3. \A e : e \in offered <=> e \in used
      BY <2>1, EmptySequence DEF ListsInv
  <2>4. QED
      BY Zenon, <2>2, <2>3 DEF ListsInv
<1>2. QED
    BY Bep5Starts, Bep5Step, <1>1, PTL DEF Bep5Spec

\* A client is announced as a helper only if it reached an injector since it
\* was announced the last time.
THEOREM HelpersReachInjectors == Bep5Spec => []HelperNeedsInjector
<1>1. SeenInv => HelperNeedsInjector
    BY Zenon DEF SeenInv, HelperNeedsInjector
<1>2. QED
    BY Bep5Starts, SeenStep, <1>1, PTL DEF Bep5Spec

-----------------------------------------------------------------------------
(***************************************************************************)
(* UPnPUpdater: MappingKept.                                               *)
(***************************************************************************)

UPnPTypeOK ==
  /\ upnp_pc \in {"begin", "discover", "add", "query", "address", "sleep", "gone"}
  /\ lease \in [Igd -> Nat]
  /\ igds \subseteq Igd
  /\ success_cnt \in Nat /\ elapsed \in Nat /\ query_begin \in Nat /\ wait \in Nat
  /\ buggy \subseteq Nat
  /\ upnp_pc = "query" => igd \in Igd
  /\ upnp_pc \in {"begin", "sleep"} => elapsed = 0 /\ igds = {}

\* The devices whose lease the loop has to renew in time, and those of them
\* whose last renewal was in time.
Kept == Renews \ missed
OnTime == Kept \ slow

\* A device that was asked in this round and keeps its lease until the round is
\* over counts as a success, or is about to be queried.
Renewed(k) ==
  /\ lease[k] + elapsed >= lease_duration
  /\ \/ lease[k] + recent_margin <= lease_duration
     \/ success_cnt > 0
     \/ upnp_pc = "query" /\ igd = k

\* How much of a lease is left at each point of the loop.
LeaseInv ==
  /\ UPnPTypeOK
  /\ \A k \in OnTime :
       /\ upnp_pc = "begin" => lease[k] >= recent_margin
       /\ upnp_pc = "sleep" => lease[k] >= wait + recent_margin
       /\ upnp_pc = "discover" => lease[k] + elapsed >= recent_margin
  /\ upnp_pc \in {"add", "query", "address"} =>
       \A k \in Kept :
         IF k \in igds THEN k \notin slow => lease[k] + elapsed >= recent_margin
         ELSE Renewed(k)
  /\ lapsed = {}

-----------------------------------------------------------------------------
LEMMA Times ==
  /\ lease_duration \in Nat /\ failure_wait_time \in Nat /\ recent_margin \in Nat
  /\ timeout_pause \in Nat /\ restart_pause \in Nat /\ MaxRound \in Nat
  /\ 0 < recent_margin /\ 2 * recent_margin <= lease_duration
  /\ Renews \subseteq Igd
  BY Zenon, UPnPAssumption

LEMMA MinusNat == \A a, b \in Nat : /\ Minus(a, b) \in Nat
                                    /\ a >= b => Minus(a, b) = a - b
                                    /\ a < b => Minus(a, b) = 0
  BY DEF Minus

LEMMA WaitTimeNat ==
  ASSUME UPnPTypeOK
  PROVE  wait_time \in Nat
<1>1. success_wait_time \in Nat /\ elapsed \in Nat /\ Minus(success_wait_time, elapsed) \in Nat
    BY Times, MinusNat DEF success_wait_time, UPnPTypeOK
<1>2. CASE buggy = {}
    BY Zenon, <1>1, <1>2, Times DEF wait_time
<1>3. CASE buggy # {}
  <2>1. (CHOOSE t \in buggy : TRUE) \in Nat
      BY Zenon, <1>3 DEF UPnPTypeOK
  <2>2. (CHOOSE t \in buggy : TRUE) + timeout_pause \in Nat
      BY <2>1, Times
  <2>3. QED
      BY Zenon, <1>1, <1>3, <2>2, MinusNat DEF wait_time
<1>4. QED
    BY Zenon, <1>2, <1>3

LEMMA LeaseInit == UPnPInit => LeaseInv
<1> SUFFICES ASSUME UPnPInit PROVE LeaseInv
    BY Zenon
<1>1. lease \in [Igd -> Nat]
    BY Times DEF UPnPInit
<1>2. OnTime = {}
    BY Zenon, Times DEF UPnPInit, OnTime, Kept
<1>3. QED
    BY Zenon, <1>1, <1>2 DEF UPnPInit, LeaseInv, UPnPTypeOK

\* Time passes: a lease and the round's time add up to the same, or to more.
LEMMA TickLease == ASSUME LeaseInv, UPnPTick PROVE LeaseInv'
<1>1. /\ UNCHANGED <<upnp_pc, igds, igd, success_cnt, query_begin, buggy, missed, slow>>
      /\ UNCHANGED <<Kept, OnTime>>
    BY Zenon DEF UPnPTick, Kept, OnTime
<1>2. /\ elapsed \in Nat /\ wait \in Nat /\ elapsed' \in Nat /\ wait' \in Nat
      /\ Requesting => elapsed' = elapsed + 1
      /\ ~Requesting => upnp_pc = "sleep" /\ wait > 0 /\ wait' = wait - 1 /\ elapsed' = elapsed
  <2>1. elapsed \in Nat /\ wait \in Nat /\ wait' = Minus(wait, 1)
      BY Zenon DEF LeaseInv, UPnPTypeOK, UPnPTick
  <2>2. \/ Requesting /\ elapsed' = elapsed + 1
        \/ upnp_pc = "sleep" /\ wait > 0 /\ elapsed' = elapsed
      BY Zenon DEF UPnPTick
  <2>3. wait' \in Nat /\ (wait > 0 => wait' = wait - 1)
      BY <2>1, MinusNat
  <2>4. elapsed + 1 \in Nat
      BY <2>1
  <2>5. upnp_pc = "sleep" => ~Requesting
      BY Zenon DEF Requesting
  <2>6. QED
      BY Zenon, <2>1, <2>2, <2>3, <2>4, <2>5
<1>3. \A k \in Igd : /\ lease[k] \in Nat /\ lease'[k] \in Nat
                     /\ lease[k] >= 1 => lease'[k] = lease[k] - 1
                     /\ lease[k] = 0 => lease'[k] = 0
  <2>1. \A k \in Igd : lease[k] \in Nat /\ lease'[k] = Minus(lease[k], 1)
      BY Zenon DEF LeaseInv, UPnPTypeOK, UPnPTick
  <2>2. QED
      BY <2>1, MinusNat
<1>4. lease' \in [Igd -> Nat]
  <2>1. lease' = [k \in Igd |-> Minus(lease[k], 1)]
      BY Zenon DEF UPnPTick
  <2>2. \A k \in Igd : Minus(lease[k], 1) \in Nat
      BY MinusNat DEF LeaseInv, UPnPTypeOK
  <2>3. QED
      BY Zenon, <2>1, <2>2
<1>5. UPnPTypeOK'
    BY Zenon, <1>1, <1>2, <1>4 DEF LeaseInv, UPnPTypeOK, Requesting
<1>6. Kept \subseteq Igd /\ OnTime \subseteq Kept
    BY Zenon, Times DEF Kept, OnTime
<1>7. ASSUME NEW k \in OnTime
      PROVE  /\ upnp_pc = "sleep" => lease'[k] >= wait' + recent_margin
             /\ upnp_pc = "discover" => lease'[k] + elapsed' >= recent_margin
  <2>1. /\ upnp_pc = "sleep" => lease[k] >= wait + recent_margin
        /\ upnp_pc = "discover" => lease[k] + elapsed >= recent_margin
      BY Zenon, <1>7 DEF LeaseInv
  <2>2. k \in Igd
      BY Zenon, <1>6, <1>7
  <2>3. QED
      BY <1>2, <1>3, <2>1, <2>2, Times DEF Requesting
<1>8. ASSUME upnp_pc \in {"add", "query", "address"}, NEW k \in Kept
      PROVE  IF k \in igds THEN k \notin slow => lease'[k] + elapsed' >= recent_margin
             ELSE Renewed(k)'
  <2>1. IF k \in igds THEN k \notin slow => lease[k] + elapsed >= recent_margin ELSE Renewed(k)
      BY Zenon, <1>8 DEF LeaseInv
  <2>2. k \in Igd /\ elapsed' = elapsed + 1
      BY Zenon, <1>2, <1>6, <1>8 DEF Requesting
  <2>3. CASE k \in igds
      BY <1>2, <1>3, <2>1, <2>2, <2>3, Times
  <2>4. CASE k \notin igds
      BY <1>1, <1>2, <1>3, <2>1, <2>2, <2>4, Times DEF Renewed
  <2>5. QED
      BY Zenon, <2>3, <2>4
<1>9. lapsed' = {}
  <2> SUFFICES ASSUME NEW k \in Renews \ (missed \cup slow), lease[k] = 1,
                      Requesting => elapsed' < recent_margin
               PROVE  FALSE
      BY Zenon DEF LeaseInv, UPnPTick
  <2>1. k \in OnTime /\ k \in Kept /\ k \notin slow
      BY Zenon DEF OnTime, Kept
  <2>2. CASE upnp_pc \in {"sleep", "discover"}
      BY <1>2, <2>1, <2>2, Times DEF LeaseInv, Requesting
  <2>3. CASE upnp_pc \in {"add", "query", "address"}
    <3>1. IF k \in igds THEN lease[k] + elapsed >= recent_margin ELSE Renewed(k)
        BY Zenon, <2>1, <2>3 DEF LeaseInv
    <3>2. QED
        BY <1>2, <2>3, <3>1, Times DEF Requesting, Renewed
  <2>4. QED
      BY Zenon, <1>2, <2>2, <2>3 DEF Requesting
<1>10. upnp_pc # "begin"
    BY Zenon, <1>2 DEF Requesting
<1>11. QED
    BY Zenon, <1>1, <1>5, <1>7, <1>8, <1>9, <1>10 DEF LeaseInv

\* A round begins, or finds the devices.
LEMMA RoundLease ==
  ASSUME LeaseInv, BeginRound \/ Discovered
  PROVE  LeaseInv'
<1>1. UPnPTypeOK'
  <2>1. CASE BeginRound
      BY Zenon, <2>1, Times DEF LeaseInv, UPnPTypeOK, BeginRound, SleepFor
  <2>2. CASE Discovered
    <3>1. 0 \in Nat
        OBVIOUS
    <3>2. QED
        BY Zenon, <2>2, <3>1, Times DEF LeaseInv, UPnPTypeOK, Discovered, SleepFor, RoundOver
  <2>3. QED
      BY Zenon, <2>1, <2>2
<1>2. CASE BeginRound
  <2>1. /\ upnp_pc = "begin" /\ UNCHANGED <<lease, elapsed, slow, lapsed>>
        /\ \/ upnp_pc' = "discover" /\ missed' = missed
           \/ upnp_pc' \in {"begin", "sleep"} /\ missed' = Igd
      BY Zenon, <1>2 DEF BeginRound, SleepFor
  <2>2. CASE upnp_pc' = "discover" /\ missed' = missed
    <3>1. OnTime' = OnTime /\ OnTime \subseteq Igd
        BY Zenon, <2>1, <2>2, Times DEF OnTime, Kept
    <3>2. \A k \in OnTime : lease[k] + elapsed >= recent_margin
        BY <2>1, <3>1, Times DEF LeaseInv, UPnPTypeOK
    <3>3. QED
        BY Zenon, <1>1, <2>1, <2>2, <3>1, <3>2 DEF LeaseInv
  <2>3. CASE upnp_pc' \in {"begin", "sleep"} /\ missed' = Igd
    <3>1. OnTime' = {}
        BY Zenon, <2>3, Times DEF OnTime, Kept
    <3>2. QED
        BY Zenon, <1>1, <2>1, <2>3, <3>1 DEF LeaseInv
  <2>4. QED
      BY Zenon, <2>1, <2>2, <2>3
<1>3. CASE Discovered
  <2>1. /\ upnp_pc = "discover" /\ UNCHANGED <<lease, slow, lapsed>>
        /\ \/ upnp_pc' = "sleep" /\ missed' = Igd
           \/ /\ upnp_pc' = "add" /\ UNCHANGED elapsed
              /\ \E found \in SUBSET Igd : igds' = found /\ missed' = missed \cup (Igd \ found)
      BY Zenon, <1>3 DEF Discovered, SleepFor
  <2>2. CASE upnp_pc' = "sleep" /\ missed' = Igd
    <3>1. OnTime' = {}
        BY Zenon, <2>2, Times DEF OnTime, Kept
    <3>2. QED
        BY Zenon, <1>1, <2>1, <2>2, <3>1 DEF LeaseInv
  <2>3. CASE /\ upnp_pc' = "add" /\ UNCHANGED elapsed
             /\ \E found \in SUBSET Igd : igds' = found /\ missed' = missed \cup (Igd \ found)
    <3>1. Kept' \subseteq igds' /\ Kept' \subseteq Kept
        BY Zenon, <2>3, Times DEF Kept
    <3>2. \A k \in Kept' : k \notin slow => lease[k] + elapsed >= recent_margin
        BY Zenon, <2>1, <3>1 DEF LeaseInv, OnTime
    <3>3. QED
        BY Zenon, <1>1, <2>1, <2>3, <3>1, <3>2 DEF LeaseInv
  <2>4. QED
      BY Zenon, <2>1, <2>2, <2>3
<1>4. QED
    BY Zenon, <1>2, <1>3

LEMMA AddLease ==
  ASSUME LeaseInv, NEW k \in Igd, AddPortMapping(k)
  PROVE  LeaseInv'
<1>1. lease' \in [Igd -> Nat] /\ \A j \in Igd : j # k => lease'[j] = lease[j]
    BY Zenon, Times DEF LeaseInv, UPnPTypeOK, AddPortMapping
<1>2. UPnPTypeOK'
    BY Zenon, <1>1 DEF LeaseInv, UPnPTypeOK, AddPortMapping
<1>3. /\ upnp_pc = "add" /\ upnp_pc' \in {"add", "query"} /\ igds' = igds \ {k}
      /\ UNCHANGED <<elapsed, success_cnt, slow, lapsed>>
    BY Zenon DEF AddPortMapping
<1>4. \A j \in Kept' : j # k => j \in Kept /\ j \in Igd
    BY Zenon, Times DEF AddPortMapping, Kept
<1>5. \A j \in Kept' : j # k =>
        IF j \in igds' THEN j \notin slow => lease'[j] + elapsed >= recent_margin ELSE Renewed(j)'
  <2> SUFFICES ASSUME NEW j \in Kept', j # k
               PROVE  IF j \in igds' THEN j \notin slow => lease'[j] + elapsed >= recent_margin
                      ELSE Renewed(j)'
      BY Zenon
  <2>1. j \in Kept /\ lease'[j] = lease[j] /\ (j \in igds' <=> j \in igds)
      BY Zenon, <1>1, <1>3, <1>4
  <2>2. IF j \in igds THEN j \notin slow => lease[j] + elapsed >= recent_margin ELSE Renewed(j)
      BY Zenon, <1>3, <2>1 DEF LeaseInv
  <2>3. QED
      BY Zenon, <1>3, <2>1, <2>2 DEF Renewed
<1>6. k \in Kept' => Renewed(k)'
  <2> SUFFICES ASSUME k \in Kept' PROVE Renewed(k)'
      BY Zenon
  <2>1. k \in Renews /\ k \notin missed'
      BY Zenon DEF Kept
  <2>2. upnp_pc' = "query" /\ igd' = k /\ lease'[k] = lease_duration
      BY Zenon, <2>1 DEF AddPortMapping, LeaseInv, UPnPTypeOK
  <2>3. lease'[k] + elapsed' >= lease_duration
      BY <1>3, <2>2, Times DEF LeaseInv, UPnPTypeOK
  <2>4. QED
      BY Zenon, <2>2, <2>3 DEF Renewed
<1>7. QED
    BY Zenon, <1>2, <1>3, <1>5, <1>6 DEF LeaseInv

LEMMA QueryLease ==
  ASSUME LeaseInv, MappingDuration
  PROVE  LeaseInv'
<1>1. igd \in Igd /\ lease[igd] \in Nat
    BY Zenon DEF LeaseInv, UPnPTypeOK, MappingDuration
<1>2. /\ upnp_pc = "query" /\ upnp_pc' \in {"add", "address"}
      /\ query_begin' = 0 /\ UNCHANGED <<lease, igds, elapsed, wait, slow, lapsed>>
    BY Zenon DEF MappingDuration
<1>3. \/ /\ missed' = missed \cup {igd}
         /\ UNCHANGED <<success_cnt, buggy>>
      \/ /\ UNCHANGED <<missed, success_cnt>> /\ lease_duration >= lease[igd] + recent_margin
         /\ buggy' = buggy \/ buggy' = {query_begin + lease[igd]}
      \/ UNCHANGED <<missed, buggy>> /\ success_cnt' = success_cnt + 1
    BY Zenon DEF MappingDuration, get_mapping_duration
<1>4. UPnPTypeOK'
  <2>1. query_begin + lease[igd] \in Nat /\ success_cnt + 1 \in Nat
      BY <1>1 DEF LeaseInv, UPnPTypeOK
  <2>2. buggy' \subseteq Nat /\ success_cnt' \in Nat
      BY Zenon, <1>3, <2>1 DEF LeaseInv, UPnPTypeOK
  <2>3. 0 \in Nat
      OBVIOUS
  <2>4. QED
      BY Zenon, <1>2, <2>2, <2>3 DEF LeaseInv, UPnPTypeOK
<1>5. Kept' \subseteq Kept
    BY Zenon, <1>3 DEF Kept
<1>6. ASSUME NEW k \in Kept', k \notin igds PROVE Renewed(k)'
  <2>1. /\ Renewed(k) /\ lease' = lease /\ elapsed' = elapsed
        /\ success_cnt \in Nat
      BY Zenon, <1>2, <1>5, <1>6 DEF LeaseInv, UPnPTypeOK
  <2>2. success_cnt > 0 => success_cnt' > 0
      BY <1>3, <2>1
  <2>3. CASE k # igd
      BY Zenon, <2>1, <2>2, <2>3 DEF Renewed
  <2>4. CASE k = igd
    <3>1. igd \notin missed'
        BY Zenon, <2>4 DEF Kept
    <3>2. lease_duration >= lease[k] + recent_margin \/ success_cnt' > 0
        BY <1>3, <2>1, <2>4, <3>1
    <3>3. lease[k] + recent_margin <= lease_duration \/ success_cnt' > 0
        BY <1>1, <2>4, <3>2, Times
    <3>4. QED
        BY Zenon, <2>1, <3>3 DEF Renewed
  <2>5. QED
      BY Zenon, <2>3, <2>4
<1>7. QED
    BY Zenon, <1>2, <1>4, <1>5, <1>6 DEF LeaseInv

LEMMA EndLease ==
  ASSUME LeaseInv, EndRound
  PROVE  LeaseInv'
<1>1. UPnPTypeOK'
    BY Zenon, WaitTimeNat DEF LeaseInv, UPnPTypeOK, EndRound, SleepFor, RoundOver
<1>2. /\ upnp_pc = "add" /\ igds = {} /\ upnp_pc' = "sleep" /\ wait' = wait_time
      /\ UNCHANGED <<lease, missed, lapsed>>
      /\ slow' = {k \in Igd : lease[k] + recent_margin <= lease_duration}
    BY Zenon DEF EndRound, SleepFor
<1>3. ASSUME NEW k \in OnTime' PROVE lease[k] >= wait_time + recent_margin
  <2>1. k \in Kept /\ k \in Igd /\ k \notin slow'
      BY Zenon, <1>2, <1>3, Times DEF OnTime, Kept
  <2>2. /\ lease[k] \in Nat /\ elapsed \in Nat /\ Renewed(k)
        /\ ~(lease[k] + recent_margin <= lease_duration)
      BY Zenon, <1>2, <2>1 DEF LeaseInv, UPnPTypeOK
  <2>3. success_cnt > 0 /\ lease[k] + elapsed >= lease_duration
      BY Zenon, <1>2, <2>2 DEF Renewed
  <2>4. wait_time = Minus(success_wait_time, elapsed)
      BY Zenon, <2>3 DEF wait_time
  <2>5. success_wait_time = lease_duration - recent_margin /\ success_wait_time \in Nat
      BY Times DEF success_wait_time
  <2>6. CASE success_wait_time >= elapsed
    <3>1. wait_time = success_wait_time - elapsed
        BY Zenon, <2>2, <2>4, <2>5, <2>6, MinusNat
    <3>2. QED
        BY <2>2, <2>3, <2>5, <3>1, Times
  <2>7. CASE success_wait_time < elapsed
    <3>1. wait_time = 0
        BY Zenon, <2>2, <2>4, <2>5, <2>7, MinusNat
    <3>2. QED
        BY <2>2, <3>1, Times
  <2>8. QED
      BY <2>2, <2>5, <2>6, <2>7
<1>4. QED
    BY Zenon, <1>1, <1>2, <1>3 DEF LeaseInv

LEMMA LeaseStep == LeaseInv /\ [UPnPNext]_upnp_vars => LeaseInv'
<1> SUFFICES ASSUME LeaseInv, [UPnPNext]_upnp_vars PROVE LeaseInv'
    BY Zenon
<1>1. CASE UPnPTick
    BY Zenon, <1>1, TickLease
<1>2. CASE BeginRound \/ Discovered
    BY Zenon, <1>2, RoundLease
<1>3. ASSUME NEW k \in Igd, AddPortMapping(k) PROVE LeaseInv'
    BY Zenon, <1>3, AddLease
<1>4. CASE MappingDuration
    BY Zenon, <1>4, QueryLease
<1>5. CASE ExternalAddress
    BY Zenon, <1>5 DEF LeaseInv, UPnPTypeOK, ExternalAddress, Renewed, Kept, OnTime
<1>6. CASE EndRound
    BY Zenon, <1>6, EndLease
<1>7. CASE WaitOver
  <2>1. OnTime' = OnTime /\ OnTime \subseteq Igd
      BY Zenon, <1>7, Times DEF WaitOver, OnTime, Kept
  <2>2. \A k \in OnTime : lease[k] >= recent_margin
      BY <1>7, <2>1, Times DEF LeaseInv, UPnPTypeOK, WaitOver
  <2>3. QED
      BY Zenon, <1>7, <2>1, <2>2 DEF LeaseInv, UPnPTypeOK, WaitOver
<1>8. CASE LoopThrows
  <2>1. OnTime' = {}
      BY Zenon, <1>8, Times DEF LoopThrows, OnTime, Kept
  <2>2. QED
      BY Zenon, <1>8, <2>1, Times DEF LeaseInv, UPnPTypeOK, LoopThrows, SleepFor, RoundOver
<1>9. CASE UpdaterGone
    BY Zenon, <1>9 DEF LeaseInv, UPnPTypeOK, UpdaterGone
<1>10. CASE UNCHANGED upnp_vars
    BY Zenon, <1>10 DEF LeaseInv, UPnPTypeOK, Kept, OnTime, Renewed, upnp_vars
<1>11. QED
    BY Zenon, <1>1, <1>2, <1>3, <1>4, <1>5, <1>6, <1>7, <1>8, <1>9, <1>10 DEF UPnPNext

\* For any devices, any lease of at least two margins and requests that take any
\* time, the loop loses the mapping on a device that renews and answers only
\* when this round has lasted for the margin already, or the last one went on
\* for the margin after the device was asked.
THEOREM MappingsAreKept == UPnPSpec => []MappingKept
<1>1. LeaseInv => MappingKept
    BY Zenon DEF LeaseInv, MappingKept
<1>2. QED
    BY LeaseInit, LeaseStep, <1>1, PTL DEF UPnPSpec

=============================================================================
