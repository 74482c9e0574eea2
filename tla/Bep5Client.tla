----------------------------- MODULE Bep5Client -----------------------------
(***************************************************************************)
(* Finding and connecting to injectors (src/ouiservice/bep5/client.cpp).   *)
(* Swarm::loop keeps looking a swarm up in the DHT and keeps the last      *)
(* endpoints in an LRU cache; connect() waits for the swarms it is told to *)
(* use and tries all their peers at once; InjectorPinger connects to       *)
(* injectors from time to time, and has this client announced as a helper  *)
(* when one was reached.                                                   *)
(*                                                                         *)
(* Endpoints are numbers.  What a lookup finds and which peers accept are  *)
(* chosen freely.  connect() starts its attempts one at a time, as it does *)
(* when there are more than its semaphore has locks (the timers that       *)
(* should keep a lock for 100 ms are destroyed at once and give it back).  *)
(* Left out: _last_working_ep, which only decides which attempt starts     *)
(* first, and status_loop, which only logs.                                *)
(***************************************************************************)
EXTENDS Naturals, Sequences, SequencesExt, FiniteSets

CONSTANTS
    Found,          \* [swarm -> the sets of endpoints a lookup may find]
    Self,           \* our own endpoints
    Capacity,       \* [swarm -> capacity of its cache]
    Targets,        \* sets of swarms connect() may be called for
    MaxCalls        \* bound on the calls of connect()

Swarm == DOMAIN Found

\* The swarms are at most two, "injector" and "helper".
ASSUME Bep5Assumption == IsFiniteSet(Swarm) /\ "none" \notin Swarm

VARIABLES
    swarm,          \* of each: [loop, peers, ready]; peers: most recent first
    locks,          \* of each: who waits for it to be ready
    started,        \* where start() is: "no", "select" or "yes"
    pinger,         \* "off", "ready", "sleep" or "ping"
    seen,           \* _injector_was_seen
    call,           \* connect(): [pc, target, n, cancelled, open, jobs, result]
    lookup,         \* the coroutine of connect() for each swarm
    channel,        \* lists of candidates sent and not received yet
    candidates,     \* candidates received and not picked yet
    used,           \* used_candidates
    attempts,       \* attempts under way: [ep, type, stage]
    \* history:
    tries,          \* how often this call tried each endpoint
    offered,        \* endpoints this call's lookups found
    evidence,       \* an injector was reached since the last announcement
    announced       \* the last announcement had such evidence

swarmvars == <<swarm, locks>>
pingvars  == <<pinger, seen, evidence, announced>>
callvars  == <<call, lookup, channel, candidates, used, attempts, tries, offered>>
bepvars   == <<swarmvars, started, pingvars, callvars>>

NoPeer == [ep |-> 0, type |-> "none"]
Idle(n) == [pc |-> "idle", target |-> {}, n |-> n, cancelled |-> FALSE, open |-> FALSE,
            jobs |-> 0, result |-> NoPeer]
Endpoint == UNION UNION {Found[s] : s \in Swarm}

Bep5Init ==
    /\ swarm = [s \in Swarm |-> [loop |-> "off", peers |-> <<>>, ready |-> "never"]]
    /\ locks = [s \in Swarm |-> {}]
    /\ started = "no"
    /\ pinger = "off"
    /\ seen = FALSE
    /\ call = Idle(0)
    /\ lookup = [s \in Swarm |-> "none"]
    /\ channel = <<>>
    /\ candidates = {}
    /\ used = {}
    /\ attempts = {}
    /\ tries = [e \in Endpoint |-> 0]
    /\ offered = {}
    /\ evidence = FALSE
    /\ announced = TRUE

-----------------------------------------------------------------------------
(***************************************************************************)
(* Swarm.                                                                  *)
(***************************************************************************)
\* LruCache::get and put, most recent first.
get(cache, e) == <<e>> \o SelectSeq(cache, LAMBDA f : f # e)
put(cache, e, capacity) ==
    LET c == get(cache, e)
    IN  IF Len(c) > capacity THEN Front(c) ELSE c

\* Known ones move to the front, new ones are put there, in the order of eps.
add_peers(s, eps) ==
    FoldLeft(LAMBDA cache, e : IF Contains(cache, e) THEN get(cache, e)
                               ELSE put(cache, e, Capacity[s]),
             swarm[s].peers, SetToSortSeq(eps \ Self, <))

\* A turn of Swarm::loop: a lookup that finds nothing is repeated, as is one whose
\* peers are all our own; else those who wait are released.
swarm_loop(s, eps) ==
    LET peers == add_peers(s, eps)
    IN  /\ swarm[s].loop = "lookup"
        /\ eps # {} /\ peers # <<>>
        /\ swarm' = [swarm EXCEPT ![s] = [loop |-> "sleep", peers |-> peers,
                                          ready |-> "fresh"]]
        /\ locks' = [locks EXCEPT ![s] = {}]
        /\ UNCHANGED <<started, pingvars, callvars>>

\* The sleep after a lookup ends.
LookAgain(s) ==
    /\ swarm[s].loop = "sleep"
    /\ swarm' = [swarm EXCEPT ![s].loop = "lookup"]
    /\ UNCHANGED <<locks, started, pingvars, callvars>>

\* Lookups have failed for five minutes: is_ready() is false again.
Stale(s) ==
    /\ swarm[s].loop = "lookup" /\ swarm[s].ready = "fresh"
    /\ swarm' = [swarm EXCEPT ![s].ready = "stale"]
    /\ UNCHANGED <<locks, started, pingvars, callvars>>

is_ready(s) == swarm[s].ready = "fresh"

-----------------------------------------------------------------------------
(***************************************************************************)
(* start() and InjectorPinger.                                             *)
(***************************************************************************)
start ==
    /\ started = "no"
    /\ started' = "select"
    /\ swarm' = [s \in Swarm |-> [swarm[s] EXCEPT !.loop = "lookup"]]
    /\ locks' = [s \in Swarm |-> {"start"}]
    /\ UNCHANGED <<pingvars, callvars>>

\* One of the swarms is ready; the wait for the other is cancelled.  Without
\* helpers there is no pinger.
Selected ==
    /\ started = "select"
    /\ \E s \in Swarm : "start" \notin locks[s]
    /\ started' = "yes"
    /\ IF "helper" \in Swarm
       THEN /\ pinger' = IF is_ready("injector") THEN "ping" ELSE "ready"
            /\ locks' = [s \in Swarm |->
                           (locks[s] \ {"start"}) \cup
                           (IF s = "injector" /\ ~is_ready(s) THEN {"pinger"} ELSE {})]
       ELSE /\ UNCHANGED pinger
            /\ locks' = [s \in Swarm |-> locks[s] \ {"start"}]
    /\ UNCHANGED <<swarm, seen, evidence, announced, callvars>>

\* The first ping is not preceded by a sleep.
PingerReady ==
    /\ pinger = "ready" /\ "pinger" \notin locks["injector"]
    /\ pinger' = "ping"
    /\ seen' = FALSE
    /\ UNCHANGED <<swarmvars, started, evidence, announced, callvars>>

\* The pause is over.  If an injector was seen during it, this client is
\* announced as a helper and the loop starts over.
PingerWakes ==
    /\ pinger = "sleep"
    /\ IF seen THEN seen' = FALSE /\ announced' = evidence /\ evidence' = FALSE /\ UNCHANGED pinger
               ELSE pinger' = "ping" /\ UNCHANGED <<seen, evidence, announced>>
    /\ UNCHANGED <<swarmvars, started, callvars>>

\* ping_injectors: the first injector to answer cancels the other pings and
\* this client is announced, or all of them fail or time out.  Either way the
\* loop starts over, and an injector seen meanwhile is forgotten.
Pinged(answered) ==
    /\ pinger = "ping"
    /\ answered => swarm["injector"].peers # <<>>
    /\ pinger' = "sleep"
    /\ seen' = FALSE
    /\ evidence' = (evidence /\ ~answered)
    /\ UNCHANGED <<swarmvars, started, announced, callvars>>

-----------------------------------------------------------------------------
(***************************************************************************)
(* connect(): a coroutine per swarm finds candidates, one per candidate    *)
(* tries it.                                                               *)
(***************************************************************************)
\* Without a swarm to use the call fails at once.
connect(target) ==
    /\ call.pc = "idle" /\ call.n < MaxCalls
    /\ LET swarms == IF started = "no" THEN {} ELSE target \cap Swarm
       IN  IF swarms = {}
           THEN call' = Idle(call.n + 1) /\ UNCHANGED lookup
           ELSE /\ call' = [Idle(call.n + 1) EXCEPT !.pc = "receive", !.target = swarms,
                                                    !.open = TRUE, !.jobs = Cardinality(swarms)]
                /\ lookup' = [s \in Swarm |-> IF s \in swarms THEN "start" ELSE "none"]
    /\ UNCHANGED <<swarmvars, started, pingvars, channel, candidates, used, attempts, tries,
                   offered>>

\* wait_for_ready in the coroutine of a swarm.
wait_for_ready(s) ==
    /\ lookup[s] = "start" /\ ~call.cancelled
    /\ IF is_ready(s)
       THEN lookup' = [lookup EXCEPT ![s] = "ready"] /\ UNCHANGED locks
       ELSE /\ lookup' = [lookup EXCEPT ![s] = "wait"]
            /\ locks' = [locks EXCEPT ![s] = @ \cup {"call"}]
    /\ UNCHANGED <<swarm, started, pingvars, call, channel, candidates, used, attempts, tries,
                   offered>>

\* The peers of a swarm that is ready are sent to connect(); there is room
\* for those of both swarms.
SendCandidates(s) ==
    /\ \/ lookup[s] = "ready"
       \/ lookup[s] = "wait" /\ "call" \notin locks[s]
    /\ ~call.cancelled
    /\ lookup' = [lookup EXCEPT ![s] = "sent"]
    /\ channel' = Append(channel, {[ep |-> e, type |-> s] : e \in Range(swarm[s].peers)})
    /\ offered' = offered \cup Range(swarm[s].peers)
    /\ UNCHANGED <<swarmvars, started, pingvars, call, candidates, used, attempts, tries>>

\* Mutant of LookupDone: the first coroutine to finish closes the channel.
LookupDoneFirst(s) ==
    /\ lookup[s] = "sent" /\ ~call.cancelled
    /\ lookup' = [lookup EXCEPT ![s] = "done"]
    /\ call' = [call EXCEPT !.jobs = @ - 1, !.open = FALSE]
    /\ UNCHANGED <<swarmvars, started, pingvars, channel, candidates, used, attempts, tries,
                   offered>>

\* The send has completed: the last coroutine closes the channel.
LookupDone(s) ==
    /\ lookup[s] = "sent" /\ ~call.cancelled
    /\ lookup' = [lookup EXCEPT ![s] = "done"]
    /\ call' = [call EXCEPT !.jobs = @ - 1, !.open = @ /\ call.jobs > 1]
    /\ UNCHANGED <<swarmvars, started, pingvars, channel, candidates, used, attempts, tries,
                   offered>>

\* A coroutine that spawn_cancel cancelled ends where it waits.
LookupCancelled(s) ==
    /\ call.cancelled /\ lookup[s] \in {"start", "wait", "ready", "sent"}
    /\ lookup' = [lookup EXCEPT ![s] = "done"]
    /\ locks' = [locks EXCEPT ![s] = @ \ {"call"}]
    /\ UNCHANGED <<swarm, started, pingvars, call, channel, candidates, used, attempts, tries,
                   offered>>

\* Candidates that were tried before are left out (try_insert).
Receive ==
    /\ call.pc = "receive" /\ ~call.cancelled
    /\ \/ /\ channel # <<>>
          /\ candidates' = {c \in Head(channel) : c.ep \notin used}
          /\ channel' = Tail(channel)
          /\ call' = [call EXCEPT !.pc = "pick"]
       \/ /\ channel = <<>> /\ ~call.open
          /\ call' = [call EXCEPT !.pc = "join"]
          /\ UNCHANGED <<channel, candidates>>
    /\ UNCHANGED <<swarmvars, started, pingvars, lookup, used, attempts, tries, offered>>

\* pick_candidate, and a coroutine that connects to what it returns.  After
\* spawn_cancel both loops end.
pick_candidate ==
    /\ call.pc = "pick" /\ ~call.cancelled
    /\ \/ \E c \in candidates :
             /\ candidates' = candidates \ {c}
             /\ used' = used \cup {c.ep}
             /\ tries' = [tries EXCEPT ![c.ep] = @ + 1]
             /\ attempts' = attempts \cup {[ep |-> c.ep, type |-> c.type, stage |-> "connect"]}
             /\ UNCHANGED call
       \/ /\ candidates = {}
          /\ call' = [call EXCEPT !.pc = "receive"]
          /\ UNCHANGED <<candidates, used, attempts, tries>>
    /\ UNCHANGED <<swarmvars, started, pingvars, lookup, channel, offered>>

LoopsEnd ==
    /\ call.pc \in {"receive", "pick"} /\ call.cancelled
    /\ call' = [call EXCEPT !.pc = "join"]
    /\ UNCHANGED <<swarmvars, started, pingvars, lookup, channel, candidates, used, attempts,
                   tries, offered>>

\* connect_single: uTP gives up after its retries; the CONNECT through a
\* helper and the TLS handshake have no time limit.
Connected(a) ==
    /\ a.stage = "connect"
    /\ attempts' = (attempts \ {a}) \cup {[a EXCEPT !.stage = "handshake"]}
    /\ UNCHANGED <<swarmvars, started, pingvars, call, lookup, channel, candidates, used, tries,
                   offered>>

AttemptFails(a) ==
    /\ attempts' = attempts \ {a}
    /\ UNCHANGED <<swarmvars, started, pingvars, call, lookup, channel, candidates, used, tries,
                   offered>>

\* The connection becomes the result, replacing an earlier one; spawn_cancel
\* ends the lookups and closes the channel.
AttemptSucceeds(a) ==
    /\ a.stage = "handshake"
    /\ attempts' = attempts \ {a}
    /\ call' = [call EXCEPT !.result = [ep |-> a.ep, type |-> a.type], !.cancelled = TRUE,
                            !.open = FALSE]
    /\ UNCHANGED <<swarmvars, started, pingvars, lookup, channel, candidates, used, tries,
                   offered>>

\* What the frame of connect() leaves behind when it is gone.
FrameGone ==
    /\ call' = Idle(call.n)
    /\ lookup' = [s \in Swarm |-> "none"]
    /\ channel' = <<>>
    /\ candidates' = {}
    /\ used' = {}
    /\ attempts' = {}
    /\ tries' = [e \in Endpoint |-> 0]
    /\ offered' = {}

Joined == call.pc = "join" /\ attempts = {} /\ \A s \in Swarm : lookup[s] \in {"none", "done"}

\* All the coroutines have ended.  The pinger learns of an injector reached.
Return ==
    /\ Joined
    /\ seen' = (seen \/ (call.result.type = "injector" /\ pinger # "off"))
    /\ evidence' = (evidence \/ call.result.type = "injector")
    /\ FrameGone
    /\ UNCHANGED <<swarmvars, started, pinger, announced>>

\* The caller cancels the call, and with it everything it has spawned.
CallerCancels ==
    /\ call.pc # "idle"
    /\ FrameGone
    /\ locks' = [s \in Swarm |-> locks[s] \ {"call"}]
    /\ UNCHANGED <<swarm, started, pingvars>>

CallStep ==
    \/ \E s \in Swarm : wait_for_ready(s) \/ SendCandidates(s) \/ LookupDone(s) \/ LookupCancelled(s)
    \/ Receive \/ pick_candidate \/ LoopsEnd \/ Return

AttemptStep(a) == Connected(a) \/ AttemptFails(a) \/ AttemptSucceeds(a)

SwarmStep ==
    \/ start \/ Selected
    \/ \E s \in Swarm : LookAgain(s) \/ Stale(s) \/ \E eps \in Found[s] : swarm_loop(s, eps)
    \/ PingerReady \/ PingerWakes \/ \E answered \in BOOLEAN : Pinged(answered)

Bep5Next ==
    \/ SwarmStep
    \/ CallStep
    \/ \E target \in Targets : connect(target)
    \/ CallerCancels
    \/ \E a \in attempts : AttemptStep(a)

Bep5Spec == Bep5Init /\ [][Bep5Next]_bepvars

-----------------------------------------------------------------------------
(***************************************************************************)
(* Properties.                                                             *)
(***************************************************************************)
\* A call of connect() that fails has waited for every swarm it was to use,
\* and has tried every peer that these had, each of them once.
FailureIsExhaustive ==
    Joined /\ call.result = NoPeer =>
        /\ \A s \in call.target : lookup[s] = "done"
        /\ \A e \in Endpoint : tries[e] = IF e \in offered THEN 1 ELSE 0

\* This client is announced as a helper only if an injector was reached since
\* the last time it was (_injector_was_seen in InjectorPinger::loop).
HelperNeedsInjector == announced

=============================================================================
