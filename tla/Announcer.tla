------------------------------ MODULE Announcer ------------------------------
(***************************************************************************)
(* The announcement loop of src/cache/announcer.cpp: a queue of entries    *)
(* (one per swarm the client has something to share in), a loop coroutine  *)
(* that takes due entries from the front of the queue and spawns up to     *)
(* Simultaneous announcing coroutines, and the calls add and remove made   *)
(* by the cache client from other coroutines of the same executor.         *)
(*                                                                         *)
(* The executor is single threaded: a coroutine keeps running until it     *)
(* suspends.  The loop runs without suspending while pc = "pick"; every    *)
(* other action waits for it to suspend (Suspended).                       *)
(*                                                                         *)
(* Time is counted in ticks.  The code keeps the time points of the last   *)
(* successful and failed update of an entry; the model keeps what          *)
(* next_update_after computes from them: the outcome of the last update    *)
(* and the number of ticks (due) until the next one.                       *)
(***************************************************************************)
EXTENDS Integers, Sequences, FiniteSets, SequencesExt

CONSTANTS
    Key,            \* swarm names
    Simultaneous,   \* _simultaneous_announcements
    SuccessPeriod,  \* success_reannounce_period(), in ticks
    FailurePeriod,  \* failure_reannounce_period(), in ticks
    MaxOps          \* bound: number of calls of add and remove

ASSUME SimultaneousAssumption == Simultaneous \in Nat \ {0}
ASSUME PeriodAssumption == SuccessPeriod \in Nat /\ FailurePeriod \in Nat
ASSUME MaxOpsAssumption == MaxOps \in Nat

VARIABLES
    entries,  \* Loop::entries
    jobs,     \* the coroutine spawned in each of the slots of a batch
    pc,       \* where the loop coroutine is
    n,        \* its loop counter: the next slot to fill, from 1
    timer,    \* ticks left of the sleep in pick_entry
    wanted,   \* history: was the last call for a key an add?
    ops       \* calls made so far, for MaxOps

vars == <<entries, jobs, pc, n, timer, wanted, ops>>

-----------------------------------------------------------------------------
Slot == 1 .. Simultaneous

Attempts == 3

Outcome == {"never", "success", "failure"}

\* Ticks until the next update of an entry that was just updated.
next_update_after(outcome) ==
    CASE outcome = "never"   -> 0
      [] outcome = "success" -> SuccessPeriod
      [] outcome = "failure" -> FailurePeriod

Entry == [key : Key, outcome : Outcome, due : Nat, to_remove : BOOLEAN]

NewEntry(k) == [key |-> k, outcome |-> "never",
                due |-> next_update_after("never"), to_remove |-> FALSE]

attempted_update(e) == e.outcome # "never"

Idle == [tries |-> -1]

\* An announcing coroutine: the entry it moved out of the queue, and the
\* number of attempts that have failed.
Job == [entry : Entry, tries : 0 .. Attempts] \cup {Idle}

Busy(s) == jobs[s] # Idle

InFlight(k) == \E s \in Slot : Busy(s) /\ jobs[s].entry.key = k

Queued(k) == \E i \in DOMAIN entries : entries[i].key = k

Suspended == pc \notin {"pick", "stopped"}

\* Mutant of Notify: the waiting coroutine is not woken.
NotifyNobody == pc' = pc

\* Entries::insert and Entries::push_back notify the coroutine that waits in
\* async_wait_for_push, if there is one.
Notify == pc' = IF pc = "wait_push" THEN "notified" ELSE pc

-----------------------------------------------------------------------------
\* The construction of a Bep5Announcer; the loop waits for the DHT.
Init ==
    /\ entries = <<>>
    /\ jobs = [s \in Slot |-> Idle]
    /\ pc = "wait_dht"
    /\ n = 1
    /\ timer = 0
    /\ wanted = [k \in Key |-> FALSE]
    /\ ops = 0

\* 0 stands for entries.end().
find_entry_by_key(k) == SelectInSeq(entries, LAMBDA e : e.key = k)

\* Where add puts a new entry: after the entries that were never updated.
InsertPosition ==
    LET i == SelectInSeq(entries, attempted_update)
    IN  IF i = 0 THEN Len(entries) + 1 ELSE i

Call(k, want) ==
    /\ Suspended
    /\ ops < MaxOps
    /\ ops' = ops + 1
    /\ wanted' = [wanted EXCEPT ![k] = want]
    /\ UNCHANGED <<jobs, n, timer>>

\* Mutant of add: an entry marked for removal keeps its mark.
add_keeps_mark(k) ==
    /\ Call(k, TRUE)
    /\ \/ /\ find_entry_by_key(k) # 0
          /\ UNCHANGED <<entries, pc>>
       \/ /\ find_entry_by_key(k) = 0
          /\ entries' = InsertAt(entries, InsertPosition, NewEntry(k))
          /\ Notify

\* Nothing listens to _timer_cancel, which add triggers: the slot connected
\* in pick_entry forwards in the other direction.  So a sleep goes on.
add(k) ==
    /\ Call(k, TRUE)
    /\ LET i == find_entry_by_key(k)
       IN  \/ /\ i # 0
              /\ entries' = [entries EXCEPT ![i].to_remove = FALSE]
              /\ UNCHANGED pc
           \/ /\ i = 0
              /\ entries' = InsertAt(entries, InsertPosition, NewEntry(k))
              /\ Notify

remove(k) ==
    /\ Call(k, FALSE)
    /\ LET i == find_entry_by_key(k)
       IN  entries' = IF i = 0 THEN entries
                      ELSE [entries EXCEPT ![i].to_remove = TRUE]
    /\ UNCHANGED pc

-----------------------------------------------------------------------------
\* The loop coroutine.

DhtReady ==
    /\ pc = "wait_dht"
    /\ pc' = "pick"
    /\ UNCHANGED <<entries, jobs, n, timer, wanted, ops>>

\* pick_entry, no entry to pick.
WaitForPush ==
    /\ pc = "pick" /\ n \in Slot
    /\ entries = <<>>
    /\ pc' = "wait_push"
    /\ UNCHANGED <<entries, jobs, n, timer, wanted, ops>>

Pushed ==
    /\ pc = "notified"
    /\ pc' = "pick"
    /\ UNCHANGED <<entries, jobs, n, timer, wanted, ops>>

\* pick_entry, the first entry is not due.
Sleep ==
    /\ pc = "pick" /\ n \in Slot
    /\ entries # <<>> /\ Head(entries).due > 0
    /\ timer' = Head(entries).due
    /\ pc' = "sleep"
    /\ UNCHANGED <<entries, jobs, n, wanted, ops>>

Awake ==
    /\ pc = "sleep" /\ timer = 0
    /\ pc' = "pick"
    /\ UNCHANGED <<entries, jobs, n, timer, wanted, ops>>

\* pick_entry returns the first entry.
Picked == /\ pc = "pick" /\ n \in Slot
          /\ entries # <<>> /\ Head(entries).due = 0

DropEntry ==
    /\ Picked
    /\ Head(entries).to_remove
    /\ entries' = Tail(entries)
    /\ n' = n + 1
    /\ UNCHANGED <<jobs, pc, timer, wanted, ops>>

\* The spawned coroutine moves the entry out of the queue before it suspends.
SpawnJob ==
    /\ Picked
    /\ ~Head(entries).to_remove
    /\ jobs' = [jobs EXCEPT ![n] = [entry |-> Head(entries), tries |-> 0]]
    /\ entries' = Tail(entries)
    /\ n' = n + 1
    /\ UNCHANGED <<pc, timer, wanted, ops>>

\* wc.wait: every coroutine of the batch has released its lock.
AllReleased == \A s \in Slot : ~Busy(s)

WaitForJobs ==
    /\ pc = "pick" /\ n \notin Slot
    /\ ~AllReleased
    /\ pc' = "wait_jobs"
    /\ UNCHANGED <<entries, jobs, n, timer, wanted, ops>>

NextBatch ==
    /\ \/ pc = "pick" /\ n \notin Slot
       \/ pc = "wait_jobs"
    /\ AllReleased
    /\ pc' = "pick"
    /\ n' = 1
    /\ UNCHANGED <<entries, jobs, timer, wanted, ops>>

-----------------------------------------------------------------------------
\* The announcing coroutines.

\* The end of a coroutine: the entry goes back to the end of the queue.
Finish(s, outcome) ==
    LET e == [jobs[s].entry EXCEPT !.outcome = outcome,
                                   !.due = next_update_after(outcome)]
    IN  /\ jobs' = [jobs EXCEPT ![s] = Idle]
        /\ \/ /\ ~e.to_remove
              /\ entries' = Append(entries, e)
              /\ Notify
           \/ /\ e.to_remove
              /\ UNCHANGED <<entries, pc>>
        /\ UNCHANGED <<n, timer, wanted, ops>>

AnnounceSucceeds(s) ==
    /\ Suspended /\ Busy(s)
    /\ jobs[s].tries < Attempts
    /\ Finish(s, "success")

\* announce returned an error; the coroutine sleeps and tries again.
AnnounceFails(s) ==
    /\ Suspended /\ Busy(s)
    /\ jobs[s].tries < Attempts
    /\ jobs' = [jobs EXCEPT ![s].tries = @ + 1]
    /\ UNCHANGED <<entries, pc, n, timer, wanted, ops>>

GiveUp(s) ==
    /\ Suspended /\ Busy(s)
    /\ jobs[s].tries = Attempts
    /\ Finish(s, "failure")

JobStep(s) == AnnounceSucceeds(s) \/ AnnounceFails(s) \/ GiveUp(s)

-----------------------------------------------------------------------------
Elapse(t) == IF t = 0 THEN 0 ELSE t - 1

Tick ==
    /\ pc # "pick"
    /\ entries' = [i \in DOMAIN entries |->
                      [entries[i] EXCEPT !.due = Elapse(@)]]
    /\ timer' = Elapse(timer)
    /\ UNCHANGED <<jobs, pc, n, wanted, ops>>

\* ~Loop: every coroutine of the loop is cancelled and changes nothing more.
Destroy ==
    /\ Suspended
    /\ pc' = "stopped"
    /\ entries' = <<>>
    /\ jobs' = [s \in Slot |-> Idle]
    /\ timer' = 0
    /\ UNCHANGED <<n, wanted, ops>>

LoopStep == \/ DhtReady \/ WaitForPush \/ Pushed \/ Sleep \/ Awake
            \/ DropEntry \/ SpawnJob \/ WaitForJobs \/ NextBatch

Next ==
    \/ \E k \in Key : add(k) \/ remove(k)
    \/ LoopStep
    \/ \E s \in Slot : JobStep(s)
    \/ Tick
    \/ Destroy

Spec == Init /\ [][Next]_vars

\* The executor runs every posted handler, timers expire, and an announcement
\* ends (the DHT's requests time out).  The DHT becomes ready.
Fairness ==
    /\ WF_vars(LoopStep)
    /\ WF_vars(Tick)
    /\ \A s \in Slot : WF_vars(JobStep(s))

-----------------------------------------------------------------------------
\* Properties.

TypeOK ==
    /\ entries \in Seq(Entry)
    /\ jobs \in [Slot -> Job]
    /\ pc \in {"wait_dht", "pick", "wait_push", "notified", "sleep",
               "wait_jobs", "stopped"}
    /\ n \in 1 .. Simultaneous + 1
    /\ timer \in Nat
    /\ wanted \in [Key -> BOOLEAN]
    /\ ops \in Nat

\* A key that was added and not removed since is never lost: it is in the
\* queue, not marked for removal, or an announcing coroutine holds it.  The
\* loop drops entries only because of to_remove, add resets the mark, and a
\* coroutine gives its entry back.
KeptWhileWanted ==
    pc # "stopped" =>
        \A k \in Key : wanted[k] =>
            \/ InFlight(k)
            \/ \E i \in DOMAIN entries : /\ entries[i].key = k
                                         /\ ~entries[i].to_remove

\* A batch never grows past Simultaneous coroutines: when the loop is about to
\* spawn the n-th coroutine of a batch, those of the batch before have ended
\* (wc.wait), so slots from n on are free.
BatchBounded ==
    pc \notin {"wait_jobs", "stopped"} =>
        \A s \in Slot : s >= n => ~Busy(s)

\* A key that stays wanted is announced again and again.
KeepsAnnouncing ==
    \A k \in Key :
        <>[](wanted[k] /\ pc # "stopped") => []<>InFlight(k)

-----------------------------------------------------------------------------
\* What the comments say and the code does not do.

\* announcer.cpp on remove: "The actual removal is not done here but in the
\* main loop."
RemovedIsDropped ==
    \A k \in Key :
        ~wanted[k] ~> (wanted[k] \/ ~(Queued(k) \/ InFlight(k)))
=============================================================================
