--------------------------- MODULE CacheProofs -----------------------------
(***************************************************************************)
(* Proofs about Announcer, for every set of keys, batch size, periods and  *)
(* number of calls.                                                        *)
(***************************************************************************)
EXTENDS Announcer, Integers, SequenceTheorems, WellFoundedInduction, TLAPS

-----------------------------------------------------------------------------
(***************************************************************************)
(* Sets of positions and sequences.                                        *)
(***************************************************************************)

\* A set of natural numbers that is not empty has a least element: Min.
LEMMA MinOfNats ==
    ASSUME NEW S \in SUBSET Nat, S # {}
    PROVE  Min(S) \in S /\ \A y \in S : Min(S) =< y
<1> DEFINE R == OpToRel(<, Nat)
<1>1. \A x, y \in Nat : <<x, y>> \in R <=> x < y
    BY Zenon DEF OpToRel
<1>2. IsWellFoundedOn(R, Nat)
    BY Zenon, NatLessThanWellFounded
<1> HIDE DEF R
<1>3. PICK x \in S : \A y \in S : <<y, x>> \notin R
    BY Zenon, <1>2, WFMin
<1>4. ASSUME NEW y \in S PROVE x =< y
    <2>1. x \in Nat /\ y \in Nat
        BY Zenon
    <2>2. ~(y < x)
        BY Zenon, <1>1, <1>3, <2>1
    <2>3. QED
        BY <2>1, <2>2
<1>5. QED
    BY Zenon, <1>4 DEF Min

\* What InsertAt returns: the elements before position i stay, those from i
\* on move up by one.
LEMMA InsertAtProperties ==
    ASSUME NEW S, NEW s \in Seq(S), NEW i \in 1 .. Len(s) + 1, NEW e \in S
    PROVE  /\ InsertAt(s, i, e) \in Seq(S)
           /\ Len(InsertAt(s, i, e)) = Len(s) + 1
           /\ \A j \in 1 .. Len(s) + 1 :
                InsertAt(s, i, e)[j] = IF j < i THEN s[j]
                                       ELSE IF j = i THEN e ELSE s[j - 1]
<1> DEFINE a == SubSeq(s, 1, i - 1)
           b == <<e>>
           c == SubSeq(s, i, Len(s))
<1>0. Len(s) \in Nat /\ i \in Int /\ \A j \in 1 .. Len(s) : s[j] \in S
    BY ElementOfSeq, LenProperties
<1>1. /\ a \in Seq(S) /\ Len(a) = i - 1
      /\ \A j \in 1 .. i - 1 : a[j] = s[j]
    <2>1. \A j \in 1 .. i - 1 : s[j] \in S
        BY <1>0
    <2>2. 1 \in Int /\ i - 1 \in Int
        BY <1>0
    <2> HIDE DEF a
    <2>3. /\ a \in Seq(S)
          /\ Len(a) = IF 1 <= i - 1 THEN i - 1 - 1 + 1 ELSE 0
          /\ \A j \in 1 .. i - 1 - 1 + 1 : a[j] = s[1 + j - 1]
        BY <2>1, <2>2, SubSeqProperties DEF a
    <2>4. QED
        BY <2>3, <1>0
<1>2. /\ c \in Seq(S) /\ Len(c) = Len(s) - i + 1
      /\ \A j \in 1 .. Len(s) - i + 1 : c[j] = s[i + j - 1]
    <2>1. \A j \in i .. Len(s) : s[j] \in S
        BY <1>0
    <2> HIDE DEF c
    <2>2. /\ c \in Seq(S)
          /\ Len(c) = IF i <= Len(s) THEN Len(s) - i + 1 ELSE 0
          /\ \A j \in 1 .. Len(s) - i + 1 : c[j] = s[i + j - 1]
        BY <2>1, <1>0, SubSeqProperties DEF c
    <2>3. QED
        BY <2>2, <1>0
<1>3. b \in Seq(S) /\ Len(b) = 1 /\ b[1] = e
    OBVIOUS
<1>4. InsertAt(s, i, e) = (a \o b) \o c
    BY Zenon DEF InsertAt
<1> HIDE DEF a, b, c
<1> DEFINE ab == a \o b
<1>5. /\ ab \in Seq(S) /\ Len(ab) = i
      /\ \A j \in 1 .. i : ab[j] = IF j <= i - 1 THEN s[j] ELSE e
    <2>1. /\ ab \in Seq(S)
          /\ Len(ab) = Len(a) + Len(b)
          /\ \A j \in 1 .. Len(a) + Len(b) :
                ab[j] = IF j <= Len(a) THEN a[j] ELSE b[j - Len(a)]
        BY Zenon, <1>1, <1>3, ConcatProperties
    <2> HIDE DEF ab
    <2>2. Len(ab) = i
        BY <1>0, <1>1, <1>3, <2>1
    <2>3. ASSUME NEW j \in 1 .. i, j <= i - 1
          PROVE  ab[j] = s[j]
        BY <1>0, <1>1, <1>3, <2>1, <2>3
    <2>4. ab[i] = e
        <3>1. i - Len(a) = 1 /\ i \in 1 .. Len(a) + Len(b) /\ ~(i <= Len(a))
            BY <1>0, <1>1, <1>3
        <3>2. QED
            BY Zenon, <1>3, <2>1, <3>1
    <2>5. QED
        BY <1>0, <2>1, <2>2, <2>3, <2>4
<1> DEFINE abc == ab \o c
<1>6. /\ abc \in Seq(S)
      /\ Len(abc) = Len(s) + 1
      /\ \A j \in 1 .. Len(s) + 1 :
            abc[j] = IF j <= i THEN ab[j] ELSE c[j - i]
    <2> HIDE DEF ab
    <2>1. /\ abc \in Seq(S)
          /\ Len(abc) = Len(ab) + Len(c)
          /\ \A j \in 1 .. Len(ab) + Len(c) :
                abc[j] = IF j <= Len(ab) THEN ab[j] ELSE c[j - Len(ab)]
        BY Zenon, <1>2, <1>5, ConcatProperties
    <2> HIDE DEF abc
    <2>2. QED
        BY <1>0, <1>2, <1>5, <2>1
<1>7. InsertAt(s, i, e) = abc
    BY Zenon, <1>4
<1> HIDE DEF ab, abc
<1>8. ASSUME NEW j \in 1 .. Len(s) + 1
      PROVE  abc[j] = IF j < i THEN s[j] ELSE IF j = i THEN e ELSE s[j - 1]
    <2>1. CASE j <= i
        BY <1>0, <1>5, <1>6, <2>1
    <2>2. CASE j > i
        <3>1. j - i \in 1 .. Len(s) - i + 1 /\ i + (j - i) - 1 = j - 1
            BY <1>0, <2>2
        <3>2. c[j - i] = s[j - 1]
            BY Zenon, <1>2, <3>1
        <3>3. QED
            BY <1>0, <1>6, <2>2, <3>2
    <2>3. QED
        BY <1>0, <2>1, <2>2
<1>9. QED
    BY Zenon, <1>6, <1>7, <1>8

-----------------------------------------------------------------------------
(***************************************************************************)
(* The announcer.                                                          *)
(***************************************************************************)

\* No coroutine holds an entry that was marked for removal before it took it.
JobsUnmarked ==
    \A s \in Slot : Busy(s) => ~jobs[s].entry.to_remove

-----------------------------------------------------------------------------
\* The searches of the queue.

\* find_entry_by_key returns a position that holds the key, or 0 (the end of
\* the list) when none does.
LEMMA FindEntry ==
    ASSUME TypeOK, NEW k \in Key
    PROVE  /\ find_entry_by_key(k) \in 0 .. Len(entries)
           /\ find_entry_by_key(k) # 0 => entries[find_entry_by_key(k)].key = k
           /\ find_entry_by_key(k) = 0 =>
                \A i \in DOMAIN entries : entries[i].key # k
<1> DEFINE I == {i \in 1 .. Len(entries) : entries[i].key = k}
<1>1. entries \in Seq(Entry) /\ Len(entries) \in Nat
      /\ DOMAIN entries = 1 .. Len(entries)
    BY Zenon, LenProperties DEF TypeOK
<1>2. find_entry_by_key(k) = IF I # {} THEN Min(I) ELSE 0
    BY Zenon DEF find_entry_by_key, SelectInSeq
<1>3. CASE I = {}
    BY <1>1, <1>2, <1>3
<1>4. CASE I # {}
    <2>1. I \in SUBSET Nat
        BY <1>1
    <2> HIDE DEF I
    <2>2. Min(I) \in I
        BY Zenon, <2>1, <1>4, MinOfNats
    <2>3. QED
        BY <1>1, <1>2, <1>4, <2>2 DEF I
<1>5. QED
    BY Zenon, <1>3, <1>4

\* InsertPosition is right behind the entries that were never announced.
LEMMA InsertPositionProperties ==
    ASSUME TypeOK
    PROVE  /\ InsertPosition \in 1 .. Len(entries) + 1
           /\ \A i \in DOMAIN entries :
                i < InsertPosition => ~attempted_update(entries[i])
           /\ InsertPosition <= Len(entries) =>
                attempted_update(entries[InsertPosition])
<1> DEFINE I == {i \in 1 .. Len(entries) : attempted_update(entries[i])}
<1>1. entries \in Seq(Entry) /\ Len(entries) \in Nat
      /\ DOMAIN entries = 1 .. Len(entries)
    BY Zenon, LenProperties DEF TypeOK
<1>2. InsertPosition = IF I = {} THEN Len(entries) + 1
                       ELSE IF Min(I) = 0 THEN Len(entries) + 1 ELSE Min(I)
    BY Zenon DEF InsertPosition, SelectInSeq
<1>3. CASE I = {}
    BY <1>1, <1>2, <1>3
<1>4. CASE I # {}
    <2>1. I \in SUBSET Nat
        BY <1>1
    <2> HIDE DEF I
    <2>2. Min(I) \in I /\ \A y \in I : Min(I) =< y
        BY Zenon, <2>1, <1>4, MinOfNats
    <2>3. Min(I) \in 1 .. Len(entries) /\ attempted_update(entries[Min(I)])
        BY Zenon, <2>2 DEF I
    <2>4. InsertPosition = Min(I)
        BY <1>1, <1>2, <1>4, <2>3
    <2>5. ASSUME NEW i \in DOMAIN entries, i < Min(I)
          PROVE  ~attempted_update(entries[i])
        BY <1>1, <2>2, <2>3, <2>5 DEF I
    <2>6. QED
        BY <1>1, <2>3, <2>4, <2>5
<1>5. QED
    BY Zenon, <1>3, <1>4

\* What inserting an entry leaves in the queue.
LEMMA InsertEntry ==
    ASSUME TypeOK, NEW i \in 1 .. Len(entries) + 1, NEW e \in Entry
    PROVE  /\ InsertAt(entries, i, e) \in Seq(Entry)
           /\ Len(InsertAt(entries, i, e)) = Len(entries) + 1
           /\ \A j \in 1 .. Len(entries) + 1 :
                InsertAt(entries, i, e)[j] =
                    IF j < i THEN entries[j]
                    ELSE IF j = i THEN e ELSE entries[j - 1]
<1>1. entries \in Seq(Entry)
    BY Zenon DEF TypeOK
<1> HIDE DEF Entry
<1>2. QED
    BY <1>1, InsertAtProperties

-----------------------------------------------------------------------------
\* Type correctness.

LEMMA NewEntryType == \A k \in Key : NewEntry(k) \in Entry
    BY Zenon DEF NewEntry, Entry, Outcome, next_update_after

LEMMA PeriodType ==
    \A o \in {"success", "failure"} : next_update_after(o) \in Nat
    BY Zenon, PeriodAssumption DEF next_update_after

\* A slot that is busy holds an entry and a number of failed attempts.
LEMMA BusyJob ==
    ASSUME TypeOK, NEW s \in Slot, Busy(s)
    PROVE  jobs[s] \in [entry : Entry, tries : 0 .. Attempts]
    BY Zenon DEF TypeOK, Busy, Job

\* The entry that a coroutine gives back.
Updated(s, outcome) ==
    [jobs[s].entry EXCEPT !.outcome = outcome,
                          !.due = next_update_after(outcome)]

LEMMA UpdatedType ==
    ASSUME TypeOK, NEW s \in Slot, Busy(s),
           NEW o \in {"success", "failure"}
    PROVE  /\ Updated(s, o) \in Entry
           /\ Updated(s, o).key = jobs[s].entry.key
           /\ Updated(s, o).to_remove = jobs[s].entry.to_remove
           /\ attempted_update(Updated(s, o))
<1>1. jobs[s].entry \in Entry
    BY Zenon, BusyJob
<1>2. next_update_after(o) \in Nat
    BY Zenon, PeriodType
<1>3. QED
    BY Zenon, <1>1, <1>2 DEF Updated, Entry, Outcome, attempted_update

\* Every action keeps the types of the variables.
LEMMA TypeStep == TypeOK /\ [Next]_vars => TypeOK'
<1> SUFFICES ASSUME TypeOK, [Next]_vars PROVE TypeOK'
    BY Zenon
<1> USE SimultaneousAssumption
<1>0. entries \in Seq(Entry) /\ Len(entries) \in Nat
      /\ DOMAIN entries = 1 .. Len(entries)
      /\ \A i \in 1 .. Len(entries) : entries[i] \in Entry
    BY Zenon, LenProperties, ElementOfSeq DEF TypeOK
<1>1. ASSUME NEW k \in Key, add(k) PROVE TypeOK'
    <2>1. CASE find_entry_by_key(k) # 0
        <3> DEFINE i == find_entry_by_key(k)
        <3>1. i \in 1 .. Len(entries)
            BY FindEntry, <2>1, <1>0
        <3> HIDE DEF i
        <3>2. entries' = [entries EXCEPT ![i].to_remove = FALSE]
            BY Zenon, <1>1, <2>1 DEF add, i
        <3>3. [entries[i] EXCEPT !.to_remove = FALSE] \in Entry
            <4>1. entries[i] \in Entry
                BY Zenon, <1>0, <3>1
            <4>2. QED
                BY Zenon, <4>1 DEF Entry
        <3>4. entries' \in Seq(Entry)
            BY Zenon, <1>0, <3>1, <3>2, <3>3, ExceptSeq
        <3>5. QED
            BY <1>1, <2>1, <3>4 DEF add, Call, TypeOK
    <2>2. CASE find_entry_by_key(k) = 0
        <3>1. entries' = InsertAt(entries, InsertPosition, NewEntry(k))
            BY Zenon, <1>1, <2>2 DEF add
        <3>2. entries' \in Seq(Entry)
            BY Zenon, <3>1, InsertEntry, InsertPositionProperties, NewEntryType
        <3>3. QED
            BY <1>1, <2>2, <3>2 DEF add, Call, Notify, TypeOK
    <2>3. QED
        BY Zenon, <2>1, <2>2
<1>2. ASSUME NEW k \in Key, remove(k) PROVE TypeOK'
    <2> DEFINE i == find_entry_by_key(k)
    <2>1. i \in 0 .. Len(entries)
        BY Zenon, FindEntry
    <2> HIDE DEF i
    <2>2. entries' = IF i = 0 THEN entries
                     ELSE [entries EXCEPT ![i].to_remove = TRUE]
        BY Zenon, <1>2 DEF remove, i
    <2>3. ASSUME i # 0 PROVE [entries[i] EXCEPT !.to_remove = TRUE] \in Entry
        <3>1. entries[i] \in Entry
            BY <1>0, <2>1, <2>3
        <3>2. QED
            BY Zenon, <3>1 DEF Entry
    <2>4. entries' \in Seq(Entry)
        BY <1>0, <2>1, <2>2, <2>3, ExceptSeq
    <2>5. QED
        BY <1>2, <2>4 DEF remove, Call, TypeOK
<1>3. CASE DropEntry
    BY <1>3 DEF DropEntry, Picked, TypeOK, Slot
<1>4. CASE SpawnJob
    <2>1. Head(entries) \in Entry /\ Tail(entries) \in Seq(Entry)
        BY Zenon, <1>0, <1>4, HeadTailProperties DEF SpawnJob, Picked
    <2>2. [entry |-> Head(entries), tries |-> 0] \in Job
        BY <2>1 DEF Job, Attempts
    <2>3. QED
        BY <1>4, <2>1, <2>2 DEF SpawnJob, Picked, TypeOK, Slot
<1>5. CASE DhtReady \/ WaitForPush \/ Pushed \/ Awake \/ WaitForJobs
    BY Zenon, <1>5 DEF DhtReady, WaitForPush, Pushed, Awake, WaitForJobs, TypeOK
<1>6. CASE Sleep
    <2>1. Head(entries) \in Entry
        BY Zenon, <1>0, <1>6, HeadTailProperties DEF Sleep
    <2>2. QED
        BY Zenon, <1>6, <2>1 DEF Sleep, TypeOK, Entry
<1>7. CASE NextBatch
    BY <1>7 DEF NextBatch, TypeOK
<1>8. ASSUME NEW s \in Slot, NEW o \in {"success", "failure"},
             Busy(s), Finish(s, o)
      PROVE  TypeOK'
    <2>1. entries' = entries \/ entries' = Append(entries, Updated(s, o))
        BY Zenon, <1>8 DEF Finish, Updated
    <2>2. entries' \in Seq(Entry)
        BY <1>0, <1>8, <2>1, UpdatedType, AppendProperties
    <2>3. jobs' \in [Slot -> Job]
        BY Zenon, <1>8 DEF Finish, TypeOK, Job
    <2>4. pc' \in {pc, "notified"}
        BY Zenon, <1>8 DEF Finish, Notify
    <2>5. QED
        BY Zenon, <1>8, <2>2, <2>3, <2>4 DEF Finish, TypeOK
<1>9. ASSUME NEW s \in Slot, JobStep(s) PROVE TypeOK'
    <2>1. CASE AnnounceSucceeds(s)
        BY Zenon, <1>8, <2>1 DEF AnnounceSucceeds
    <2>2. CASE GiveUp(s)
        BY Zenon, <1>8, <2>2 DEF GiveUp
    <2>3. CASE AnnounceFails(s)
        <3>1. jobs[s] \in [entry : Entry, tries : 0 .. Attempts]
            BY Zenon, <2>3, BusyJob DEF AnnounceFails
        <3>2. [jobs[s] EXCEPT !.tries = @ + 1] \in Job
            BY <3>1, <2>3 DEF AnnounceFails, Job, Attempts
        <3>3. jobs' \in [Slot -> Job]
            BY Zenon, <2>3, <3>2 DEF AnnounceFails, TypeOK
        <3>4. QED
            BY Zenon, <2>3, <3>3 DEF AnnounceFails, TypeOK
    <2>4. QED
        BY Zenon, <1>9, <2>1, <2>2, <2>3 DEF JobStep
<1>10. CASE Tick
    <2>1. \A e \in Entry : [e EXCEPT !.due = Elapse(@)] \in Entry
        BY DEF Entry, Elapse
    <2>2. entries' = [i \in 1 .. Len(entries) |->
                        [entries[i] EXCEPT !.due = Elapse(@)]]
        BY Zenon, <1>0, <1>10 DEF Tick
    <2>3. entries' \in Seq(Entry)
        BY <1>0, <2>1, <2>2, SeqDef
    <2>4. QED
        BY <1>10, <2>3 DEF Tick, TypeOK, Elapse
<1>11. CASE Destroy
    BY <1>11 DEF Destroy, TypeOK, Job
<1>12. CASE UNCHANGED vars
    BY Zenon, <1>12 DEF vars, TypeOK
<1>13. QED
    BY Zenon, <1>1, <1>2, <1>3, <1>4, <1>5, <1>6, <1>7, <1>9, <1>10, <1>11, <1>12
       DEF Next, LoopStep

\* The variables of the announcer always have their types.
THEOREM TypeCorrect == Spec => []TypeOK
<1>1. Init => TypeOK
    BY SimultaneousAssumption DEF Init, TypeOK, Job
<1>2. QED
    BY <1>1, TypeStep, PTL DEF Spec

-----------------------------------------------------------------------------
\* Batches, and the keys that must not be lost.

Kept(k) ==
    \/ InFlight(k)
    \/ \E i \in DOMAIN entries : entries[i].key = k /\ ~entries[i].to_remove

\* The inductive invariant behind KeptWhileWanted: SpawnJob must not overwrite
\* a coroutine that still holds an entry (BatchBounded), and an entry that
\* comes back must not be dropped (JobsUnmarked).
KeptInv == TypeOK /\ BatchBounded /\ JobsUnmarked /\ KeptWhileWanted

\* The coroutines of the last batch have ended when a batch begins.
LEMMA BatchStep == TypeOK /\ BatchBounded /\ [Next]_vars => BatchBounded'
<1> SUFFICES ASSUME TypeOK, BatchBounded, [Next]_vars PROVE BatchBounded'
    BY Zenon
<1> USE SimultaneousAssumption DEF BatchBounded, Busy, Slot
<1>1. ASSUME NEW k \in Key, add(k) \/ remove(k) PROVE BatchBounded'
    BY Zenon, <1>1 DEF add, remove, Call, Notify
<1>2. CASE DhtReady \/ WaitForPush \/ Pushed \/ Sleep \/ Awake \/ WaitForJobs
    BY Zenon, <1>2 DEF DhtReady, WaitForPush, Pushed, Sleep, Awake, WaitForJobs
<1>3. CASE DropEntry
    BY <1>3 DEF DropEntry, Picked, TypeOK
<1>4. CASE SpawnJob
    BY <1>4 DEF SpawnJob, Picked, TypeOK
<1>5. CASE NextBatch
    BY Zenon, <1>5 DEF NextBatch, AllReleased
<1>6. ASSUME NEW s \in Slot, JobStep(s) PROVE BatchBounded'
    <2>1. CASE AnnounceFails(s)
        BY Zenon, <2>1 DEF AnnounceFails, TypeOK
    <2>2. CASE AnnounceSucceeds(s) \/ GiveUp(s)
        <3>1. jobs' = [jobs EXCEPT ![s] = Idle] /\ n' = n
              /\ (pc' = pc \/ (pc = "wait_push" /\ pc' = "notified"))
            BY Zenon, <2>2 DEF AnnounceSucceeds, GiveUp, Finish, Notify
        <3>2. QED
            BY Zenon, <3>1 DEF TypeOK
    <2>3. QED
        BY Zenon, <1>6, <2>1, <2>2 DEF JobStep
<1>7. CASE Tick
    BY Zenon, <1>7 DEF Tick
<1>8. CASE Destroy
    BY Zenon, <1>8 DEF Destroy
<1>9. CASE UNCHANGED vars
    BY Zenon, <1>9 DEF vars
<1>10. QED
    BY Zenon, <1>1, <1>2, <1>3, <1>4, <1>5, <1>6, <1>7, <1>8, <1>9 DEF Next, LoopStep

\* Coroutines take only entries that are not marked, and nobody marks them.
LEMMA UnmarkedStep == TypeOK /\ JobsUnmarked /\ [Next]_vars => JobsUnmarked'
<1> SUFFICES ASSUME TypeOK, JobsUnmarked, [Next]_vars PROVE JobsUnmarked'
    BY Zenon
<1> USE DEF JobsUnmarked, Busy
<1>1. CASE UNCHANGED jobs
    BY Zenon, <1>1
<1>2. CASE SpawnJob
    BY Zenon, <1>2 DEF SpawnJob, Picked, TypeOK, Idle
<1>3. ASSUME NEW s \in Slot, JobStep(s) PROVE JobsUnmarked'
    <2>1. CASE AnnounceFails(s)
        <3>1. jobs[s] \in [entry : Entry, tries : 0 .. Attempts]
            BY Zenon, <2>1, BusyJob DEF AnnounceFails
        <3>2. jobs'[s].entry = jobs[s].entry
              /\ \A t \in Slot \ {s} : jobs'[t] = jobs[t]
            BY Zenon, <2>1, <3>1 DEF AnnounceFails, TypeOK
        <3>3. QED
            BY Zenon, <2>1, <3>2 DEF AnnounceFails
    <2>2. CASE AnnounceSucceeds(s) \/ GiveUp(s)
        BY Zenon, <2>2 DEF AnnounceSucceeds, GiveUp, Finish, TypeOK
    <2>3. QED
        BY Zenon, <1>3, <2>1, <2>2 DEF JobStep
<1>4. CASE Destroy
    BY Zenon, <1>4 DEF Destroy
<1>5. QED
    BY Zenon, <1>1, <1>2, <1>3, <1>4
       DEF Next, LoopStep, vars, add, remove, Call, DhtReady, WaitForPush,
           Pushed, Sleep, Awake, DropEntry, WaitForJobs, NextBatch, Tick

\* A wanted key stays in the queue or with a coroutine.
LEMMA KeptStep == KeptInv /\ [Next]_vars => KeptWhileWanted'
<1> SUFFICES ASSUME KeptInv, [Next]_vars, pc' # "stopped",
                    NEW q \in Key, wanted'[q]
             PROVE  Kept(q)'
    BY Zenon DEF KeptWhileWanted, Kept
<1> USE DEF KeptInv
<1>0. entries \in Seq(Entry) /\ Len(entries) \in Nat
      /\ DOMAIN entries = 1 .. Len(entries)
      /\ \A i \in 1 .. Len(entries) : entries[i] \in Entry
    BY Zenon, LenProperties, ElementOfSeq DEF TypeOK
<1>a. TypeOK'
    BY Zenon, TypeStep
<1>b. DOMAIN entries' = 1 .. Len(entries') /\ Len(entries') \in Nat
    BY Zenon, <1>a, LenProperties DEF TypeOK
<1>c. pc # "stopped" /\ wanted[q] => Kept(q)
    BY Zenon DEF KeptWhileWanted, Kept
<1>1. ASSUME NEW k \in Key, add(k) PROVE Kept(q)'
    <2>0. jobs' = jobs /\ pc # "stopped" /\ wanted' = [wanted EXCEPT ![k] = TRUE]
        BY Zenon, <1>1 DEF add, Call, Suspended
    <2>1. CASE find_entry_by_key(k) # 0
        <3> DEFINE i == find_entry_by_key(k)
        <3>1. i \in 1 .. Len(entries) /\ entries[i].key = k
            BY FindEntry, <2>1, <1>0
        <3> HIDE DEF i
        <3>2. entries' = [entries EXCEPT ![i].to_remove = FALSE]
            BY Zenon, <1>1, <2>1 DEF add, i
        <3>3. /\ entries'[i].key = k /\ ~entries'[i].to_remove
              /\ DOMAIN entries' = DOMAIN entries
              /\ \A j \in DOMAIN entries : j # i => entries'[j] = entries[j]
            BY Zenon, <1>0, <3>1, <3>2 DEF Entry
        <3>4. CASE q = k
            BY Zenon, <1>0, <3>1, <3>3, <3>4 DEF Kept
        <3>5. CASE q # k
            <4>1. Kept(q)
                BY Zenon, <1>c, <2>0, <3>5 DEF TypeOK
            <4>2. QED
                BY Zenon, <1>0, <2>0, <3>1, <3>3, <3>5, <4>1 DEF Kept, InFlight, Busy
        <3>6. QED
            BY Zenon, <3>4, <3>5
    <2>2. CASE find_entry_by_key(k) = 0
        <3> DEFINE i == InsertPosition
                   e == NewEntry(k)
        <3>1. i \in 1 .. Len(entries) + 1 /\ e \in Entry
            BY Zenon, InsertPositionProperties, NewEntryType
        <3>2. entries' = InsertAt(entries, i, e)
            BY Zenon, <1>1, <2>2 DEF add
        <3>3. e.key = k /\ ~e.to_remove
            BY Zenon DEF NewEntry
        <3> HIDE DEF i, e
        <3>4. /\ Len(entries') = Len(entries) + 1
              /\ \A j \in 1 .. Len(entries) + 1 :
                   entries'[j] = IF j < i THEN entries[j]
                                 ELSE IF j = i THEN e ELSE entries[j - 1]
            BY <3>1, <3>2, InsertEntry
        <3>5. CASE q = k
            <4>1. entries'[i] = e /\ i \in DOMAIN entries'
                BY <1>0, <1>b, <3>1, <3>4
            <4>2. QED
                BY Zenon, <3>3, <3>5, <4>1 DEF Kept
        <3>6. CASE q # k
            <4>1. Kept(q)
                BY Zenon, <1>c, <2>0, <3>6 DEF TypeOK
            <4>2. CASE InFlight(q)
                BY Zenon, <2>0, <4>2 DEF Kept, InFlight, Busy
            <4>3. ASSUME NEW j \in DOMAIN entries,
                         entries[j].key = q /\ ~entries[j].to_remove
                  PROVE  Kept(q)'
                <5>1. \E m \in 1 .. Len(entries') : entries'[m] = entries[j]
                    <6>1. CASE j < i
                        BY <1>0, <3>1, <3>4, <6>1
                    <6>2. CASE j >= i
                        <7>1. j + 1 \in 1 .. Len(entries')
                              /\ entries'[j + 1] = entries[j]
                            BY <1>0, <3>1, <3>4, <6>2
                        <7>2. QED
                            BY Zenon, <7>1
                    <6>3. QED
                        BY <1>0, <3>1, <6>1, <6>2
                <5>2. QED
                    BY Zenon, <1>b, <4>3, <5>1 DEF Kept
            <4>4. QED
                BY Zenon, <4>1, <4>2, <4>3 DEF Kept
        <3>7. QED
            BY Zenon, <3>5, <3>6
    <2>3. QED
        BY Zenon, <2>1, <2>2
<1>2. ASSUME NEW k \in Key, remove(k) PROVE Kept(q)'
    <2> DEFINE i == find_entry_by_key(k)
    <2>1. i \in 0 .. Len(entries) /\ (i # 0 => entries[i].key = k)
        BY Zenon, FindEntry
    <2> HIDE DEF i
    <2>2. entries' = IF i = 0 THEN entries
                     ELSE [entries EXCEPT ![i].to_remove = TRUE]
        BY Zenon, <1>2 DEF remove, i
    <2>3. jobs' = jobs /\ pc # "stopped" /\ q # k /\ wanted[q]
        BY Zenon, <1>2 DEF remove, Call, Suspended, TypeOK
    <2>4. Kept(q)
        BY Zenon, <1>c, <2>3
    <2>5. /\ DOMAIN entries' = DOMAIN entries
          /\ \A j \in DOMAIN entries : j # i => entries'[j] = entries[j]
        BY Zenon, <1>0, <2>1, <2>2
    <2>6. QED
        BY <1>0, <2>1, <2>3, <2>4, <2>5 DEF Kept, InFlight, Busy
<1>3. CASE DropEntry \/ SpawnJob
    <2>1. /\ pc # "stopped" /\ wanted[q] /\ entries # <<>> /\ n \in Slot
          /\ pc = "pick" /\ entries' = Tail(entries)
        BY Zenon, <1>3 DEF DropEntry, SpawnJob, Picked
    <2>2. /\ Head(entries) = entries[1] /\ Len(entries) >= 1
          /\ Len(entries') = Len(entries) - 1
          /\ \A j \in 1 .. Len(entries') : entries'[j] = entries[j + 1]
        BY <1>0, <2>1, HeadTailProperties, EmptySeq
    <2>3. Kept(q)
        BY Zenon, <1>c, <2>1
    <2>4. ~Busy(n)
        BY <2>1 DEF BatchBounded, Slot
    <2>5. ASSUME NEW s \in Slot, Busy(s), jobs[s].entry.key = q
          PROVE  Kept(q)'
        <3>1. jobs'[s] = jobs[s]
            BY Zenon, <1>3, <2>4, <2>5 DEF DropEntry, SpawnJob, TypeOK
        <3>2. QED
            BY Zenon, <2>5, <3>1 DEF Kept, InFlight, Busy
    <2>6. ASSUME NEW j \in DOMAIN entries, j # 1,
                 entries[j].key = q /\ ~entries[j].to_remove
          PROVE  Kept(q)'
        <3>1. j - 1 \in 1 .. Len(entries') /\ entries'[j - 1] = entries[j]
            BY <1>0, <2>2, <2>6
        <3>2. QED
            BY Zenon, <1>b, <2>6, <3>1 DEF Kept
    <2>7. ASSUME entries[1].key = q /\ ~entries[1].to_remove
          PROVE  Kept(q)'
        <3>1. jobs'[n] = [entry |-> entries[1], tries |-> 0]
            BY Zenon, <1>3, <2>1, <2>2, <2>7 DEF DropEntry, SpawnJob, TypeOK
        <3>2. QED
            BY <2>1, <2>7, <3>1 DEF Kept, InFlight, Busy, Idle
    <2>8. QED
        BY Zenon, <2>3, <2>5, <2>6, <2>7 DEF Kept, InFlight
<1>4. ASSUME NEW s \in Slot, NEW o \in {"success", "failure"},
             Suspended, Busy(s), Finish(s, o)
      PROVE  Kept(q)'
    <2>1. /\ Updated(s, o) \in Entry
          /\ Updated(s, o).key = jobs[s].entry.key
          /\ ~Updated(s, o).to_remove
        BY Zenon, <1>4, UpdatedType DEF JobsUnmarked
    <2>2. /\ entries' = Append(entries, Updated(s, o))
          /\ jobs' = [jobs EXCEPT ![s] = Idle]
        BY Zenon, <1>4, <2>1 DEF Finish, Updated
    <2>3. /\ Len(entries') = Len(entries) + 1
          /\ \A j \in 1 .. Len(entries) : entries'[j] = entries[j]
          /\ entries'[Len(entries) + 1] = Updated(s, o)
        BY <1>0, <2>1, <2>2, AppendProperties
    <2>4. Kept(q)
        BY Zenon, <1>c, <1>4 DEF Finish, Suspended
    <2>5. CASE jobs[s].entry.key = q
        <3>1. Len(entries) + 1 \in DOMAIN entries'
            BY <1>0, <1>b, <2>3
        <3>2. QED
            BY Zenon, <2>1, <2>3, <2>5, <3>1 DEF Kept
    <2>6. CASE jobs[s].entry.key # q
        <3>1. ASSUME InFlight(q) PROVE Kept(q)'
            BY Zenon, <2>2, <2>6, <3>1 DEF Kept, InFlight, Busy, TypeOK
        <3>2. ASSUME NEW j \in DOMAIN entries,
                     entries[j].key = q /\ ~entries[j].to_remove
              PROVE  Kept(q)'
            <4>1. j \in DOMAIN entries' /\ entries'[j] = entries[j]
                BY <1>0, <1>b, <2>3
            <4>2. QED
                BY Zenon, <3>2, <4>1 DEF Kept
        <3>3. QED
            BY Zenon, <2>4, <3>1, <3>2 DEF Kept
    <2>7. QED
        BY Zenon, <2>5, <2>6
<1>5. ASSUME NEW s \in Slot, JobStep(s) PROVE Kept(q)'
    <2>1. CASE AnnounceSucceeds(s)
        BY Zenon, <1>4, <2>1 DEF AnnounceSucceeds
    <2>2. CASE GiveUp(s)
        BY Zenon, <1>4, <2>2 DEF GiveUp
    <2>3. CASE AnnounceFails(s)
        <3>1. jobs[s] \in [entry : Entry, tries : 0 .. Attempts]
            BY Zenon, <2>3, BusyJob DEF AnnounceFails
        <3>2. /\ jobs'[s] # Idle /\ jobs'[s].entry = jobs[s].entry
              /\ \A t \in Slot \ {s} : jobs'[t] = jobs[t]
            BY Zenon, <2>3, <3>1 DEF AnnounceFails, TypeOK, Idle
        <3>3. Kept(q) /\ entries' = entries
            BY Zenon, <1>c, <2>3 DEF AnnounceFails, Suspended
        <3>4. QED
            BY Zenon, <3>2, <3>3 DEF Kept, InFlight, Busy
    <2>4. QED
        BY Zenon, <1>5, <2>1, <2>2, <2>3 DEF JobStep
<1>6. CASE Tick
    <2>1. pc # "stopped" /\ wanted[q] /\ jobs' = jobs
        BY Zenon, <1>6 DEF Tick
    <2>2. entries' = [i \in 1 .. Len(entries) |->
                        [entries[i] EXCEPT !.due = Elapse(@)]]
        BY Zenon, <1>0, <1>6 DEF Tick
    <2>3. /\ DOMAIN entries' = DOMAIN entries
          /\ \A j \in DOMAIN entries : /\ entries'[j].key = entries[j].key
                                       /\ entries'[j].to_remove = entries[j].to_remove
        BY Zenon, <1>0, <2>2 DEF Entry
    <2>4. QED
        BY Zenon, <1>c, <2>1, <2>3 DEF Kept, InFlight, Busy
<1>7. CASE \/ DhtReady \/ WaitForPush \/ Pushed \/ Sleep \/ Awake
           \/ WaitForJobs \/ NextBatch
    <2>1. pc # "stopped" /\ wanted' = wanted /\ entries' = entries /\ jobs' = jobs
        BY Zenon, <1>7 DEF DhtReady, WaitForPush, Pushed, Sleep, Awake, WaitForJobs,
                    NextBatch
    <2>2. QED
        BY Zenon, <1>c, <2>1 DEF Kept, InFlight, Busy
<1>8. CASE UNCHANGED vars
    BY Zenon, <1>c, <1>8 DEF vars, Kept, InFlight, Busy
<1>9. QED
    BY Zenon, <1>1, <1>2, <1>3, <1>5, <1>6, <1>7, <1>8 DEF Next, LoopStep, Destroy

\* A batch never has more than Simultaneous coroutines.
THEOREM BatchesAreBounded == Spec => []BatchBounded
<1>1. Init => BatchBounded
    BY Zenon DEF Init, BatchBounded, Busy
<1>2. QED
    BY <1>1, TypeCorrect, BatchStep, PTL DEF Spec

\* A key that was added and not removed since is never lost.
THEOREM WantedIsKept == Spec => []KeptWhileWanted
<1>1. Init => JobsUnmarked /\ KeptWhileWanted
    BY Zenon DEF Init, JobsUnmarked, KeptWhileWanted, Busy
<1>2. KeptInv /\ [Next]_vars => KeptInv'
    BY Zenon, TypeStep, BatchStep, UnmarkedStep, KeptStep DEF KeptInv
<1>3. Init => KeptInv
    BY <1>1, SimultaneousAssumption
       DEF KeptInv, Init, TypeOK, BatchBounded, Busy, Job
<1>4. KeptInv => KeptWhileWanted
    BY Zenon DEF KeptInv
<1>5. QED
    BY <1>2, <1>3, <1>4, PTL DEF Spec

=============================================================================
