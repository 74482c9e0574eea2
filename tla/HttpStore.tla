----------------------------- MODULE HttpStore -----------------------------
(***************************************************************************)
(* The store of HTTP responses (FullHttpStore in src/cache/http_store.cpp, *)
(* util/atomic_dir, the garbage collector's walk over it).                 *)
(*                                                                         *)
(* A stored response is a directory with a head, a sigs and a body file.   *)
(* A response is written to a temporary directory next to the final one;   *)
(* at the end the old entry is removed and the temporary one renamed.      *)
(* Versions number the calls of store: a file holds the version that wrote *)
(* it, and 0 stands for a missing file.                                    *)
(*                                                                         *)
(* Coroutines suspend where they read or write a file or read the response *)
(* to store; in between other coroutines run, and at any file operation    *)
(* the process may stop.                                                   *)
(***************************************************************************)
EXTENDS Naturals, FiniteSets

CONSTANTS
  Res,         \* resource identifiers
  Storer,      \* coroutines inside store
  Reader,      \* coroutines inside reader_and_size
  MaxVersion,  \* bound on the calls of store
  MaxCrashes   \* bound on the stops of the process

ASSUME BoundsAssumption == MaxVersion \in Nat /\ MaxCrashes \in Nat

VARIABLES
  entry,    \* the directory of each key
  temp,     \* the temporary directories on disk, by the version written there
  storing,  \* the state of each call of store
  reading,  \* the state of each call of reader_and_size
  gc,       \* the state of the garbage collector's walk
  version,  \* the last version given out
  expired,  \* versions older than the maximum age
  crashes,
  stalled   \* history: did writing a response pause for ten minutes?

store_vars == <<entry, temp, storing, reading, gc, version, expired, crashes, stalled>>

Version == 1..MaxVersion

\* The files of a directory; all of them may be missing.
Files == [head : 0..MaxVersion, sigs : 0..MaxVersion, body : 0..MaxVersion]

NoFiles == [head |-> 0, sigs |-> 0, body |-> 0]

\* No directory at all.
Absent == [dir |-> FALSE, files |-> NoFiles]

Present(f) == [dir |-> TRUE, files |-> f]

Temp == [key : Res, files : Files, recent : BOOLEAN]

Quiet == [pc |-> "idle"]

Walking(pc, k, v) == [pc |-> pc, key |-> k, head |-> v]

StoreInit ==
  /\ entry = [k \in Res |-> Absent]
  /\ temp = [v \in {} |-> {}]
  /\ storing = [s \in Storer |-> Quiet]
  /\ reading = [r \in Reader |-> Quiet]
  /\ gc = [todo |-> {}, old |-> {}, at |-> Quiet]
  /\ version = 0
  /\ expired = {}
  /\ crashes = 0
  /\ stalled = FALSE

------------------------------------------------------------------------------
(***************************************************************************)
(* store                                                                   *)
(***************************************************************************)

Without(f, S) == [x \in DOMAIN f \ S |-> f[x]]

\* atomic_dir::make, then the first wait for a part of the response.
StoreBegins(s, k) ==
  /\ storing[s] = Quiet
  /\ version < MaxVersion
  /\ version' = version + 1
  /\ storing' = [storing EXCEPT ![s] = [pc |-> "writing", key |-> k, version |-> version']]
  /\ temp' = [v \in DOMAIN temp \cup {version'} |->
                IF v = version' THEN [key |-> k, files |-> NoFiles, recent |-> TRUE]
                ELSE temp[v]]
  /\ UNCHANGED <<entry, reading, gc, expired, crashes, stalled>>

\* The file the next part creates: SplittedWriter::async_write_part for a
\* head, the first chunk header and the first chunk body.
NextFile(f) ==
  IF f.head = 0 THEN "head" ELSE IF f.sigs = 0 THEN "sigs" ELSE "body"

\* A part is written; the coroutine waits for the next one.
StorePart(s) ==
  /\ storing[s] # Quiet
  /\ LET v == storing[s].version IN
     /\ v \in DOMAIN temp
     /\ temp' = [temp EXCEPT ![v].files[NextFile(temp[v].files)] = v,
                             ![v].recent = TRUE]
  /\ UNCHANGED <<entry, storing, reading, gc, version, expired, crashes, stalled>>

\* Reading or writing a part fails: ~atomic_dir removes the temporary
\* directory.
StoreFails(s) ==
  /\ storing[s] # Quiet
  /\ temp' = Without(temp, {storing[s].version})
  /\ storing' = [storing EXCEPT ![s] = Quiet]
  /\ UNCHANGED <<entry, reading, gc, version, expired, crashes, stalled>>

\* Mutant of Committed: the new files are moved over the old ones.
CommittedOver(k, v) ==
  IF v \in DOMAIN temp
  THEN Present([f \in DOMAIN NoFiles |->
         IF temp[v].files[f] = 0 THEN entry[k].files[f] ELSE temp[v].files[f]])
  ELSE Absent

\* What is found under a key after remove_all and rename; the rename fails
\* if the temporary directory is gone.
Committed(k, v) ==
  IF v \in DOMAIN temp THEN Present(temp[v].files) ELSE Absent

\* The response is complete: the old entry is removed and the new committed.
StoreEnds(s) ==
  /\ storing[s] # Quiet
  /\ LET v == storing[s].version
         k == storing[s].key IN
     /\ v \in DOMAIN temp => temp[v].files.head = v
     /\ entry' = [entry EXCEPT ![k] = Committed(k, v)]
     /\ temp' = Without(temp, {v})
  /\ storing' = [storing EXCEPT ![s] = Quiet]
  /\ UNCHANGED <<reading, gc, version, expired, crashes, stalled>>

------------------------------------------------------------------------------
(***************************************************************************)
(* reader_and_size                                                         *)
(***************************************************************************)

\* The head file is opened by its path and read: the coroutine suspends.
\* Without a head file the call fails and nothing changes.
ReaderOpensHead(r, k) ==
  /\ reading[r].pc # "head"
  /\ entry[k].files.head # 0
  /\ reading' = [reading EXCEPT ![r] = Walking("head", k, entry[k].files.head)]
  /\ UNCHANGED <<entry, temp, storing, gc, version, expired, crashes, stalled>>

\* With the head read, sigs and body are opened by their paths, and the size
\* of the body is taken, all without suspending.
ReaderOpensRest(r) ==
  /\ reading[r].pc = "head"
  /\ LET k == reading[r].key IN
     reading' = [reading EXCEPT
       ![r] = IF entry[k].files.head = 0 \/ entry[k].files.body = 0
              THEN Quiet  \* http_store_body_size fails
              ELSE [pc |-> "done", key |-> k, head |-> reading[r].head,
                    sigs |-> entry[k].files.sigs, body |-> entry[k].files.body]]
  /\ UNCHANGED <<entry, temp, storing, gc, version, expired, crashes, stalled>>

------------------------------------------------------------------------------
(***************************************************************************)
(* for_each, as the garbage collector calls it                             *)
(***************************************************************************)

\* Mutant of recently_updated: every temporary directory counts as old.
never_recent(v) == FALSE

\* recently_updated
recently_updated(v) == temp[v].recent

\* The walk begins: it will meet entries and temporary directories in any
\* order, those that appear meanwhile perhaps not.
WalkBegins ==
  /\ gc.at = Quiet
  /\ gc.todo = {}
  /\ gc.old = {}
  /\ gc' = [todo |-> {k \in Res : entry[k].dir}, old |-> DOMAIN temp, at |-> Quiet]
  /\ gc'.todo # {} \/ gc'.old # {}
  /\ UNCHANGED <<entry, temp, storing, reading, version, expired, crashes, stalled>>

\* Mutant of VisitTemp: temporary directories are skipped.
SkipTemp(v) ==
  /\ gc.at = Quiet
  /\ v \in gc.old
  /\ gc' = [gc EXCEPT !.old = @ \ {v}]
  /\ UNCHANGED <<entry, temp, storing, reading, version, expired, crashes, stalled>>

\* A temporary directory: removed unless recently updated.
VisitTemp(v) ==
  /\ gc.at = Quiet
  /\ v \in gc.old
  /\ gc' = [gc EXCEPT !.old = @ \ {v}]
  /\ temp' = IF v \in DOMAIN temp /\ ~recently_updated(v)
             THEN Without(temp, {v}) ELSE temp
  /\ UNCHANGED <<entry, storing, reading, version, expired, crashes, stalled>>

\* An entry: its head is opened and read, or it is removed if it has none.
VisitEntry(k) ==
  /\ gc.at = Quiet
  /\ k \in gc.todo
  /\ IF entry[k].files.head # 0
     THEN /\ gc' = [gc EXCEPT !.todo = @ \ {k},
                              !.at = Walking("head", k, entry[k].files.head)]
          /\ UNCHANGED entry
     ELSE /\ gc' = [gc EXCEPT !.todo = @ \ {k}]
          /\ entry' = [entry EXCEPT ![k] = Absent]
  /\ UNCHANGED <<temp, storing, reading, version, expired, crashes, stalled>>

\* keep decides on the head that was read; try_remove removes by path.
Judge ==
  /\ gc.at # Quiet
  /\ gc' = [gc EXCEPT !.at = Quiet]
  /\ entry' = IF gc.at.head \in expired
              THEN [entry EXCEPT ![gc.at.key] = Absent] ELSE entry
  /\ UNCHANGED <<temp, storing, reading, version, expired, crashes, stalled>>

------------------------------------------------------------------------------
(***************************************************************************)
(* Time and stops.                                                         *)
(***************************************************************************)

Expire(v) ==
  /\ v \in 1..version
  /\ expired' = expired \cup {v}
  /\ UNCHANGED <<entry, temp, storing, reading, gc, version, crashes, stalled>>

Active == {storing[s].version : s \in {t \in Storer : storing[t] # Quiet}}

\* Ten minutes pass without a write to a temporary directory.
TempAges(v) ==
  /\ v \in DOMAIN temp
  /\ temp' = [temp EXCEPT ![v].recent = FALSE]
  /\ stalled' = (stalled \/ v \in Active)
  /\ UNCHANGED <<entry, storing, reading, gc, version, expired, crashes>>

\* Everything in memory is lost.
Stop ==
  /\ crashes < MaxCrashes
  /\ crashes' = crashes + 1
  /\ storing' = [s \in Storer |-> Quiet]
  /\ reading' = [r \in Reader |-> Quiet]
  /\ gc' = [todo |-> {}, old |-> {}, at |-> Quiet]
  /\ UNCHANGED <<version, expired, stalled>>

\* What an interrupted remove_all leaves of a directory's files.
HalfRemoved(f) == {h \in Files : \A x \in DOMAIN f : h[x] \in {0, f[x]}}

\* The process stops between two operations, or inside the removal of an
\* entry that store or the garbage collector replaces or removes.
StoreCrashes ==
  /\ Stop
  /\ UNCHANGED temp
  /\ \/ UNCHANGED entry
     \/ \E k \in Res, f \in Files :
          /\ entry[k].dir
          /\ \/ \E s \in Storer : storing[s] # Quiet /\ storing[s].key = k
             \/ gc.at # Quiet /\ gc.at.key = k /\ gc.at.head \in expired
          /\ f \in HalfRemoved(entry[k].files)
          /\ entry' \in {[entry EXCEPT ![k] = Present(f)], [entry EXCEPT ![k] = Absent]}

WalkStep ==
  \/ WalkBegins
  \/ \E v \in Version : VisitTemp(v)
  \/ \E k \in Res : VisitEntry(k)
  \/ Judge

StoreNext ==
  \/ \E s \in Storer, k \in Res : StoreBegins(s, k)
  \/ \E s \in Storer : StorePart(s) \/ StoreFails(s) \/ StoreEnds(s)
  \/ \E r \in Reader, k \in Res : ReaderOpensHead(r, k)
  \/ \E r \in Reader : ReaderOpensRest(r)
  \/ WalkStep
  \/ \E v \in Version : Expire(v) \/ TempAges(v)
  \/ StoreCrashes

StoreSpec == StoreInit /\ [][StoreNext]_store_vars

\* The garbage collector keeps walking, and time passes.
StoreFair ==
  /\ WF_store_vars(WalkStep)
  /\ \A v \in Version : WF_store_vars(TempAges(v)) /\ WF_store_vars(VisitTemp(v))

------------------------------------------------------------------------------
(***************************************************************************)
(* Properties.                                                             *)
(***************************************************************************)

\* The view of the store as a ResponseStore: the files that are there, and
\* the responses that are not being stored any more.
Names(f) == {x \in DOMAIN NoFiles : f[x] # 0}
Contents == [k \in Res |-> {<<x, entry[k].files[x]>> : x \in Names(entry[k].files)}]
Taken == (1..version) \ Active
Abstract == INSTANCE ResponseStore WITH contents <- Contents, taken <- Taken

\* Whatever stores overlap, wherever the process stops and whatever the
\* garbage collector removes meanwhile, the store behaves as a ResponseStore:
\* the files of an entry come from one response, which got there in one step
\* and does not come back once it was replaced or removed.
StoresWholeResponses == Abstract!RSSpec

\* While writing a response never pauses for ten minutes, storing a response
\* only ever replaces an entry: a complete entry disappears only by the
\* garbage collector or a stop of the process.
StoreOnlyReplaces ==
  [][~stalled => \A k \in Res :
       entry[k].dir /\ ~entry'[k].dir => gc' # gc \/ crashes' # crashes]_store_vars

\* Is there a temporary directory that nobody writes to?
Leftovers == DOMAIN temp \ Active # {}

\* Temporary directories left by a stopped process do not pile up: the
\* garbage collector removes each of them in the end.
LeftoversVanish == Leftovers ~> ~Leftovers

\* doc/coding.org on the garbage collector: it "invokes a function to
\* determine whether the entry should be kept or removed (e.g. if invalid or
\* past its maximum age)".  What it removes is past its age or incomplete.
RemovesOnlyTheJudged ==
  [][\A k \in Res :
       entry[k].dir /\ ~entry'[k].dir /\ gc' # gc /\ crashes' = crashes
       => entry[k].files.head \in expired \cup {0}]_store_vars
=============================================================================
