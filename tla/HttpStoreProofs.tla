-------------------------- MODULE HttpStoreProofs --------------------------
(***************************************************************************)
(* HttpStore implements ResponseStore, for every set of keys, coroutines   *)
(* and any number of calls and stops.                                      *)
(***************************************************************************)
EXTENDS HttpStore, TLAPS

FileNames == {"head", "sigs", "body"}

\* What the view needs of the process: calls of store that are under way have
\* versions of their own, which were given out, and a temporary directory
\* holds files of its version only.
StoreInv ==
  /\ entry \in [Res -> [dir : BOOLEAN, files : Files]]
  /\ DOMAIN temp \subseteq 1..version
  /\ \A v \in DOMAIN temp : temp[v] \in Temp
  /\ \A v \in DOMAIN temp : \A x \in FileNames : temp[v].files[x] \in {0, v}
  /\ storing \in [Storer -> {Quiet} \cup [pc : {"writing"}, key : Res, version : Version]]
  /\ version \in 0..MaxVersion
  /\ \A s \in Storer : storing[s] # Quiet => storing[s].version <= version
  /\ \A s, t \in Storer :
       storing[s] # Quiet /\ storing[t] # Quiet /\ storing[s].version = storing[t].version
       => s = t

-----------------------------------------------------------------------------
\* The files of a directory.

LEMMA FilesFields ==
  ASSUME NEW f \in Files
  PROVE  DOMAIN f = FileNames /\ \A x \in FileNames : f[x] \in 0..MaxVersion
  BY Zenon DEF Files, FileNames

LEMMA NoFilesType == NoFiles \in Files /\ DOMAIN NoFiles = FileNames
                     /\ \A x \in FileNames : NoFiles[x] = 0
  BY BoundsAssumption DEF NoFiles, Files, FileNames

LEMMA EntryTypes ==
  /\ Absent \in [dir : BOOLEAN, files : Files]
  /\ Absent.files = NoFiles
  /\ \A f \in Files : /\ Present(f) \in [dir : BOOLEAN, files : Files]
                      /\ Present(f).files = f
  BY Zenon, NoFilesType DEF Absent, Present

LEMMA NextFileName == \A f \in Files : NextFile(f) \in FileNames
  BY Zenon DEF NextFile, FileNames

LEMMA ChangedFile ==
  ASSUME NEW f \in Files, NEW x \in FileNames, NEW v \in Version
  PROVE  /\ [f EXCEPT ![x] = v] \in Files
         /\ \A y \in FileNames : [f EXCEPT ![x] = v][y] = IF y = x THEN v ELSE f[y]
  BY BoundsAssumption DEF Files, FileNames, Version

-----------------------------------------------------------------------------
LEMMA StoreInitInv == StoreInit => StoreInv
  BY EntryTypes, BoundsAssumption DEF StoreInit, StoreInv, Quiet

\* A temporary directory that is removed leaves the others as they are.
LEMMA WithoutTemp ==
  ASSUME StoreInv, NEW S
  PROVE  /\ DOMAIN Without(temp, S) \subseteq DOMAIN temp
         /\ \A v \in DOMAIN Without(temp, S) : Without(temp, S)[v] = temp[v]
  BY Zenon DEF Without

\* Each action preserves the invariant.
LEMMA StoreBeginsInv ==
  ASSUME StoreInv, NEW s \in Storer, NEW k \in Res, StoreBegins(s, k)
  PROVE  StoreInv'
<1>1. version' = version + 1 /\ version' \in Version /\ version \in Nat
    BY BoundsAssumption DEF StoreInv, StoreBegins, Version
<1>2. entry' = entry /\ storing[s] = Quiet
    BY Zenon DEF StoreBegins
<1>3. /\ DOMAIN temp' = DOMAIN temp \cup {version'}
      /\ temp'[version'] = [key |-> k, files |-> NoFiles, recent |-> TRUE]
      /\ \A v \in DOMAIN temp : v # version' => temp'[v] = temp[v]
    BY Zenon DEF StoreBegins
<1>4. /\ DOMAIN temp' \subseteq 1..version'
      /\ \A v \in DOMAIN temp' : temp'[v] \in Temp
      /\ \A v \in DOMAIN temp' : \A x \in FileNames : temp'[v].files[x] \in {0, v}
  <2>1. DOMAIN temp' \subseteq 1..version'
      BY <1>1, <1>3 DEF StoreInv
  <2>2. /\ temp'[version'] \in Temp
        /\ \A x \in FileNames : temp'[version'].files[x] = 0
      BY <1>3, NoFilesType DEF Temp
  <2>3. QED
      BY Zenon, <1>3, <2>1, <2>2 DEF StoreInv
<1>5. /\ storing' = [storing EXCEPT ![s] = [pc |-> "writing", key |-> k,
                                            version |-> version']]
      /\ storing' \in [Storer -> {Quiet} \cup [pc : {"writing"}, key : Res, version : Version]]
    BY Zenon, <1>1 DEF StoreInv, StoreBegins
<1>6. /\ \A r \in Storer : r # s => storing'[r] = storing[r]
      /\ storing'[s].version = version'
    BY Zenon, <1>5 DEF StoreInv
<1>7. \A r \in Storer : storing[r] # Quiet => storing[r].version \in Nat
                                              /\ storing[r].version < version'
    BY <1>1, BoundsAssumption DEF StoreInv, Version
<1>8. QED
    BY <1>1, <1>2, <1>4, <1>5, <1>6, <1>7, BoundsAssumption DEF StoreInv, Version

LEMMA StorePartInv ==
  ASSUME StoreInv, NEW s \in Storer, StorePart(s)
  PROVE  StoreInv'
<1> DEFINE v == storing[s].version
           x == NextFile(temp[v].files)
<1>1. v \in DOMAIN temp /\ v \in Version /\ temp[v] \in Temp
    BY Zenon DEF StoreInv, StorePart
<1>2. temp[v].files \in Files /\ x \in FileNames
    BY Zenon, <1>1, NextFileName DEF Temp
<1> HIDE DEF x
<1>3. /\ DOMAIN temp' = DOMAIN temp
      /\ \A w \in DOMAIN temp : w # v => temp'[w] = temp[w]
      /\ temp'[v] = [temp[v] EXCEPT !.files = [@ EXCEPT ![x] = v], !.recent = TRUE]
    BY Zenon, <1>1 DEF StorePart, x
<1>4. temp'[v].files = [temp[v].files EXCEPT ![x] = v] /\ temp'[v] \in Temp
  <2> DEFINE g == [temp[v].files EXCEPT ![x] = v]
  <2>1. g \in Files
      BY Zenon, <1>1, <1>2, ChangedFile
  <2>2. temp'[v] = [temp[v] EXCEPT !.files = g, !.recent = TRUE]
      BY Zenon, <1>3
  <2> HIDE DEF g, v
  <2>3. temp'[v].files = g /\ temp'[v] \in Temp
      BY Zenon, <1>1, <2>1, <2>2 DEF Temp
  <2>4. QED
      BY Zenon, <2>3 DEF g
<1>5. \A y \in FileNames : temp'[v].files[y] \in {0, v}
    BY <1>1, <1>2, <1>4, ChangedFile DEF StoreInv
<1>6. UNCHANGED <<entry, storing, version>>
    BY Zenon DEF StorePart
<1> HIDE DEF v
<1>7. QED
    BY Zenon, <1>1, <1>3, <1>4, <1>5, <1>6 DEF StoreInv

\* The end of a call of store, whatever becomes of the entry.
LEMMA StoreLeavesInv ==
  ASSUME StoreInv, NEW s \in Storer,
         entry' \in [Res -> [dir : BOOLEAN, files : Files]],
         temp' = Without(temp, {storing[s].version}),
         storing' = [storing EXCEPT ![s] = Quiet], version' = version
  PROVE  StoreInv'
<1>1. /\ DOMAIN temp' \subseteq DOMAIN temp
      /\ \A v \in DOMAIN temp' : temp'[v] = temp[v]
    BY Zenon, WithoutTemp
<1>2. storing' \in [Storer -> {Quiet} \cup [pc : {"writing"}, key : Res, version : Version]]
      /\ \A r \in Storer : storing'[r] # Quiet => storing'[r] = storing[r]
    BY Zenon DEF StoreInv
<1>3. QED
    BY Zenon, <1>1, <1>2 DEF StoreInv

LEMMA CommittedType ==
  ASSUME StoreInv, NEW k \in Res, NEW v
  PROVE  /\ Committed(k, v) \in [dir : BOOLEAN, files : Files]
         /\ Committed(k, v).files = IF v \in DOMAIN temp THEN temp[v].files ELSE NoFiles
  BY Zenon, EntryTypes DEF Committed, StoreInv, Temp

\* What the garbage collector, time and a stop may do to the directories.
LEMMA RestInv ==
  ASSUME StoreInv, version' = version,
         entry' \in [Res -> [dir : BOOLEAN, files : Files]],
         DOMAIN temp' \subseteq DOMAIN temp,
         \A v \in DOMAIN temp' : temp'[v].files = temp[v].files /\ temp'[v] \in Temp,
         storing' = storing \/ storing' = [s \in Storer |-> Quiet]
  PROVE  StoreInv'
<1>1. storing' \in [Storer -> {Quiet} \cup [pc : {"writing"}, key : Res, version : Version]]
      /\ \A r \in Storer : storing'[r] # Quiet => storing'[r] = storing[r]
    BY Zenon DEF StoreInv
<1>2. QED
    BY Zenon, <1>1 DEF StoreInv

LEMMA StoreEndsInv ==
  ASSUME StoreInv, NEW s \in Storer, StoreEnds(s)
  PROVE  StoreInv'
<1> DEFINE v == storing[s].version
           k == storing[s].key
<1>1. storing[s] \in [pc : {"writing"}, key : Res, version : Version]
    BY Zenon DEF StoreInv, StoreEnds
<1>2. entry' = [entry EXCEPT ![k] = Committed(k, v)] /\ k \in Res
    BY Zenon, <1>1 DEF StoreEnds
<1>3. entry' \in [Res -> [dir : BOOLEAN, files : Files]]
    BY Zenon, <1>2, CommittedType DEF StoreInv
<1>4. QED
    BY Zenon, <1>3, StoreLeavesInv DEF StoreEnds

LEMMA CrashInv ==
  ASSUME StoreInv, StoreCrashes
  PROVE  StoreInv'
<1>1. entry' \in [Res -> [dir : BOOLEAN, files : Files]]
    BY EntryTypes DEF StoreInv, StoreCrashes
<1>2. version' = version /\ temp' = temp /\ storing' = [s \in Storer |-> Quiet]
    BY Zenon DEF StoreCrashes, Stop
<1>3. QED
    BY Zenon, <1>1, <1>2, RestInv DEF StoreInv

LEMMA StoreInvStep == StoreInv /\ [StoreNext]_store_vars => StoreInv'
<1> SUFFICES ASSUME StoreInv, [StoreNext]_store_vars PROVE StoreInv'
    BY Zenon
<1> USE DEF StoreInv
<1>1. ASSUME NEW s \in Storer, NEW k \in Res, StoreBegins(s, k) PROVE StoreInv'
    BY Zenon, <1>1, StoreBeginsInv
<1>2. ASSUME NEW s \in Storer, StorePart(s) PROVE StoreInv'
    BY Zenon, <1>2, StorePartInv
<1>3. ASSUME NEW s \in Storer, StoreFails(s) PROVE StoreInv'
    BY Zenon, <1>3, StoreLeavesInv DEF StoreFails
<1>4. ASSUME NEW s \in Storer, StoreEnds(s) PROVE StoreInv'
    BY Zenon, <1>4, StoreEndsInv
<1>5. ASSUME NEW r \in Reader, NEW k \in Res, ReaderOpensHead(r, k) PROVE StoreInv'
    BY Zenon, <1>5, RestInv DEF ReaderOpensHead
<1>6. ASSUME NEW r \in Reader, ReaderOpensRest(r) PROVE StoreInv'
    BY Zenon, <1>6, RestInv DEF ReaderOpensRest
<1>7. CASE WalkBegins
    BY Zenon, <1>7, RestInv DEF WalkBegins
<1>8. ASSUME NEW v \in Version, VisitTemp(v) PROVE StoreInv'
    <2>1. temp' = temp \/ temp' = Without(temp, {v})
        BY Zenon, <1>8 DEF VisitTemp
    <2>2. DOMAIN temp' \subseteq DOMAIN temp /\ \A w \in DOMAIN temp' : temp'[w] = temp[w]
        BY <2>1, WithoutTemp
    <2>3. QED
        BY Zenon, <1>8, <2>2, RestInv DEF VisitTemp
<1>9. ASSUME NEW k \in Res, VisitEntry(k) PROVE StoreInv'
    <2>1. entry' \in [Res -> [dir : BOOLEAN, files : Files]]
        BY Zenon, <1>9, EntryTypes DEF VisitEntry
    <2>2. QED
        BY Zenon, <1>9, <2>1, RestInv DEF VisitEntry
<1>10. CASE Judge
    <2>1. entry' \in [Res -> [dir : BOOLEAN, files : Files]]
        BY Zenon, <1>10, EntryTypes DEF Judge
    <2>2. QED
        BY Zenon, <1>10, <2>1, RestInv DEF Judge
<1>11. ASSUME NEW v \in Version, Expire(v) PROVE StoreInv'
    BY Zenon, <1>11, RestInv DEF Expire
<1>12. ASSUME NEW v \in Version, TempAges(v) PROVE StoreInv'
    <2>1. /\ DOMAIN temp' = DOMAIN temp
          /\ \A w \in DOMAIN temp : temp'[w].files = temp[w].files /\ temp'[w] \in Temp
        BY Zenon, <1>12 DEF TempAges, Temp
    <2>2. QED
        BY Zenon, <1>12, <2>1, RestInv DEF TempAges
<1>13. CASE StoreCrashes
    BY Zenon, <1>13, CrashInv
<1>14. CASE UNCHANGED store_vars
    BY Zenon, <1>14 DEF store_vars
<1>15. QED
    BY Zenon, <1>1, <1>2, <1>3, <1>4, <1>5, <1>6, <1>7, <1>8, <1>9, <1>10, <1>11, <1>12, <1>13, <1>14
    DEF StoreNext, WalkStep

-----------------------------------------------------------------------------
\* The view as a ResponseStore.

ContentsOf(e) == {<<x, e.files[x]>> : x \in {y \in FileNames : e.files[y] # 0}}
ContentsTyped ==
  /\ Contents \in [Res -> SUBSET (FileNames \X Version)]
  /\ \A k \in Res : Contents[k] = ContentsOf(entry[k])

LEMMA ContentsType == StoreInv => ContentsTyped
<1> SUFFICES ASSUME StoreInv PROVE ContentsTyped
    BY Zenon
<1>1. ASSUME NEW k \in Res
      PROVE  /\ Contents[k] = ContentsOf(entry[k])
             /\ \A x \in FileNames : entry[k].files[x] # 0 => entry[k].files[x] \in Version
  <2>1. entry[k].files \in Files
      BY Zenon DEF StoreInv
  <2>2. \A x \in FileNames : entry[k].files[x] \in 0..MaxVersion
      BY Zenon, <2>1, FilesFields
  <2>3. QED
      BY <2>2, NoFilesType, BoundsAssumption DEF Contents, Names, Version, ContentsOf
<1>2. QED
    BY <1>1 DEF Contents, ContentsTyped, ContentsOf

\* A step that leaves the entries or takes files away, and gives up versions.
LEMMA TakeAwayStep ==
  ASSUME StoreInv, StoreInv',
         \A k \in Res : \A x \in FileNames : entry'[k].files[x] \in {0, entry[k].files[x]},
         Taken \subseteq Taken'
  PROVE  Abstract!TakeAway
<1>1. ContentsTyped /\ ContentsTyped'
    BY ContentsType, PTL
<1>2. \A k \in Res : Contents'[k] \subseteq Contents[k]
    BY <1>1 DEF ContentsTyped, ContentsOf
<1>3. Taken' \in SUBSET Version
    BY BoundsAssumption DEF Taken, StoreInv, Version
<1>4. QED
    BY Zenon, <1>1, <1>2, <1>3 DEF Abstract!TakeAway, Abstract!File, FileNames, ContentsTyped

\* The versions that are being stored were given out.
LEMMA ActiveGivenOut ==
  ASSUME StoreInv
  PROVE  Active \subseteq 1..version
  BY BoundsAssumption DEF Active, StoreInv, Version

\* The end of a call of store: its version is not being stored any more, and
\* no other call stores it.
LEMMA TakenWhenLeft ==
  ASSUME StoreInv, NEW s \in Storer, storing[s] # Quiet,
         storing' = [storing EXCEPT ![s] = Quiet], version' = version
  PROVE  /\ storing[s].version \in Version \ Taken
         /\ Taken' = Taken \cup {storing[s].version}
<1> DEFINE v == storing[s].version
<1>1. storing[s] \in [pc : {"writing"}, key : Res, version : Version] /\ v \in 1..version
    BY BoundsAssumption DEF StoreInv, Version
<1>2. v \in Active
    BY Zenon DEF Active
<1>3. Active' = Active \ {v}
  <2>1. /\ \A t \in Storer : t # s => storing'[t] = storing[t]
        /\ storing'[s] = Quiet
      BY Zenon DEF StoreInv
  <2>2. \A t \in Storer : t # s /\ storing[t] # Quiet => storing[t].version # v
      BY Zenon DEF StoreInv
  <2>3. QED
      BY <2>1, <2>2 DEF Active
<1>4. QED
    BY Zenon, <1>1, <1>2, <1>3 DEF Taken

LEMMA StoreEndsStep ==
  ASSUME StoreInv, StoreInv', NEW s \in Storer, StoreEnds(s)
  PROVE  Abstract!RSNext
<1> DEFINE v == storing[s].version
           k == storing[s].key
<1>1. storing[s] \in [pc : {"writing"}, key : Res, version : Version]
      /\ storing[s] # Quiet /\ k \in Res /\ v \in Version
    BY Zenon DEF StoreInv, StoreEnds
<1>2. /\ v \in Version \ Taken
      /\ Taken' = Taken \cup {v}
    BY Zenon, <1>1, TakenWhenLeft DEF StoreEnds
<1>3. /\ \A j \in Res : j # k => entry'[j] = entry[j]
      /\ entry'[k].files = IF v \in DOMAIN temp THEN temp[v].files ELSE NoFiles
    BY <1>1, CommittedType, SMTT(30) DEF StoreInv, StoreEnds
<1>4. CASE v \notin DOMAIN temp
  <2>1. \A j \in Res : \A x \in FileNames : entry'[j].files[x] \in {0, entry[j].files[x]}
      BY Zenon, <1>3, <1>4, NoFilesType
  <2>2. QED
      BY Zenon, <1>2, <2>1, TakeAwayStep DEF Abstract!RSNext
<1>5. CASE v \in DOMAIN temp
  <2> DEFINE names == {x \in FileNames : temp[v].files[x] # 0}
  <2>1. ContentsTyped /\ ContentsTyped'
      BY ContentsType, PTL
  <2>2. Contents'[k] = {<<x, v>> : x \in names}
    <3>1. Contents'[k] = ContentsOf(entry'[k])
        BY Zenon, <1>1, <2>1 DEF ContentsTyped
    <3>2. \A x \in names : temp[v].files[x] = v
        BY Zenon, <1>5 DEF StoreInv
    <3>3. QED
        BY <1>3, <1>5, <3>1, <3>2 DEF ContentsOf
  <2>3. \A j \in Res : j # k => Contents'[j] = Contents[j]
      BY Zenon, <1>3, <2>1 DEF ContentsTyped
  <2>4. Contents' = [Contents EXCEPT ![k] = {<<x, v>> : x \in names}]
      BY Zenon, <1>1, <2>1, <2>2, <2>3 DEF ContentsTyped
  <2>5. names \in SUBSET Abstract!File
      BY Zenon DEF Abstract!File, FileNames
  <2> HIDE DEF names
  <2>6. Abstract!Replace(k, v)
      BY Zenon, <1>2, <2>4, <2>5 DEF Abstract!Replace, Abstract!Whole
  <2>7. QED
      BY Zenon, <1>1, <2>6 DEF Abstract!RSNext
<1>6. QED
    BY Zenon, <1>4, <1>5

\* Steps of the garbage collector and stops: the entry of one key may go.
LEMMA EntryGoes ==
  ASSUME StoreInv, NEW k \in Res, entry' \in {entry, [entry EXCEPT ![k] = Absent]}
  PROVE  \A j \in Res : \A x \in FileNames : entry'[j].files[x] \in {0, entry[j].files[x]}
  BY Zenon, EntryTypes, NoFilesType DEF StoreInv

LEMMA CrashStep ==
  ASSUME StoreInv, StoreInv', StoreCrashes
  PROVE  Abstract!RSNext
<1>1. \A j \in Res : \A x \in FileNames : entry'[j].files[x] \in {0, entry[j].files[x]}
  <2>1. CASE UNCHANGED entry
      BY Zenon, <2>1
  <2>2. ASSUME NEW k \in Res, NEW f \in Files, f \in HalfRemoved(entry[k].files),
               entry' \in {[entry EXCEPT ![k] = Present(f)], [entry EXCEPT ![k] = Absent]}
        PROVE  \A j \in Res : \A x \in FileNames :
                  entry'[j].files[x] \in {0, entry[j].files[x]}
    <3>1. entry[k].files \in Files
        BY Zenon DEF StoreInv
    <3>2. \A x \in FileNames : f[x] \in {0, entry[k].files[x]}
        BY Zenon, <2>2, <3>1, FilesFields DEF HalfRemoved
    <3>3. /\ \A j \in Res : j # k => entry'[j] = entry[j]
          /\ entry'[k].files \in {f, NoFiles}
        BY <2>2, EntryTypes DEF StoreInv
    <3>4. QED
        BY <3>2, <3>3, NoFilesType
  <2>3. QED
      BY Zenon, <2>1, <2>2 DEF StoreCrashes
<1>2. Active' = {} /\ version' = version
    BY Zenon DEF StoreCrashes, Stop, Active
<1>3. Taken \subseteq Taken'
    BY Zenon, <1>2 DEF Taken
<1>4. QED
    BY Zenon, <1>1, <1>3, TakeAwayStep DEF Abstract!RSNext

\* Every step maps to a step of ResponseStore or to none.
LEMMA StoreNextStep ==
  StoreInv /\ StoreInv' /\ [StoreNext]_store_vars => [Abstract!RSNext]_<<Contents, Taken>>
<1> SUFFICES ASSUME StoreInv, StoreInv', [StoreNext]_store_vars
             PROVE  [Abstract!RSNext]_<<Contents, Taken>>
    BY Zenon
<1>1. ASSUME NEW s \in Storer, NEW k \in Res, StoreBegins(s, k)
      PROVE  UNCHANGED <<Contents, Taken>>
  <2>1. Active' = Active \cup {version'}
    <3> DEFINE new == [pc |-> "writing", key |-> k, version |-> version']
    <3>1. new # Quiet /\ new.version = version'
        BY Zenon DEF Quiet
    <3>2. /\ storing[s] = Quiet /\ storing'[s] = new
          /\ \A t \in Storer : t # s => storing'[t] = storing[t]
        BY Zenon, <1>1 DEF StoreBegins, StoreInv
    <3> HIDE DEF new
    <3>3. QED
        BY Zenon, <3>1, <3>2 DEF Active
  <2>2. version' = version + 1 /\ version \in Nat /\ entry' = entry
      BY <1>1, BoundsAssumption, SMTT(30) DEF StoreBegins, StoreInv
  <2>3. Taken' = Taken
      BY <2>1, <2>2, ActiveGivenOut DEF Taken
  <2>4. QED
      BY Zenon, <2>2, <2>3 DEF Contents, Names
<1>2. ASSUME UNCHANGED <<entry, storing, version>>
      PROVE  UNCHANGED <<Contents, Taken>>
    BY Zenon, <1>2 DEF Contents, Names, Taken, Active
<1>3. ASSUME NEW s \in Storer, StorePart(s) PROVE UNCHANGED <<Contents, Taken>>
    BY Zenon, <1>2, <1>3 DEF StorePart
<1>4. ASSUME NEW s \in Storer, StoreFails(s) PROVE Abstract!RSNext
  <2>1. Taken \subseteq Taken'
      BY Zenon, <1>4, TakenWhenLeft DEF StoreFails
  <2>2. QED
      BY Zenon, <1>4, <2>1, TakeAwayStep DEF StoreFails, Abstract!RSNext
<1>5. ASSUME NEW s \in Storer, StoreEnds(s) PROVE Abstract!RSNext
    BY Zenon, <1>5, StoreEndsStep
<1>6. ASSUME NEW r \in Reader, NEW k \in Res, ReaderOpensHead(r, k)
      PROVE  UNCHANGED <<Contents, Taken>>
    BY Zenon, <1>2, <1>6 DEF ReaderOpensHead
<1>7. ASSUME NEW r \in Reader, ReaderOpensRest(r) PROVE UNCHANGED <<Contents, Taken>>
    BY Zenon, <1>2, <1>7 DEF ReaderOpensRest
<1>8. CASE WalkBegins
    BY Zenon, <1>2, <1>8 DEF WalkBegins
<1>9. ASSUME NEW v \in Version, VisitTemp(v) PROVE UNCHANGED <<Contents, Taken>>
    BY Zenon, <1>2, <1>9 DEF VisitTemp
<1>10. ASSUME NEW k \in Res, UNCHANGED <<storing, version>>,
              entry' \in {entry, [entry EXCEPT ![k] = Absent]}
       PROVE  Abstract!RSNext
  <2>1. Taken' = Taken
      BY Zenon, <1>10 DEF Taken, Active
  <2>2. QED
      BY Zenon, <1>10, <2>1, EntryGoes, TakeAwayStep DEF Abstract!RSNext
<1>11. ASSUME NEW k \in Res, VisitEntry(k) PROVE Abstract!RSNext
    BY Zenon, <1>10, <1>11 DEF VisitEntry
<1>12. CASE Judge
  <2>1. CASE gc.at.key \in Res
      BY Zenon, <1>10, <1>12, <2>1 DEF Judge
  <2>2. CASE gc.at.key \notin Res
    <3>1. entry' = entry
        BY <1>12, <2>2 DEF Judge, StoreInv
    <3>2. QED
        BY Zenon, <1>2, <1>12, <3>1 DEF Judge
  <2>3. QED
      BY Zenon, <2>1, <2>2
<1>13. ASSUME NEW v \in Version, Expire(v) PROVE UNCHANGED <<Contents, Taken>>
    BY Zenon, <1>2, <1>13 DEF Expire
<1>14. ASSUME NEW v \in Version, TempAges(v) PROVE UNCHANGED <<Contents, Taken>>
    BY Zenon, <1>2, <1>14 DEF TempAges
<1>15. CASE StoreCrashes
    BY Zenon, <1>15, CrashStep
<1>16. CASE UNCHANGED store_vars
    BY Zenon, <1>2, <1>16 DEF store_vars
<1>17. QED
    BY Zenon, <1>1, <1>3, <1>4, <1>5, <1>6, <1>7, <1>8, <1>9, <1>11, <1>12, <1>13, <1>14, <1>15, <1>16
    DEF StoreNext, WalkStep

LEMMA StoreInitView == StoreInit => Abstract!RSInit
<1> SUFFICES ASSUME StoreInit PROVE Abstract!RSInit
    BY Zenon
<1>1. StoreInv
    BY Zenon, StoreInitInv
<1>2. ContentsTyped
    BY Zenon, <1>1, ContentsType
<1>3. \A k \in Res : Contents[k] = {}
    BY <1>2, EntryTypes, NoFilesType, SMTT(30) DEF StoreInit, ContentsTyped, ContentsOf
<1>4. Taken = {}
    BY DEF Taken, StoreInit
<1>5. QED
    BY Zenon, <1>2, <1>3, <1>4 DEF Abstract!RSInit, ContentsTyped

\* The store implements ResponseStore: whatever calls of store overlap,
\* whatever the garbage collector removes meanwhile and wherever the process
\* stops, an entry holds files of one response, which got there in one step,
\* once.
THEOREM StoreRefines == StoreSpec => StoresWholeResponses
<1>1. StoreInit => StoreInv
    BY Zenon, StoreInitInv
<1>2. StoreInv /\ [StoreNext]_store_vars => StoreInv'
    BY Zenon, StoreInvStep
<1>3. StoreInit => Abstract!RSInit
    BY Zenon, StoreInitView
<1>4. StoreInv /\ StoreInv' /\ [StoreNext]_store_vars => [Abstract!RSNext]_<<Contents, Taken>>
    BY Zenon, StoreNextStep
<1>5. QED
    BY <1>1, <1>2, <1>3, <1>4, PTL DEF StoreSpec, StoresWholeResponses, Abstract!RSSpec

-----------------------------------------------------------------------------
\* While writing never pauses, the temporary directory of a call of store that
\* is under way is there and counts as recent; the rest is what the garbage
\* collector's state needs to be told apart from the next.
LiveInv ==
  /\ StoreInv
  /\ crashes \in Nat
  /\ gc \in [todo : SUBSET Res, old : SUBSET Version,
             at : {Quiet} \cup [pc : {"head"}, key : Res, head : 0..MaxVersion]]
  /\ ~stalled => \A s \in Storer :
       storing[s] # Quiet => /\ storing[s].version \in DOMAIN temp
                             /\ temp[storing[s].version].recent

LEMMA LiveInit == StoreInit => LiveInv
<1> SUFFICES ASSUME StoreInit PROVE LiveInv
    BY Zenon
<1>1. StoreInv
    BY Zenon, StoreInitInv
<1>2. gc \in [todo : SUBSET Res, old : SUBSET Version,
              at : {Quiet} \cup [pc : {"head"}, key : Res, head : 0..MaxVersion]]
    BY Zenon DEF StoreInit
<1>3. QED
    BY Zenon, <1>1, <1>2 DEF LiveInv, StoreInit

\* Taking a key from the walk, and what it visits, keep the shape of the walk.
LEMMA WalkShape ==
  ASSUME NEW A, NEW B, NEW C, NEW g \in [todo : A, old : B, at : C], NEW t \in A, NEW a \in C
  PROVE  /\ [g EXCEPT !.todo = t] \in [todo : A, old : B, at : C]
         /\ [g EXCEPT !.todo = t, !.at = a] \in [todo : A, old : B, at : C]
BY Zenon

LEMMA WalkingType ==
  ASSUME StoreInv, NEW k \in Res
  PROVE  Walking("head", k, entry[k].files.head)
           \in [pc : {"head"}, key : Res, head : 0..MaxVersion]
<1>1. entry[k].files.head \in 0..MaxVersion
    BY Zenon DEF StoreInv, Files
<1>2. QED
    BY Zenon, <1>1 DEF Walking

LEMMA LiveStep == LiveInv /\ [StoreNext]_store_vars => LiveInv'
<1> SUFFICES ASSUME LiveInv, [StoreNext]_store_vars PROVE LiveInv'
    BY Zenon
<1> DEFINE Temps == ~stalled => \A s \in Storer :
                      storing[s] # Quiet => /\ storing[s].version \in DOMAIN temp
                                            /\ temp[storing[s].version].recent
           Gc == gc \in [todo : SUBSET Res, old : SUBSET Version,
                         at : {Quiet} \cup [pc : {"head"}, key : Res, head : 0..MaxVersion]]
<1>0. StoreInv /\ crashes \in Nat /\ Gc /\ Temps
    BY Zenon DEF LiveInv
<1>00. StoreInv'
    BY Zenon, <1>0, StoreInvStep
<1> SUFFICES crashes' \in Nat /\ Gc' /\ Temps'
    BY Zenon, <1>00 DEF LiveInv
<1>1. ASSUME NEW s \in Storer, NEW k \in Res, StoreBegins(s, k)
      PROVE  crashes' \in Nat /\ Gc' /\ Temps'
  <2>1. /\ \A t \in Storer : t # s => storing'[t] = storing[t]
        /\ storing'[s].version = version'
      BY Zenon, <1>0, <1>1 DEF StoreBegins, StoreInv
  <2>2. /\ DOMAIN temp' = DOMAIN temp \cup {version'} /\ temp'[version'].recent
        /\ \A v \in DOMAIN temp : v # version' => temp'[v] = temp[v]
      BY Zenon, <1>1 DEF StoreBegins
  <2>3. UNCHANGED <<crashes, gc, stalled>>
      BY Zenon, <1>1 DEF StoreBegins
  <2>4. QED
      BY <1>0, <2>1, <2>2, <2>3
<1>2. ASSUME NEW s \in Storer, StorePart(s) PROVE crashes' \in Nat /\ Gc' /\ Temps'
  <2> DEFINE v == storing[s].version
  <2>1. /\ v \in DOMAIN temp /\ DOMAIN temp' = DOMAIN temp
        /\ \A w \in DOMAIN temp : w # v => temp'[w] = temp[w]
        /\ UNCHANGED <<crashes, gc, stalled, storing>>
      BY Zenon, <1>2 DEF StorePart
  <2>2. temp'[v].recent
    <3> DEFINE x == NextFile(temp[v].files)
    <3>1. temp'[v] = [temp[v] EXCEPT !.files = [@ EXCEPT ![x] = v], !.recent = TRUE]
        BY Zenon, <1>2, <2>1 DEF StorePart
    <3>2. temp[v] \in Temp
        BY Zenon, <1>0, <2>1 DEF StoreInv
    <3> HIDE DEF x, v
    <3>3. QED
        BY Zenon, <3>1, <3>2 DEF Temp
  <2> HIDE DEF v
  <2>3. QED
      BY Zenon, <1>0, <2>1, <2>2
<1>3. ASSUME NEW s \in Storer, storing[s] # Quiet,
             temp' = Without(temp, {storing[s].version}),
             storing' = [storing EXCEPT ![s] = Quiet], UNCHANGED <<crashes, gc, stalled>>
      PROVE  crashes' \in Nat /\ Gc' /\ Temps'
  <2>1. \A t \in Storer : storing'[t] # Quiet =>
           /\ storing'[t] = storing[t] /\ storing[t].version # storing[s].version
      BY Zenon, <1>0, <1>3 DEF StoreInv
  <2>2. \A v \in DOMAIN temp : v # storing[s].version =>
           v \in DOMAIN temp' /\ temp'[v] = temp[v]
      BY Zenon, <1>3 DEF Without
  <2>3. crashes' = crashes /\ gc' = gc /\ stalled' = stalled
      BY Zenon, <1>3
  <2>4. Temps'
    <3> SUFFICES ASSUME ~stalled', NEW t \in Storer, storing'[t] # Quiet
                 PROVE  /\ storing'[t].version \in DOMAIN temp'
                        /\ temp'[storing'[t].version].recent
        BY Zenon
    <3>1. storing'[t] = storing[t] /\ storing[t].version # storing[s].version
        BY Zenon, <2>1
    <3>2. storing[t].version \in DOMAIN temp /\ temp[storing[t].version].recent
        BY Zenon, <1>0, <2>3, <3>1
    <3>3. QED
        BY Zenon, <2>2, <3>1, <3>2
  <2>5. QED
      BY Zenon, <1>0, <2>3, <2>4
<1>4. ASSUME NEW s \in Storer, StoreFails(s) \/ StoreEnds(s)
      PROVE  crashes' \in Nat /\ Gc' /\ Temps'
    BY Zenon, <1>3, <1>4 DEF StoreFails, StoreEnds
<1>5. ASSUME UNCHANGED <<crashes, gc, stalled, storing, temp>>
      PROVE  crashes' \in Nat /\ Gc' /\ Temps'
    BY Zenon, <1>0, <1>5
<1>6. ASSUME NEW r \in Reader, NEW k \in Res, ReaderOpensHead(r, k)
      PROVE  crashes' \in Nat /\ Gc' /\ Temps'
    BY Zenon, <1>5, <1>6 DEF ReaderOpensHead
<1>7. ASSUME NEW r \in Reader, ReaderOpensRest(r) PROVE crashes' \in Nat /\ Gc' /\ Temps'
    BY Zenon, <1>5, <1>7 DEF ReaderOpensRest
<1>8. CASE WalkBegins
  <2>1. DOMAIN temp \subseteq Version
      BY <1>0, BoundsAssumption, SMTT(30) DEF StoreInv, Version
  <2>2. Gc'
      BY Zenon, <1>8, <2>1 DEF WalkBegins
  <2>3. QED
      BY Zenon, <1>0, <1>8, <2>2 DEF WalkBegins
<1>9. ASSUME NEW v \in Version, VisitTemp(v) PROVE crashes' \in Nat /\ Gc' /\ Temps'
  <2>1. Gc'
      BY Zenon, <1>0, <1>9 DEF VisitTemp
  <2>2. \A w \in DOMAIN temp : temp[w].recent => w \in DOMAIN temp' /\ temp'[w] = temp[w]
      BY Zenon, <1>9 DEF VisitTemp, recently_updated, Without
  <2>3. QED
      BY Zenon, <1>0, <1>9, <2>1, <2>2 DEF VisitTemp
<1>10. ASSUME NEW k \in Res, VisitEntry(k) PROVE crashes' \in Nat /\ Gc' /\ Temps'
  <2>1. Gc'
    <3> DEFINE w == Walking("head", k, entry[k].files.head)
    <3>1. w \in [pc : {"head"}, key : Res, head : 0..MaxVersion]
        BY Zenon, <1>0, WalkingType
    <3>2. \/ gc' = [gc EXCEPT !.todo = @ \ {k}, !.at = w]
          \/ gc' = [gc EXCEPT !.todo = @ \ {k}]
        BY Zenon, <1>10 DEF VisitEntry
    <3>3. gc.todo \ {k} \in SUBSET Res
        BY Zenon, <1>0
    <3> HIDE DEF w
    <3>4. w \in {Quiet} \cup [pc : {"head"}, key : Res, head : 0..MaxVersion]
        BY Zenon, <3>1
    <3>5. CASE gc' = [gc EXCEPT !.todo = @ \ {k}, !.at = w]
        BY Zenon, <1>0, <3>3, <3>4, <3>5, WalkShape
    <3>6. CASE gc' = [gc EXCEPT !.todo = @ \ {k}]
        BY Zenon, <1>0, <3>3, <3>4, <3>6, WalkShape
    <3>7. QED
        BY Zenon, <3>2, <3>5, <3>6
  <2>2. QED
      BY Zenon, <1>0, <1>10, <2>1 DEF VisitEntry
<1>11. CASE Judge
  <2>1. Gc'
      BY Zenon, <1>0, <1>11 DEF Judge
  <2>2. QED
      BY Zenon, <1>0, <1>11, <2>1 DEF Judge
<1>12. ASSUME NEW v \in Version, Expire(v) PROVE crashes' \in Nat /\ Gc' /\ Temps'
    BY Zenon, <1>5, <1>12 DEF Expire
<1>13. ASSUME NEW v \in Version, TempAges(v) PROVE crashes' \in Nat /\ Gc' /\ Temps'
  <2>1. /\ DOMAIN temp' = DOMAIN temp
        /\ \A w \in DOMAIN temp : w # v => temp'[w] = temp[w]
        /\ UNCHANGED <<crashes, gc, storing>>
        /\ stalled' = (stalled \/ v \in Active)
      BY Zenon, <1>13 DEF TempAges
  <2>2. ~stalled' => ~stalled /\ \A s \in Storer : storing[s] # Quiet => storing[s].version # v
      BY Zenon, <2>1 DEF Active
  <2>3. QED
      BY Zenon, <1>0, <2>1, <2>2
<1>14. CASE StoreCrashes
  <2>1. Gc'
      BY Zenon, <1>14 DEF StoreCrashes, Stop
  <2>2. QED
      BY <1>0, <1>14, <2>1, SMTT(30) DEF StoreCrashes, Stop
<1>15. CASE UNCHANGED store_vars
    BY Zenon, <1>5, <1>15 DEF store_vars
<1>16. QED
    BY Zenon, <1>1, <1>2, <1>4, <1>6, <1>7, <1>8, <1>9, <1>10, <1>11, <1>12, <1>13, <1>14, <1>15
    DEF StoreNext, WalkStep

\* An entry of which only a missing temporary directory would take the place
\* is not lost.
LEMMA ReplacesStep ==
  LiveInv /\ [StoreNext]_store_vars =>
    [~stalled => \A k \in Res :
       entry[k].dir /\ ~entry'[k].dir => gc' # gc \/ crashes' # crashes]_store_vars
<1> SUFFICES ASSUME LiveInv, StoreNext, ~stalled, NEW k \in Res, entry[k].dir, ~entry'[k].dir
             PROVE  gc' # gc \/ crashes' # crashes
    BY Zenon
<1>1. entry' # entry
    BY Zenon
<1>2. ASSUME NEW s \in Storer, StoreEnds(s) PROVE FALSE
  <2> DEFINE v == storing[s].version
             j == storing[s].key
  <2>1. storing[s] # Quiet /\ entry' = [entry EXCEPT ![j] = Committed(j, v)]
      BY Zenon, <1>2 DEF StoreEnds
  <2>2. v \in DOMAIN temp
      BY Zenon, <2>1 DEF LiveInv
  <2>3. Committed(j, v).dir
      BY Zenon, <2>2 DEF Committed, Present
  <2>4. QED
      BY Zenon, <2>1, <2>3 DEF LiveInv, StoreInv
<1>3. ASSUME NEW j \in Res, VisitEntry(j) PROVE gc' # gc
  <2>1. j \in gc.todo /\ j \notin gc'.todo
      BY <1>1, <1>3 DEF VisitEntry, LiveInv
  <2>2. QED
      BY Zenon, <2>1
<1>4. CASE Judge
  <2>1. gc.at # Quiet /\ gc'.at = Quiet
      BY Zenon, <1>4 DEF Judge, LiveInv
  <2>2. QED
      BY Zenon, <2>1
<1>5. CASE StoreCrashes
    BY <1>5, SMTT(30) DEF StoreCrashes, Stop, LiveInv
<1>6. QED
    BY Zenon, <1>1, <1>2, <1>3, <1>4, <1>5
    DEF StoreNext, WalkStep, StoreBegins, StorePart, StoreFails, ReaderOpensHead,
        ReaderOpensRest, WalkBegins, VisitTemp, Expire, TempAges

\* As long as writing a response never pauses for ten minutes, storing one only
\* replaces what was there (atomic_dir's commit finds its directory): an entry
\* goes only by the garbage collector or a stop of the process.
THEOREM StoringReplaces == StoreSpec => StoreOnlyReplaces
<1>1. StoreInit => LiveInv
    BY Zenon, LiveInit
<1>2. LiveInv /\ [StoreNext]_store_vars => LiveInv'
    BY Zenon, LiveStep
<1>3. LiveInv /\ [StoreNext]_store_vars =>
        [~stalled => \A k \in Res :
           entry[k].dir /\ ~entry'[k].dir => gc' # gc \/ crashes' # crashes]_store_vars
    BY Zenon, ReplacesStep
<1>4. QED
    BY <1>1, <1>2, <1>3, PTL DEF StoreSpec, StoreOnlyReplaces
=============================================================================
