----------------------------- MODULE DhtGroups -----------------------------
(***************************************************************************)
(* The index of resource groups (src/cache/dht_groups.cpp).                *)
(*                                                                         *)
(* A group is a name under which a client announces itself on the DHT; its *)
(* items are the resources the client stores.  The index lives twice: in   *)
(* memory (DhtGroupsImpl::_groups) and on disk, one directory per group    *)
(* holding a group_name file, a file per item and, if the group is pinned, *)
(* a pin file.  The process may stop at any file operation and is started  *)
(* again with what the disk then holds.                                    *)
(*                                                                         *)
(* add is a coroutine that suspends once, while it writes the group_name   *)
(* of a group it creates; everything else runs without suspending.         *)
(***************************************************************************)
EXTENDS Naturals, FiniteSets, Functions

CONSTANTS
  Group,          \* names of resource groups
  Item,           \* resource identifiers
  NoName,         \* the name read from an empty group_name file
  Adder,          \* coroutines that may be inside add at the same time
  NoAdder,
  FallbackItems,  \* the static groups of BackedDhtGroups and their items
  Worlds          \* sets of events of which each behaviour is given one

ASSUME NamesAssumption == NoName \notin Group /\ NoAdder \notin Adder

ASSUME FallbackAssumption == FallbackItems \in [Group -> SUBSET Item]

\* "overlap": several coroutines are inside add at the same time; "crash":
\* the process stops between file operations, "torn": inside one; "cancel":
\* callers of add are cancelled; "io": file operations fail.
Event == {"overlap", "crash", "torn", "cancel", "io"}

ASSUME WorldsAssumption == Worlds \subseteq SUBSET Event

VARIABLES
  state,   \* "down", "up", or "failed": the last load returned an error
  groups,  \* DhtGroupsImpl::_groups, a partial function to sets of items
  disk,    \* the directory of each group
  adding,  \* what each coroutine is adding
  may      \* the events that may happen in this behaviour

vars == <<state, groups, disk, adding, may>>

Dir == [exists : BOOLEAN, name : {"missing", "empty", "whole"},
        items : SUBSET Item, pin : BOOLEAN, maker : Adder \cup {NoAdder}]

NoDir == [exists |-> FALSE, name |-> "missing", items |-> {}, pin |-> FALSE,
          maker |-> NoAdder]

\* A directory just created by coroutine a, its group_name file still empty.
NewDir(a) == [NoDir EXCEPT !.exists = TRUE, !.name = "empty", !.maker = a]

Idle == [pc |-> "idle"]

Writing(g, i) == [pc |-> "writing", group |-> g, item |-> i]

Adding == {Idle} \cup {Writing(g, i) : g \in Group, i \in Item}

NoGroups == [g \in {} |-> {}]

Init ==
  /\ state = "down"
  /\ groups = NoGroups
  /\ disk = [g \in Group |-> NoDir]
  /\ adding = [a \in Adder |-> Idle]
  /\ may \in Worlds

------------------------------------------------------------------------------
(***************************************************************************)
(* Reading the index.                                                      *)
(***************************************************************************)

\* Items known under a name; none if the group is unknown.
ItemsOf(gs, n) == IF n \in DOMAIN gs THEN gs[n] ELSE {}

FallbackGroups == {g \in Group : FallbackItems[g] # {}}

\* BackedDhtGroups::groups and ::items: the static groups are merged in.
AllGroups(gs) == DOMAIN gs \cup FallbackGroups

AllItems(gs, n) ==
  ItemsOf(gs, n) \cup (IF n \in Group THEN FallbackItems[n] ELSE {})

\* is_pinned(GroupName) with disk d: the pin file decides, not memory.  No
\* directory belongs to the empty name.
is_pinned(d, n) == n \in Group /\ d[n].exists /\ d[n].pin

pinned_groups(gs, d) == {n \in DOMAIN gs : is_pinned(d, n)}

\* is_pinned(ResourceId)
is_pinned_item(gs, d, i) == \E n \in pinned_groups(gs, d) : i \in d[n].items

------------------------------------------------------------------------------
(***************************************************************************)
(* add                                                                     *)
(***************************************************************************)

WithItem(gs, n, i) ==
  [m \in DOMAIN gs \cup {n} |->
     IF m = n THEN ItemsOf(gs, n) \cup {i} ELSE gs[m]]

DirWithItem(dir, i) == [dir EXCEPT !.exists = TRUE, !.items = @ \cup {i}]

\* The rest of add once the group's directory was found or created; d is
\* the disk at that point and ok what add returns.  create_directories of
\* items/ also brings back a directory that vanished meanwhile, without its
\* group_name.
CompleteAdd(a, d, g, i, ok) ==
  /\ adding' = [adding EXCEPT ![a] = Idle]
  /\ \/ /\ ok
        /\ disk' = [d EXCEPT ![g] = DirWithItem(@, i)]
        /\ groups' = WithItem(groups, g, i)
     \/ /\ ~ok
        /\ "io" \in may
        /\ \/ \* items/ or the item's file cannot be created
              disk' = IF d[g].items = {} THEN [d EXCEPT ![g] = NoDir] ELSE d
           \/ \* the item's file was created and cannot be truncated
              disk' = [d EXCEPT ![g] = DirWithItem(@, i)]
        /\ UNCHANGED groups

NobodyAdds == \A a \in Adder : adding[a] = Idle

\* add finds the group's directory and ends without suspending.
AddToOld(a, g, i, ok) ==
  /\ state = "up"
  /\ adding[a] = Idle
  /\ "overlap" \in may \/ NobodyAdds
  /\ disk[g].exists
  /\ CompleteAdd(a, disk, g, i, ok)
  /\ UNCHANGED <<state, may>>

\* add creates the group's directory and suspends in writing its name.
AddToNew(a, g, i) ==
  /\ state = "up"
  /\ adding[a] = Idle
  /\ "overlap" \in may \/ NobodyAdds
  /\ ~disk[g].exists
  /\ disk' = [disk EXCEPT ![g] = NewDir(a)]
  /\ adding' = [adding EXCEPT ![a] = Writing(g, i)]
  /\ UNCHANGED <<state, groups, may>>

\* Writing to the open group_name file reaches the directory only if the
\* directory is still the one this coroutine created.
NameWritten(a, d, g) ==
  IF d[g].maker = a THEN [d EXCEPT ![g].name = "whole"] ELSE d

\* add resumes after writing group_name.
Written(a, ok) ==
  /\ state = "up"
  /\ adding[a] # Idle
  /\ LET g == adding[a].group IN
     CompleteAdd(a, NameWritten(a, disk, g), g, adding[a].item, ok)
  /\ UNCHANGED <<state, may>>

\* The write failed: try_remove(group_p).
WriteFails(a) ==
  /\ "io" \in may
  /\ state = "up"
  /\ adding[a] # Idle
  /\ disk' = [disk EXCEPT ![adding[a].group] = NoDir]
  /\ adding' = [adding EXCEPT ![a] = Idle]
  /\ UNCHANGED <<state, groups, may>>

\* The caller was cancelled: Async throws when the write resumes, and
\* nothing is cleaned up.
Cancelled(a) ==
  /\ "cancel" \in may
  /\ state = "up"
  /\ adding[a] # Idle
  /\ disk' \in {disk, NameWritten(a, disk, adding[a].group)}
  /\ adding' = [adding EXCEPT ![a] = Idle]
  /\ UNCHANGED <<state, groups, may>>

------------------------------------------------------------------------------
(***************************************************************************)
(* remove, pin and unpin.  The operators say what removing each item of I, *)
(* one after the other, makes of memory gs and disk d.                     *)
(***************************************************************************)

\* The groups that lose an item: those that hold one, unless pinned.
Removing(gs, d, I) == {n \in DOMAIN gs : gs[n] \cap I # {} /\ ~is_pinned(d, n)}

\* The groups erased: those left without an item, and any found without one.
Emptied(gs, d, I) ==
  {n \in DOMAIN gs : gs[n] = {}}
    \cup {n \in Removing(gs, d, I) : gs[n] \subseteq I}

\* The set DhtGroupsImpl::remove returns.
remove_returns(i) == Emptied(groups, disk, {i})

\* The set remove(item, group_pinned) returns.  BackedDhtGroups overrides only
\* remove(item), so the static groups are not taken out.
Backed_remove_pinned_returns(i) == remove_returns(i)

GroupsAfterRemove(gs, d, I) ==
  [n \in DOMAIN gs \ Emptied(gs, d, I) |->
     IF n \in Removing(gs, d, I) THEN gs[n] \ I ELSE gs[n]]

\* try_remove of the item's file, then of the directory if that was the last.
DiskAfterRemove(gs, d, I) ==
  [g \in Group |->
     IF g \in Emptied(gs, d, I) THEN NoDir
     ELSE IF g \in Removing(gs, d, I) THEN [d[g] EXCEPT !.items = @ \ I]
     ELSE d[g]]

remove(i) ==
  /\ state = "up"
  /\ groups' = GroupsAfterRemove(groups, disk, {i})
  /\ disk' = DiskAfterRemove(groups, disk, {i})
  /\ UNCHANGED <<state, adding, may>>

GroupsWithout(gs, N) == Restrict(gs, DOMAIN gs \ N)

DiskWithout(d, N) == [g \in Group |-> IF g \in N THEN NoDir ELSE d[g]]

pin_group(g) ==
  /\ state = "up"
  /\ disk[g].exists
  /\ disk' = [disk EXCEPT ![g].pin = TRUE]
  /\ UNCHANGED <<state, groups, adding, may>>

unpin_group(g) ==
  /\ state = "up"
  /\ is_pinned(disk, g)
  /\ disk' = [disk EXCEPT ![g].pin = FALSE]
  /\ UNCHANGED <<state, groups, adding, may>>

------------------------------------------------------------------------------
(***************************************************************************)
(* Stopping and starting.                                                  *)
(***************************************************************************)

Stop ==
  /\ state' = "down"
  /\ groups' = NoGroups
  /\ adding' = [a \in Adder |-> Idle]
  /\ UNCHANGED may

\* The process stops while every coroutine is suspended or idle; a write in
\* progress may have reached its file or not.
Crash ==
  /\ "crash" \in may
  /\ state = "up"
  /\ Stop
  /\ \E A \in SUBSET {a \in Adder : adding[a] # Idle} :
       disk' = [g \in Group |->
                  IF \E a \in A : adding[a].group = g /\ disk[g].maker = a
                  THEN [disk[g] EXCEPT !.name = "whole"]
                  ELSE disk[g]]

\* What remove_all can leave of a directory when it is interrupted.
HalfRemoved(dir) ==
  {[dir EXCEPT !.name = nm, !.items = its, !.pin = p, !.maker = NoAdder] :
     nm \in {dir.name, "missing"}, its \in SUBSET dir.items,
     p \in {dir.pin, FALSE}}

\* The process stops between creating a directory and its group_name file,
\* or in the middle of removing a directory.
CrashInside ==
  /\ "torn" \in may
  /\ state = "up"
  /\ Stop
  /\ \/ \E g \in Group :
          /\ ~disk[g].exists
          /\ disk' = [disk EXCEPT ![g] = [NoDir EXCEPT !.exists = TRUE]]
     \/ \E i \in Item : \E g \in Emptied(groups, disk, {i}) \cap Group :
          \E dir \in HalfRemoved([disk[g] EXCEPT !.items = @ \ {i}]) :
            disk' = [disk EXCEPT ![g] = dir]

Dirs == {g \in Group : disk[g].exists}

EmptyDirs == {g \in Dirs : disk[g].items = {}}

\* Directories whose group_name cannot be read: load_group fails.
Unnamed == {g \in Dirs : disk[g].name = "missing"}

\* load_group: the name found in a directory.
LoadedName(g) == IF disk[g].name = "whole" THEN g ELSE NoName

\* What load may make of the disk in memory; of several directories with the
\* same name, the first one found counts.
LoadedGroups ==
  LET Full == Dirs \ EmptyDirs
      Names == {LoadedName(g) : g \in Full}
  IN {[n \in Names |-> disk[pick[n]].items] :
        pick \in {f \in [Names -> Full] : \A n \in Names : LoadedName(f[n]) = n}}

\* Mutant of LoadRemoves: groups without items are left on disk.
LoadRemovesNothing == {}

\* load_trusted removes the directories without items.
LoadRemoves == EmptyDirs \ Unnamed

\* load_trusted fails.  Directories come in any order; the first one without
\* a readable group_name makes the whole load fail.
LoadFails ==
  /\ state # "up"
  /\ Unnamed # {}
  /\ \E N \in SUBSET LoadRemoves : disk' = DiskWithout(disk, N)
  /\ state' = "failed"
  /\ UNCHANGED <<groups, adding, may>>

------------------------------------------------------------------------------
(***************************************************************************)
(* Properties.                                                             *)
(***************************************************************************)

\* Nothing worse happens than stops between two file operations.
Calm == may \subseteq {"crash"}

\* While only one coroutine adds at a time, and the process never stops in
\* the middle of a file operation, disk and memory tell the same: a restart,
\* at any moment, can load the index, and finds exactly the groups and the
\* items memory had.
DiskMirrorsMemory ==
  Calm =>
    /\ state # "failed"
    /\ state = "up" => \A g \in Group :
         /\ disk[g].items = ItemsOf(groups, g)
         /\ g \in DOMAIN groups => disk[g].exists /\ disk[g].name = "whole"
         /\ disk[g].exists =>
              g \in DOMAIN groups \/ \E a \in Adder : adding[a] # Idle
                                           /\ adding[a].group = g

\* The description of the storage format: a group directory contains "A
\* `group_name` file with `<resource-group>` as its only content".  Once no
\* add is in progress, every directory has it.
GroupsHaveNames ==
  NobodyAdds =>
    \A g \in Group : disk[g].exists => disk[g].name = "whole"
=============================================================================
