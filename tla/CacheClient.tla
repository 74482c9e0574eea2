---------------------------- MODULE CacheClient ----------------------------
(***************************************************************************)
(* The cache client (src/cache/client.cpp): what it stores, the index of   *)
(* resource groups and the announcers, put together.                       *)
(*                                                                         *)
(* store writes a response to the HTTP store, adds it to its group and     *)
(* tells every announcer; the garbage collector and local_purge walk the   *)
(* HTTP store, take entries out of the index, stop announcing the groups   *)
(* that became empty and remove the entries; start-up loads the index and  *)
(* drops what has no content.  The index is that of DhtGroups.  The HTTP   *)
(* store is what it promises one key at a time, the state of the entry     *)
(* last committed; an announcer is the set of names it was told to         *)
(* announce.                                                               *)
(***************************************************************************)
EXTENDS DhtGroups

CONSTANTS
  Announcer,     \* the BEP5 and the I2P announcer
  StaticStored,  \* the items found in the static HTTP store
  OldEntries     \* items a previous version of the client may have left

ASSUME StoredAssumption == StaticStored \subseteq Item /\ OldEntries \subseteq Item

VARIABLES
  stored,     \* the HTTP store: the entry of each item
  saving,     \* what each coroutine inside store is storing
  enabled,    \* the announcers enabled so far
  announced,  \* what each announcer was told to announce
  walk        \* the garbage collector's and local_purge's walk

cvars == <<vars, stored, saving, enabled, announced, walk>>

Walker == {"gc", "purge"}

NoSave == [pc |-> "idle"]

Saving(pc, g, i) == [pc |-> pc, group |-> g, item |-> i]

NoWalk == [todo |-> {}, item |-> {}, seen |-> "none"]

CInit ==
  /\ Init
  /\ stored \in {s \in [Item -> {"none", "foreign"}] :
                   \A i \in Item \ OldEntries : s[i] = "none"}
  /\ saving = [a \in Adder |-> NoSave]
  /\ enabled = {}
  /\ announced = [x \in Announcer |-> {}]
  /\ walk = [w \in Walker |-> NoWalk]

------------------------------------------------------------------------------
(***************************************************************************)
(* store                                                                   *)
(***************************************************************************)

\* Announcer::add for every announcer enabled.
Announce(N) ==
  announced' = [x \in Announcer |->
                  IF x \in enabled THEN announced[x] \cup N ELSE announced[x]]

\* Client::store waits for the HTTP store to write the response.
StoreBegins(a, g, i) ==
  /\ state = "up"
  /\ saving[a] = NoSave
  /\ "overlap" \in may \/ \A b \in Adder : saving[b] = NoSave
  /\ saving' = [saving EXCEPT ![a] = Saving("http", g, i)]
  /\ UNCHANGED <<vars, stored, enabled, announced, walk>>

\* The response could not be written.
StoreFails(a) ==
  /\ state = "up"
  /\ saving[a].pc = "http"
  /\ saving' = [saving EXCEPT ![a] = NoSave]
  /\ UNCHANGED <<vars, stored, enabled, announced, walk>>

\* The response is committed and added to a group that has a directory; the
\* group is announced if that succeeded.
StoredToOldGroup(a, ok) ==
  /\ saving[a].pc = "http"
  /\ AddToOld(a, saving[a].group, saving[a].item, ok)
  /\ stored' = [stored EXCEPT ![saving[a].item] = "fresh"]
  /\ saving' = [saving EXCEPT ![a] = NoSave]
  /\ Announce(IF ok THEN {saving[a].group} ELSE {})
  /\ UNCHANGED <<enabled, walk>>

\* The response is committed; adding it to a new group suspends.
StoredToNewGroup(a) ==
  /\ saving[a].pc = "http"
  /\ AddToNew(a, saving[a].group, saving[a].item)
  /\ stored' = [stored EXCEPT ![saving[a].item] = "fresh"]
  /\ saving' = [saving EXCEPT ![a].pc = "group"]
  /\ UNCHANGED <<enabled, announced, walk>>

\* Adding to the new group ends, and the group is announced.
GroupAdded(a, ok) ==
  /\ saving[a].pc = "group"
  /\ Written(a, ok)
  /\ saving' = [saving EXCEPT ![a] = NoSave]
  /\ Announce(IF ok THEN {saving[a].group} ELSE {})
  /\ UNCHANGED <<stored, enabled, walk>>

\* Adding to the new group fails or is cancelled: store returns.
GroupNotAdded(a) ==
  /\ saving[a].pc = "group"
  /\ WriteFails(a) \/ Cancelled(a)
  /\ saving' = [saving EXCEPT ![a] = NoSave]
  /\ UNCHANGED <<stored, enabled, announced, walk>>

\* enable_dht and enable_i2p: once, and every group is announced.
Enable(x) ==
  /\ state = "up"
  /\ x \notin enabled
  /\ enabled' = enabled \cup {x}
  /\ announced' = [announced EXCEPT ![x] = AllGroups(groups)]
  /\ UNCHANGED <<vars, stored, saving, walk>>

Pin(g) ==
  /\ pin_group(g) \/ unpin_group(g)
  /\ UNCHANGED <<stored, saving, enabled, announced, walk>>

------------------------------------------------------------------------------
(***************************************************************************)
(* The garbage collector and local_purge.                                  *)
(***************************************************************************)

\* Whether DhtGroups::remove(item, group_pinned) met a pinned group.
MetPinned(i) == \E n \in DOMAIN groups : i \in groups[n] /\ is_pinned(disk, n)

\* Mutant of Unannounced: a group is no longer announced once it loses an item.
UnannouncedEarly(i) ==
  IF MetPinned(i) THEN {} ELSE Removing(groups, disk, {i})

\* The names unpublish_cache_entry(item, group_pinned) takes from the
\* announcers: none if it met a pinned group.  A static group whose own part
\* became empty is among them.
Unannounced(i) == IF MetPinned(i) THEN {} ELSE Backed_remove_pinned_returns(i)

\* unpublish_cache_entry
unpublish_cache_entry(i) ==
  /\ remove(i)
  /\ announced' = [x \in Announcer |->
                     IF x \in enabled THEN announced[x] \ Unannounced(i)
                     ELSE announced[x]]

\* HttpStore::for_each starts to walk the entries.
WalkBegins(w) ==
  /\ state = "up"
  /\ walk[w] = NoWalk
  /\ \E i \in Item : stored[i] # "none"
  /\ walk' = [walk EXCEPT ![w].todo = {i \in Item : stored[i] # "none"}]
  /\ UNCHANGED <<vars, stored, saving, enabled, announced>>

\* The head of an entry is opened and read: the walk suspends.
Visit(w, i) ==
  /\ state = "up"
  /\ i \in walk[w].todo
  /\ walk[w].item = {}
  /\ walk' = [walk EXCEPT ![w].todo = @ \ {i},
                          ![w].item = IF stored[i] = "none" THEN {} ELSE {i},
                          ![w].seen = stored[i]]
  /\ UNCHANGED <<vars, stored, saving, enabled, announced>>

WalkGoesOn(w) ==
  walk' = [walk EXCEPT ![w].item = {}, ![w].seen = "none"]

RemoveEntry(i) == stored' = [stored EXCEPT ![i] = "none"]

\* Mutant of keep_cache_entry: an entry that is too old is unpublished and kept.
CollectKeeps(i) ==
  LET w == "gc" IN
  /\ walk[w].item = {i}
  /\ WalkGoesOn(w)
  /\ \/ /\ walk[w].seen = "old"
        /\ unpublish_cache_entry(i)
     \/ /\ walk[w].seen # "old"
        /\ UNCHANGED <<vars, announced>>
  /\ UNCHANGED <<stored, saving, enabled>>

\* keep_cache_entry, on the head read: an entry of another protocol version
\* is removed and stays in the index; one that is too old is unpublished and
\* removed, unless it is in a pinned group.
keep_cache_entry(i) ==
  LET w == "gc" IN
  /\ walk[w].item = {i}
  /\ WalkGoesOn(w)
  /\ \/ /\ walk[w].seen = "foreign"
        /\ RemoveEntry(i)
        /\ UNCHANGED <<vars, announced>>
     \/ /\ walk[w].seen = "old"
        /\ ~is_pinned_item(groups, disk, i)
        /\ unpublish_cache_entry(i)
        /\ RemoveEntry(i)
     \/ /\ walk[w].seen = "fresh" \/ (walk[w].seen = "old" /\ is_pinned_item(groups, disk, i))
        /\ UNCHANGED <<vars, stored, announced>>
  /\ UNCHANGED <<saving, enabled>>

\* The function local_purge passes to for_each.
local_purge(i) ==
  LET w == "purge" IN
  /\ walk[w].item = {i}
  /\ WalkGoesOn(w)
  /\ unpublish_cache_entry(i)
  /\ IF MetPinned(i) THEN UNCHANGED stored ELSE RemoveEntry(i)
  /\ UNCHANGED <<saving, enabled>>

\* Reading the head fails: for_each removes the entry.
HeadUnreadable(w, i) ==
  /\ "io" \in may
  /\ walk[w].item = {i}
  /\ WalkGoesOn(w)
  /\ RemoveEntry(i)
  /\ UNCHANGED <<vars, saving, enabled, announced>>

\* The entry passes its maximum age.
Age(i) ==
  /\ state = "up"
  /\ stored[i] = "fresh"
  /\ stored' = [stored EXCEPT ![i] = "old"]
  /\ UNCHANGED <<vars, saving, enabled, announced, walk>>

------------------------------------------------------------------------------
(***************************************************************************)
(* Stopping and starting.                                                  *)
(***************************************************************************)

CCrash ==
  /\ Crash \/ CrashInside
  /\ saving' = [a \in Adder |-> NoSave]
  /\ enabled' = {}
  /\ announced' = [x \in Announcer |-> {}]
  /\ walk' = [w \in Walker |-> NoWalk]
  /\ UNCHANGED stored

\* Mutant of BadGroups: groups are not checked against the HTTP store.
NoBadGroups(gs, s) == {}

Readable(s, i) == s[i] # "none" \/ i \in StaticStored

\* Groups none of whose items can be read from the HTTP store.
BadGroups(gs, s) ==
  {n \in AllGroups(gs) : \A i \in AllItems(gs, n) : ~Readable(s, i)}

BadItems(gs, s) ==
  {i \in Item : ~Readable(s, i) /\ \E n \in AllGroups(gs) : i \in AllItems(gs, n)}

\* load_stored_groups after the index gs was loaded from disk d: entries are
\* checked with keep_cache_entry, then groups and items without an entry are
\* removed.  Nobody else uses the client yet.
CheckLoaded(gs, d) ==
  LET Dead == {i \in Item : stored[i] = "old" /\ ~is_pinned_item(gs, d, i)}
      gs1 == GroupsAfterRemove(gs, d, Dead)
      d1 == DiskAfterRemove(gs, d, Dead)
      s1 == [i \in Item |-> IF i \in Dead \/ stored[i] = "foreign" THEN "none" ELSE stored[i]]
      bad == BadGroups(gs1, s1)
      gs2 == GroupsWithout(gs1, bad)
      d2 == DiskWithout(d1, bad)
      I == BadItems(gs1, s1)
  IN /\ groups' = GroupsAfterRemove(gs2, d2, I)
     /\ disk' = DiskAfterRemove(gs2, d2, I)
     /\ stored' = s1

\* Client::build with load_stored_groups.
Build ==
  /\ state # "up"
  /\ \/ /\ Unnamed = {}
        /\ \E gs \in LoadedGroups : CheckLoaded(gs, DiskWithout(disk, LoadRemoves))
        /\ state' = "up"
        /\ UNCHANGED <<adding, may>>
     \/ LoadFails /\ UNCHANGED stored
  /\ UNCHANGED <<saving, enabled, announced, walk>>

WalkStep ==
  \/ \E w \in Walker : WalkBegins(w)
  \/ \E w \in Walker, i \in Item : Visit(w, i) \/ HeadUnreadable(w, i)
  \/ \E i \in Item : keep_cache_entry(i) \/ local_purge(i)

CNext ==
  \/ \E a \in Adder, g \in Group, i \in Item : StoreBegins(a, g, i)
  \/ \E a \in Adder : StoreFails(a) \/ StoredToNewGroup(a) \/ GroupNotAdded(a)
  \/ \E a \in Adder, ok \in BOOLEAN : StoredToOldGroup(a, ok) \/ GroupAdded(a, ok)
  \/ \E x \in Announcer : Enable(x)
  \/ \E g \in Group : Pin(g)
  \/ WalkStep
  \/ \E i \in Item : Age(i)
  \/ CCrash
  \/ Build

CSpec == CInit /\ [][CNext]_cvars

------------------------------------------------------------------------------
(***************************************************************************)
(* Properties.                                                             *)
(***************************************************************************)

\* Whatever is stored, collected, purged and pinned at the same time, an
\* announcer announces every group of the client's own index, from the moment
\* it is enabled: store announces what it adds before anyone can see it, and
\* of these only groups that lost their last item are taken from the announcer.
\* It is not so for the static groups behind the index: enable_dht announces
\* them, but unpublish_cache_entry calls remove(id, group_pinned), which
\* BackedDhtGroups does not override, and a static group whose own part became
\* empty is taken from the announcer although its static items remain.
GroupsAreAnnounced ==
  state = "up" => \A x \in enabled : DOMAIN groups \subseteq announced[x]

\* While no file operation fails and nothing is cancelled or stopped, however
\* calls of store overlap with each other, with collection and with purges, a
\* response whose store returned can be found by others: an entry that no call
\* of store is working on belongs to a group.  (If adding to the group fails,
\* store returns and leaves the entry without one.)
EntriesAreIndexed ==
  state = "up" /\ may \subseteq {"overlap"} =>
    \A i \in Item :
      stored[i] \in {"fresh", "old"} /\ (\A a \in Adder : saving[a] = NoSave \/ saving[a].item # i)
      => \E n \in DOMAIN groups : i \in groups[n]

\* After a start, whatever state the disk was left in, every group known has
\* an item that can be read from the HTTP store.
StartDropsDeadGroups ==
  [][state # "up" /\ state' = "up" =>
       \A n \in DOMAIN groups' : \E i \in AllItems(groups', n) : Readable(stored', i)]_cvars

=============================================================================
