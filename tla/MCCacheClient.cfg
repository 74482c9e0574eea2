SPECIFICATION CSpec
CONSTANTS
  g1 = g1
  i1 = i1
  i2 = i2
  Group = {g1}
  Item = {i1, i2}
  NoName = NoName
  NoAdder = NoAdder
  Adder = {a1, a2}
  FallbackItems <- OneFallback
  Worlds = {{"overlap"}, {"crash"}, {"crash", "torn", "cancel", "io"}}
  Announcer = {bep5}
  StaticStored = {}
  OldEntries = {i2}
SYMMETRY Symmetry
INVARIANT DiskMirrorsMemory
INVARIANT GroupsAreAnnounced
INVARIANT EntriesAreIndexed
PROPERTY StartDropsDeadGroups
