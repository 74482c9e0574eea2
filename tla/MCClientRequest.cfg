SPECIFICATION RequestSpec
CONSTANTS
  Requests <- MCRequests
  Configs <- MCConfigs
  MaxRequests = 2
  MaxParts = 1
  Caller = {c1, c2}
  Swarm = {w1, w2}
  Capacity = 1
CHECK_DEADLOCK FALSE
INVARIANTS
  PrivateStaysPrivate
  StaleIsMarked
  FreshBeatsOld
  PushedIsStored
PROPERTIES
  DispatchEnds
  PeersAreRecent
