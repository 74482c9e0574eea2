SPECIFICATION RequestSpec
CONSTANTS
  Requests <- MCRequests
  Configs <- MCConfigs
  MaxRequests = 2
  MaxParts = 1
  Caller = {}
  Swarm = {w1}
  Capacity = 1
CHECK_DEADLOCK FALSE
PROPERTIES
  ServedAsNormal
