SPECIFICATION NetworkSpec
CONSTANTS
    Local = {4, 6}
    Configured <- MCConfigured
    Contacts <- MCContacts
    MyEndpoint = {0, 1, 2}
    Allowed = {1, 2}
    SCORE_GOAL = 2
    MAX_STORED = 3
    Announcer <- MCAnnouncer
    Setups <- MCSetups
    MaxUpdates = 2
    Found <- MCFound
    Self = {0}
    Capacity <- MCCapacity
    Targets <- MCTargets
    MaxCalls = 1
    Sender = {s1, s2}
    MaxPackets = 3
    Igd = {g1, g2}
    Renews = {g1}
    lease_duration = 4
    failure_wait_time = 2
    recent_margin = 2
    timeout_pause = 1
    restart_pause = 1
    MaxRound = 5
    n1 = n1
    n2 = n2
    n3 = n3
    Node <- MCNode
    Address <- MCAddress
    Advertised <- MCAdvertised
INVARIANTS
    FailureIsExhaustive
    MappingKept
PROPERTIES
    UpdateIsAnnounced
    SendEnds
    LocalViewsSettle
CHECK_DEADLOCK FALSE
