SPECIFICATION DhtSpec
CONSTANTS
    Bits = 3
    BUCKET_SIZE = 2
    TOKEN_VALIDITY = 2
    SECRET_REFRESH_TIME = 1
    ANNOUNCE_VALIDITY = 1
    PUT_VALIDITY = 1
    Worlds <- MCWorlds
    InfoHash = {1, 2}
    Value = {1, 2}
    MAX_HANDLE_QUERY_CONCURRENCY = 1
    RESPONSIBLE_TRACKERS_PER_SWARM = 1
    MaxQueries = 6
    MaxNow = 3
    MaxSeq = 1
    Ids <- MCIds
    Boots = {9}
    MapSize = 2
    Slots = 2
INVARIANTS
    TableSound
    OnlyHeardInTable
    NothingCloserLeft
PROPERTIES
    AnnouncersHoldTokens
    QueriesEnd
    LookupEnds
CHECK_DEADLOCK FALSE
