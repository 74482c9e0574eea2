SPECIFICATION InjectorSpec
CONSTANTS
    Client = {"s1", "s2"}
    Conn = {1, 2}
    Host = {"pub", "priv"}
    Private = {"priv"}
    Configs <- MCConfigs
    Requests <- MCRequests
    MaxRequests <- MCMaxRequests
    Listener <- MCListener
    Incoming <- MCIncoming
CHECK_DEADLOCK FALSE
INVARIANTS
    ReadInOrder
    PooledIsIdle
PROPERTIES
    InjectEnds
    NoneLeftBehind
