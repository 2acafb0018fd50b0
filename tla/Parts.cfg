SPECIFICATION Spec
CONSTANTS
    m1 = m1
    m2 = m2
    m3 = m3
    None = None
    StateValues = {1, 2}
    max_transitions = 1
    max_callbacks = 1
    max_history = 2
    MaxAge = 1
    MaxStarts = 3
    Stubborn = FALSE
    Callers = {m1, m2, m3}
    Controls = {"x", "y"}
    PeerIds = {m1, m2}
    ZeroId = m3
    Cells = {1, 2}
    Socks = {1, 2}
    NULL = 0
    StartCapacity = 1
    max_peers = 2
    Timeout = 1
    Descriptors = {1, 2}
    Remotes = {m1, m2}
    MaxBytes = 5
    MaxLen = 3
    Room = 2
    AllAddrs <- MCAddrs
    Elements = {"a", "b"}
    MaxItems = 3
    Asked = 3
    Keys = {"x", "y", "z", "w"}
    Vals = {m1, m2, m3, None}
    Hash <- MCHash
    MapCapacity = 4
    Octet = {"p", "q"}
    MaxChunk = 2
    DefaultCapacity = 2
    BufCapacity = 5
INVARIANTS
    MachineSound
    ThreadsSafe
    SocketsSound
PROPERTIES
    CallsEnd
    ContainersKept
    PeersSound
    AlgorithmsRight
CHECK_DEADLOCK FALSE
