SPECIFICATION MCSpec
CONSTANTS
    Hosts <- MCHosts
    IPv4 <- MCIPv4
    Senders <- MCSenders
    Subnet <- MCSubnet
    Ports = {1, 2}
    AnnouncedPorts = {0, 1}
    Told <- MCTold
    Anywhere = "any"
    Hashes = {"h"}
    Martian = {}
    max_hashes = 1
    max_peers = 2
    storage_timeout = 2
    max_blacklist = 1
    BlacklistTTL = 1
    RatePerIp = 2
    MaxRateEntries = 2
    MaxPerSubnet = 2
    enable_rate_limit = FALSE
    RotateMin = 1
    RotateMax = 1
    PeriodicInterval = 1
    BootstrapInterval = 2
    MaxValues = 1
    MaxTime = 3
    MaxRotations = 4
    MaxMessages = 3
    MaxSearches = 1
    MaxCalls = 3
    Weights = {1, 2, 4, 8}
    Half = 8
    Peers = {1, 2, 3, 9, 10, 11}
    MyIds = {0, 8, 14}
    K = 1
    MaxBuckets = 7
    MaxPing = 3
INVARIANTS
    PartsSound
    RateBounded
    TableTypeOK
    Reachable
    LowerHalfOrdered
PROPERTIES
    TokensHonoured
    LiveServed
    SearchesKept
    OnlyTheLostLeave
CHECK_DEADLOCK FALSE
