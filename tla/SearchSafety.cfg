CONSTANTS
    Nodes <- FiveNodes
    MaxNodes = 4
    Inflight = 2
    Retransmit = 2
    Expire = 3
    MaxTime = 4
SPECIFICATION FairSpec
CHECK_DEADLOCK FALSE
INVARIANTS
    TypeOK
    OrderAndBound
    NeverIdle
PROPERTIES
    KeepsPromise
    SearchEnds
