CONSTANTS
    Weights = {1, 2, 4, 8}
    Half = 8
    Peers = {1, 9, 10, 11}
    MyIds = {8}
    K = 2
    MaxBuckets = 4
    MaxPing = 3
SPECIFICATION Spec
INVARIANTS
    NextIsHigher
