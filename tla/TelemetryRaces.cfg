\* Two batch requests, also with lists that take rows in opposite orders, and one
\* heartbeat.
SPECIFICATION FairSpec
CONSTANTS
    Node = {"n1", "n2"}
    Target = {"t1"}
    Digest <- MCDigest
    Observation <- MCObservation
    Heartbeat <- MCHeartbeat
    Version = {"v1", "v2"}
    None = None
    Batch <- AllBatches
    BatchRequest = {r1, r2}
    HeartbeatRequest = {k1}
INVARIANTS
    ChainRooted
    AcceptedOnce
    NothingLost
    NodeRowHasEvidence
PROPERTY EveryRequestEnds
CHECK_DEADLOCK FALSE
