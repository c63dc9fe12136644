\* Requests one at a time.
SPECIFICATION SerialSpec
CONSTANTS
    Node = {"n1", "n2"}
    Target = {"t1"}
    Digest <- MCDigest
    Observation <- MCObservation
    Heartbeat <- MCHeartbeat
    Version = {"v1", "v2"}
    None = None
    Batch <- ChainBatches
    BatchRequest = {r1, r2, r3}
    HeartbeatRequest = {k1, k2}
SYMMETRY Symmetry
INVARIANT ChainIntact
CHECK_DEADLOCK FALSE
