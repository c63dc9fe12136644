\* Two calls for one window, or a node view with probe events, while two batches and
\* a heartbeat are ingested.
CONSTANTS
    Node = {"n1", "n2"}
    Target = {"t1"}
    Version = {"v1"}
    Digest <- MCDigest
    Observation <- MCObservation
    Heartbeat <- MCHeartbeat
    Batch <- MCBatch
    BatchRequest = {r1, r2}
    HeartbeatRequest = {h1}
    Finalization = {f1, f2}
    InWindow <- MCObservation
    RegionOf <- MCRegionOf
    CanonicalRegion <- MCCanonicalRegion
    LegacyRegion <- MCLegacyRegion
    ConfidentSamples = 2
    ViewRequest = {v1}
    LocationOf <- MCLocationOf
    CanonicalLocation = {"us-ashburn", "us-hillsboro"}
    Configured = {"n1"}
    None = None
SYMMETRY Symmetry
SPECIFICATION ReadersSpec
INVARIANTS ReadersTypeOK WindowBacked EntryCoherent
CHECK_DEADLOCK FALSE
