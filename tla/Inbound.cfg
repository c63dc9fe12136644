\* Two batches of usage or probe events in every combination of MCBatch; two batches of
\* probes for the cache; every configuration, with outages and deaths.
CONSTANTS
    Event <- MCEvent
    Batch <- MCBatch
    Request = {r1, r2}
    Probe = {"p1", "p2"}
    Worker = {w1, w2}
    Batches <- MCBatches
    TTL = 2
    MaxTime = 2
    Absent = Absent
    MaxDeaths = 2
    MaxOutages = 2
    MaxDeploys = 1
    None = None
SPECIFICATION InboundSpec
INVARIANTS
    TypesOK AnsweredIsStored BilledOnce WholeOrNothing
    AcceptedTwiceOnlyByRace ProductionServesSafely
PROPERTIES EveryBatchEnds ComesUp
CHECK_DEADLOCK FALSE
