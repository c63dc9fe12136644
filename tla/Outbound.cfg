\* Two APIs with their cards and badges; one report over tables of two rows; selections
\* among three candidates; three connections under the broadcasts of two SSE clients.
CONSTANTS
    Api = {"a", "b"}
    Row <- MCRow
    Request = {r1}
    None = None
    MaxRows = 2
    Methodology <- MCMethodology
    Topology <- MCTopology
    Offered = {"a", "b", "c"}
    Score <- MCScore
    Call <- MCCall
    TTL = 2
    MaxTime = 3
    Socket = {s1, s2, s3}
    Feed = {g1, g2}
SYMMETRY Symmetry
SPECIFICATION OutboundSpec
INVARIANTS
    TypesOK BetterRowNotWorse GoldIsPassing
    ReportComplete EvidenceDated
    ScoresRecent NoneBetterLeftOut
    SentOnce ListCoherent BroadcastReachesAll
CHECK_DEADLOCK FALSE
