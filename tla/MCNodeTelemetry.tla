--------------------------- MODULE MCNodeTelemetry ---------------------------
(* Instances of NodeTelemetry for TLC. *)
EXTENDS NodeTelemetry, TLC

\* What a node signs: an observation of target t1 is named by its id, and its
\* digest by the id and a letter for the payload.
Signed(n, id, sequence, previous, digest, fault) ==
    [id |-> id, node |-> n, target |-> "t1", sequence |-> sequence,
     previous |-> previous, digest |-> digest, fault |-> fault]

\* The chain of n1, and what a node may send beside it: another second
\* observation, the second one signed again with another payload, one past a gap,
\* and three that are refused.
A1 == Signed("n1", "o1", 1, "bootstrap", "d1", "none")
A2 == Signed("n1", "o2", 2, "d1", "d2", "none")
A2Fork == Signed("n1", "o2fork", 2, "d1", "d2fork", "none")
A2Again == Signed("n1", "o2", 2, "d1", "d2again", "none")
A3 == Signed("n1", "o3", 3, "d2", "d3", "none")
A5 == Signed("n1", "o5", 5, "lost", "d5", "none")
ABadSchema == Signed("n1", "o6", 2, "d1", "d6", "envelope")
ABadKey == Signed("n1", "o7", 2, "d1", "d7", "identity")
ABadSeal == Signed("n1", "o8", 1, "bootstrap", "d8", "seal")
B1 == Signed("n2", "p1", 1, "bootstrap", "e1", "none")
B2 == Signed("n2", "p2", 2, "e1", "e2", "none")

MCObservation == {A1, A2, A2Fork, A2Again, A3, A5, ABadSchema, ABadKey, ABadSeal, B1, B2}

MCDigest == {o.digest : o \in MCObservation} \cup {"lost"}

\* A node's first report, a report by a node that lost its place, a later report,
\* and a first report that arrives after refused ones.
ChainBatches == {<<A1, A2>>, <<A1, A2Fork>>, <<A2Again, A3, A5>>,
                 <<ABadSchema, ABadKey, ABadSeal, A1>>}

\* Lists that name two nodes in opposite orders.
CrossedBatches == {<<A1, B1>>, <<B1, A1>>, <<A1, ABadSchema, B1, A2>>}

AllBatches == ChainBatches \cup CrossedBatches

MCHeartbeat == {[id |-> "h1", node |-> "n1", sequence |-> 1, version |-> "v1"],
                [id |-> "h2", node |-> "n1", sequence |-> 2, version |-> "v2"]}

Symmetry == Permutations(BatchRequest) \cup Permutations(HeartbeatRequest)

=============================================================================
