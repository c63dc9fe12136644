------------------------- MODULE MCTelemetryReaders -------------------------
(* An instance for TLC of the two readers of the telemetry tables, the node view
   of NodeRegistry and the finalization of MeasurementWindows.  Neither reads what
   the other writes, so that their steps need not be mixed: a behaviour has views
   or finalizations, beside the same batches and heartbeats. *)
EXTENDS MeasurementWindows, NodeRegistry, TLC

Signed(n, id, sequence, previous, digest) ==
    [id |-> id, node |-> n, target |-> "t1", sequence |-> sequence,
     previous |-> previous, digest |-> digest, fault |-> "none"]

A1 == Signed("n1", "o1", 1, "bootstrap", "d1")
A2 == Signed("n1", "o2", 2, "d1", "d2")
B1 == Signed("n2", "p1", 1, "bootstrap", "e1")

MCObservation == {A1, A2, B1}
MCDigest == {o.digest : o \in MCObservation}
MCBatch == {<<A1, A2>>, <<B1>>, <<A2>>}
MCHeartbeat == {[id |-> "h1", node |-> "n1", sequence |-> 1, version |-> "v1"],
                [id |-> "h2", node |-> "n2", sequence |-> 1, version |-> "v1"]}

\* A configured node that reports under a former region code, and one that is not.
MCRegionOf == [n \in {"n1", "n2"} |-> IF n = "n1" THEN "us-east-1-ash" ELSE "us-hillsboro"]
MCLocationOf == [n \in {"n1", "n2"} |-> IF n = "n1" THEN "us-ashburn" ELSE "us-hillsboro"]
MCCanonicalRegion == {"us-ashburn", "us-hillsboro", "sg-singapore"}
MCLegacyRegion == [code \in {"us-east-1-ash"} |-> "us-ashburn"]

Symmetry == Permutations(BatchRequest) \cup Permutations(HeartbeatRequest)
              \cup Permutations(Finalization)

-----------------------------------------------------------------------------

ReadersInit == WindowsInit /\ RegistryInit

\* Either no probe event and no view yet, or no finalization.
OneReader == (\A f \in Finalization : finalize[f].at = "idle")
             \/ (probed = {} /\ \A v \in ViewRequest : view[v].at = "idle")

ReadersNext ==
    /\ \/ WindowsNext /\ UNCHANGED registryVars
       \/ RegistryNext /\ UNCHANGED windowVars
    /\ OneReader'

ReadersSpec == ReadersInit /\ [][ReadersNext]_<<vars, windowVars, registryVars>>

-----------------------------------------------------------------------------

\* The types of the windows and of the views.
ReadersTypeOK == WindowsTypeOK /\ RegistryTypeOK

=============================================================================
