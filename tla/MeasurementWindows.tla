------------------------- MODULE MeasurementWindows -------------------------
(***************************************************************************)
(* Measurement windows over the observations of NodeTelemetry:             *)
(* finalize_measurement_window of app/core/measurement.py, while batches   *)
(* and heartbeats go on.  A finalization reads the window's observations   *)
(* in one statement, flushes its row, has PGL mint a receipt for it and    *)
(* commits.                                                                *)
(***************************************************************************)
EXTENDS NodeTelemetry, FiniteSets

CONSTANTS
    Finalization,      \* calls of finalize_measurement_window for one window
    InWindow,          \* observations of its target and time range
    RegionOf,          \* the region code a node reports under
    CanonicalRegion,   \* CANONICAL_LOCATION_CODES
    LegacyRegion,      \* LEGACY_REGION_CODE_MAP: former codes to canonical ones
    ConfidentSamples   \* samples from which confidence_band is "high", 10 in the code

ASSUME WindowAssumption ==
    /\ InWindow \subseteq Observation
    /\ \A o, p \in InWindow : o.target = p.target
    /\ ConfidentSamples \in Nat \ {0}
    /\ \A code \in DOMAIN LegacyRegion : LegacyRegion[code] \in CanonicalRegion

VARIABLES
    windows, \* MeasurementWindow rows
    minted,  \* window_finalized events PGL has recorded
    finalize \* the calls in flight

windowVars == <<windows, minted, finalize>>

\* The calls name their rows: a call writes at most one.
Window == [by : Finalization, sample_count : Nat, node_count : Nat, region_count : Nat,
           missing_regions : SUBSET CanonicalRegion, confidence_band : {"high", "low"}]

FinalizeLocal == [at : {"idle", "flushed", "committing", "done", "failed"},
                  row : Window \cup {None}]

WindowsTypeOK ==
    /\ windows \subseteq Window
    /\ minted \subseteq Finalization \X Nat
    /\ finalize \in [Finalization -> FinalizeLocal]

WindowsInit ==
    /\ Init
    /\ windows = {}
    /\ minted = {}
    /\ finalize = [f \in Finalization |-> [at |-> "idle", row |-> None]]

-----------------------------------------------------------------------------
(* Aggregation *)

\* Region codes, legacy ones normalized.
Regions(rows) ==
    {IF RegionOf[o.node] \in DOMAIN LegacyRegion
     THEN LegacyRegion[RegionOf[o.node]] ELSE RegionOf[o.node] : o \in rows}

Rows == InWindow \cap observations

\* Mutated form: what the batches in flight have accepted is counted, too.
AggregatedInFlight(f) ==
    LET rows == Rows \cup (InWindow \cap UNION {batch[r].accepted : r \in BatchRequest})
    IN  [by |-> f, sample_count |-> Cardinality(rows),
         node_count |-> Cardinality({o.node : o \in rows}),
         region_count |-> Cardinality(Regions(rows)),
         missing_regions |-> CanonicalRegion \ Regions(rows),
         confidence_band |-> IF Cardinality(rows) >= ConfidentSamples THEN "high" ELSE "low"]

\* Mutated form: the legacy codes are among the missing ones.
AggregatedLegacy(f) ==
    [by |-> f, sample_count |-> Cardinality(Rows),
     node_count |-> Cardinality({o.node : o \in Rows}),
     region_count |-> Cardinality(Regions(Rows)),
     missing_regions |-> (CanonicalRegion \ Regions(Rows)) \cup DOMAIN LegacyRegion,
     confidence_band |-> IF Cardinality(Rows) >= ConfidentSamples THEN "high" ELSE "low"]

Aggregated(f) ==
    [by |-> f, sample_count |-> Cardinality(Rows),
     node_count |-> Cardinality({o.node : o \in Rows}),
     region_count |-> Cardinality(Regions(Rows)),
     missing_regions |-> CanonicalRegion \ Regions(Rows),
     confidence_band |-> IF Cardinality(Rows) >= ConfidentSamples THEN "high" ELSE "low"]

-----------------------------------------------------------------------------
(* A finalization *)

Aggregate(f) ==
    /\ finalize[f].at = "idle"
    /\ finalize' = [finalize EXCEPT ![f] = [at |-> "flushed", row |-> Aggregated(f)]]
    /\ UNCHANGED <<windows, minted, vars>>

\* PGL answers with a receipt, or fails: the event may then be recorded all the same,
\* and the window is rolled back.
MintWindow(f) ==
    /\ finalize[f].at = "flushed"
    /\ \/ /\ minted' = minted \cup {<<f, finalize[f].row.sample_count>>}
          /\ \E place \in {"committing", "failed"} :
               finalize' = [finalize EXCEPT ![f].at = place]
       \/ /\ finalize' = [finalize EXCEPT ![f].at = "failed"]
          /\ UNCHANGED minted
    /\ UNCHANGED <<windows, vars>>

CommitWindow(f) ==
    /\ finalize[f].at = "committing"
    /\ windows' = windows \cup {finalize[f].row}
    /\ finalize' = [finalize EXCEPT ![f].at = "done"]
    /\ UNCHANGED <<minted, vars>>

\* Whatever ends a call before its commit rolls it back.
FinalizationDies(f) ==
    /\ finalize[f].at \in {"flushed", "committing"}
    /\ finalize' = [finalize EXCEPT ![f].at = "failed"]
    /\ UNCHANGED <<windows, minted, vars>>

WindowsNext ==
    \/ Next /\ UNCHANGED windowVars
    \/ \E f \in Finalization :
         Aggregate(f) \/ MintWindow(f) \/ CommitWindow(f) \/ FinalizationDies(f)

WindowsSpec == WindowsInit /\ [][WindowsNext]_<<vars, windowVars>>

-----------------------------------------------------------------------------
(* What a final window can be relied on for *)

\* A final window claims nothing that stored observations do not carry, and never
\* will stop to carry: every region it does not call missing has reported, and a
\* high confidence has its samples, although batches commit, fail and roll back
\* while it is being aggregated. PGL has a record of it with the same number of
\* samples, whatever became of PGL's answer.
WindowBacked ==
    \A w \in windows :
      /\ CanonicalRegion \ w.missing_regions \subseteq Regions(Rows)
      /\ w.sample_count <= Cardinality(Rows)
      /\ w.confidence_band = "high" => Cardinality(Rows) >= ConfidentSamples
      /\ w.node_count <= w.sample_count /\ w.region_count <= w.node_count
      /\ <<w.by, w.sample_count>> \in minted

=============================================================================
