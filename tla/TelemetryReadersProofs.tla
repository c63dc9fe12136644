----------------------- MODULE TelemetryReadersProofs -----------------------
(***************************************************************************)
(* Theorems about the readers of the telemetry tables, the measurement     *)
(* windows and the node view, for any values of the constants: what they   *)
(* say rests on what NodeTelemetry keeps true of the tables and on that    *)
(* observations and heartbeats are only added, however the batches and     *)
(* heartbeats interleave with their statements.                            *)
(***************************************************************************)
EXTENDS MCTelemetryReaders, NodeTelemetryProofs, FiniteSetTheorems

-----------------------------------------------------------------------------
(* The tables grow, one observation at a time *)

\* A step adds to the table at most what one request has accepted, and to what a request
\* has accepted at most one observation; heartbeats are never removed.
LEMMA Growth ==
    ASSUME TypeOK, [Next]_vars
    PROVE  /\ observations' = observations
              \/ \E r \in BatchRequest : observations' = observations \cup batch[r].accepted
           /\ \A r \in BatchRequest :
                batch'[r].accepted = batch[r].accepted
                \/ \E o : batch'[r].accepted = batch[r].accepted \cup {o}
           /\ heartbeats \subseteq heartbeats'
<1> DEFINE Grown ==
             /\ observations' = observations
                \/ \E r \in BatchRequest : observations' = observations \cup batch[r].accepted
             /\ \A r \in BatchRequest :
                  batch'[r].accepted = batch[r].accepted
                  \/ \E o : batch'[r].accepted = batch[r].accepted \cup {o}
<1>1. batch \in [BatchRequest -> BatchLocal]
  BY DEF TypeOK
<1>2. ASSUME NEW r \in BatchRequest, NEW list \in Batch, Begin(r, list) PROVE Grown
  BY <1>1, <1>2 DEF Begin, BatchLocal, tables
<1>3. ASSUME NEW r \in BatchRequest, Decide(r) PROVE Grown
  <2>1. PICK verdict \in Verdict(Item(r), Visible(r)) :
          batch' =
            IF verdict = "accepted"
            THEN [batch EXCEPT ![r].at = "next", ![r].item = @ + 1,
                               ![r].accepted = @ \cup {Item(r)}, ![r].pending = {Item(r)}]
            ELSE [batch EXCEPT ![r].at = "next", ![r].item = @ + 1,
                               ![r].rejected = TurnedDown(r, verdict)]
    BY <1>3 DEF Decide
  <2>2. observations' = observations /\ \A q \in BatchRequest \ {r} : batch'[q] = batch[q]
    BY <1>1, <1>3, <2>1 DEF Decide, tables
  <2>3. \/ batch'[r].accepted = batch[r].accepted
        \/ batch'[r].accepted = batch[r].accepted \cup {Item(r)}
    BY <1>1, <2>1 DEF BatchLocal
  <2> QED  BY <2>2, <2>3
<1>4. ASSUME NEW r \in BatchRequest, Finish(r) PROVE Grown
  <2>1. /\ observations' = observations \cup batch[r].accepted
        /\ \A q \in BatchRequest : batch'[q].accepted = batch[q].accepted
    BY <1>1, <1>4 DEF Finish, BatchLocal
  <2> QED  BY <2>1
<1>5. ASSUME NEW r \in BatchRequest,
             \/ RejectEnvelope(r) \/ RejectDuplicate(r) \/ LookUp(r) \/ FlushFails(r)
             \/ DeadlockVictim(r)
             \/ /\ InFlight(batch[r])
                /\ batch' = [batch EXCEPT ![r].at = "failed"] /\ UNCHANGED <<tables, beat>>
      PROVE  Grown
  <2>1. /\ observations' = observations
        /\ \A q \in BatchRequest : batch'[q].accepted = batch[q].accepted
    BY <1>5, OtherFrame
  <2> QED  BY <2>1
<1>6. ASSUME UNCHANGED <<observations, batch>> PROVE Grown
  BY <1>6
<1>7. Grown
  <2>1. CASE \E r \in BatchRequest : (\E list \in Batch : Begin(r, list)) \/ BatchStep(r)
    BY <1>2, <1>3, <1>4, <1>5, <2>1 DEF BatchStep
  <2>2. CASE \E h \in HeartbeatRequest :
               (\E heartbeat \in Heartbeat : LoadNode(h, heartbeat)) \/ BeatStep(h)
    <3>1. UNCHANGED <<observations, batch>>
      BY <2>2 DEF LoadNode, BeatStep, Check, CommitBeat, tables
    <3> QED  BY <1>6, <3>1
  <2>3. CASE Abandon
    <3>1. CASE UNCHANGED <<observations, batch>>
      BY <1>6, <3>1
    <3>2. CASE ~UNCHANGED <<observations, batch>>
      BY <1>5, <2>3, <3>2 DEF Abandon, tables
    <3> QED  BY <3>1, <3>2
  <2>4. CASE UNCHANGED vars
    BY <1>6, <2>4 DEF vars
  <2> QED  BY <2>1, <2>2, <2>3, <2>4 DEF Next
<1>8. heartbeats \subseteq heartbeats'
  <2>1. CASE \E h \in HeartbeatRequest : CommitBeat(h)
    BY <2>1 DEF CommitBeat
  <2>2. CASE UNCHANGED vars
    BY <2>2 DEF vars
  <2>3. CASE Next /\ ~\E h \in HeartbeatRequest : CommitBeat(h)
    <3>1. heartbeats' = heartbeats
      BY <2>3 DEF Next, Begin, BatchStep, RejectEnvelope, RejectDuplicate, LookUp, Decide, Finish,
         FlushFails, DeadlockVictim, LoadNode, BeatStep, Check, Abandon, tables
    <3> QED  BY <3>1
  <2> QED  BY <2>1, <2>2, <2>3
<1> QED  BY <1>7, <1>8

\* Everything stored or accepted so far is finite.
FiniteSoFar ==
    IsFiniteSet(observations) /\ \A r \in BatchRequest : IsFiniteSet(batch[r].accepted)

LEMMA FiniteStep == TypeOK /\ FiniteSoFar /\ [Next]_vars => FiniteSoFar'
<1> SUFFICES ASSUME TypeOK, FiniteSoFar, [Next]_vars PROVE FiniteSoFar'
  OBVIOUS
<1>1. IsFiniteSet(observations')
  <2>1. \A r \in BatchRequest : IsFiniteSet(observations \cup batch[r].accepted)
    BY FS_Union DEF FiniteSoFar
  <2> QED  BY <2>1, Growth DEF FiniteSoFar
<1>2. ASSUME NEW r \in BatchRequest PROVE IsFiniteSet(batch'[r].accepted)
  <2>1. IsFiniteSet(batch[r].accepted)
    BY DEF FiniteSoFar
  <2>2. CASE batch'[r].accepted = batch[r].accepted
    BY <2>1, <2>2
  <2>3. ASSUME NEW o, batch'[r].accepted = batch[r].accepted \cup {o}
        PROVE  IsFiniteSet(batch'[r].accepted)
    BY <2>1, <2>3, FS_AddElement
  <2>4. \/ batch'[r].accepted = batch[r].accepted
        \/ \E o : batch'[r].accepted = batch[r].accepted \cup {o}
    BY Growth
  <2> QED  BY <2>2, <2>3, <2>4
<1> QED  BY <1>1, <1>2 DEF FiniteSoFar

-----------------------------------------------------------------------------
(* Measurement windows *)

\* A region code, normalized.
RegionBy == [n \in Node |-> IF RegionOf[n] \in DOMAIN LegacyRegion
                            THEN LegacyRegion[RegionOf[n]] ELSE RegionOf[n]]

\* A set that a function maps a finite set onto is finite and no larger.
LEMMA ImageSize ==
    ASSUME NEW S, NEW T, IsFiniteSet(S), NEW f \in [S -> T],
           \A t \in T : \E x \in S : f[x] = t
    PROVE  IsFiniteSet(T) /\ Cardinality(T) \in Nat /\ Cardinality(T) <= Cardinality(S)
<1>1. f \in Surjection(S, T)
  BY DEF Surjection
<1>2. IsFiniteSet(T) /\ Cardinality(T) <= Cardinality(S)
  BY <1>1, FS_Surjection
<1> QED  BY <1>2, FS_CardinalityType

\* There are no more nodes than observations, and no more regions than nodes.
LEMMA RowsSizes ==
    ASSUME NEW rows \in SUBSET Observation, IsFiniteSet(rows)
    PROVE  LET nodes == {o.node : o \in rows}
           IN  /\ Cardinality(rows) \in Nat
               /\ Cardinality(nodes) \in Nat /\ Cardinality(nodes) <= Cardinality(rows)
               /\ Cardinality(Regions(rows)) \in Nat
               /\ Cardinality(Regions(rows)) <= Cardinality(nodes)
<1> DEFINE nodes == {o.node : o \in rows}
           nodeOf == [o \in rows |-> o.node]
           regionOf == [n \in nodes |-> RegionBy[n]]
<1>1. nodes \subseteq Node
  BY ObservationShape
<1>2. /\ IsFiniteSet(nodes) /\ Cardinality(nodes) \in Nat
      /\ Cardinality(nodes) <= Cardinality(rows)
  <2>1. nodeOf \in [rows -> nodes] /\ \A n \in nodes : \E o \in rows : nodeOf[o] = n
    OBVIOUS
  <2> HIDE DEF nodeOf, nodes
  <2> QED  BY <2>1, ImageSize
<1>3. Regions(rows) = {RegionBy[o.node] : o \in rows}
  BY <1>1 DEF Regions, RegionBy
<1>4. /\ regionOf \in [nodes -> Regions(rows)]
      /\ \A code \in Regions(rows) : \E n \in nodes : regionOf[n] = code
  BY <1>3
<1>5. Cardinality(Regions(rows)) \in Nat /\ Cardinality(Regions(rows)) <= Cardinality(nodes)
  <2> HIDE DEF nodes, regionOf
  <2> QED  BY <1>2, <1>4, ImageSize
<1> QED  BY <1>2, <1>5, FS_CardinalityType

\* What a row claims is carried by the observations stored now.
Backed(w) ==
    /\ CanonicalRegion \ w.missing_regions \subseteq Regions(Rows)
    /\ w.sample_count <= Cardinality(Rows)
    /\ w.confidence_band = "high" => Cardinality(Rows) >= ConfidentSamples
    /\ w.node_count <= w.sample_count /\ w.region_count <= w.node_count

\* A row that is flushed or about to be committed is backed by what is stored, and minted
\* with its sample count before the commit.
FinalizationsBacked ==
    \A f \in Finalization : finalize[f].at \in {"flushed", "committing"} =>
      /\ finalize[f].row \in Window /\ finalize[f].row.by = f /\ Backed(finalize[f].row)
      /\ finalize[f].at = "committing" => <<f, finalize[f].row.sample_count>> \in minted

WindowsInv ==
    IndInv /\ BeatsHold /\ FiniteSoFar /\ WindowsTypeOK /\ FinalizationsBacked /\ WindowBacked

LEMMA RowsFinite ==
    ASSUME TypeOK, FiniteSoFar
    PROVE  Rows \in SUBSET Observation /\ IsFiniteSet(Rows) /\ Cardinality(Rows) \in Nat
<1>1. Rows \in SUBSET Observation /\ Rows \in SUBSET observations
  BY DEF Rows, TypeOK
<1>2. IsFiniteSet(Rows)
  BY <1>1, FS_Subset DEF FiniteSoFar
<1> QED  BY <1>1, <1>2, FS_CardinalityType

\* What is aggregated is a row, and backed at that moment.
LEMMA AggregatedBacked ==
    ASSUME TypeOK, FiniteSoFar, NEW f \in Finalization
    PROVE  Aggregated(f) \in Window /\ Aggregated(f).by = f /\ Backed(Aggregated(f))
<1>1. /\ Cardinality(Rows) \in Nat
      /\ Cardinality({o.node : o \in Rows}) \in Nat
      /\ Cardinality({o.node : o \in Rows}) <= Cardinality(Rows)
      /\ Cardinality(Regions(Rows)) \in Nat
      /\ Cardinality(Regions(Rows)) <= Cardinality({o.node : o \in Rows})
  BY RowsFinite, RowsSizes
<1>2. Aggregated(f) \in Window /\ Aggregated(f).by = f
  BY <1>1 DEF Aggregated, Window
<1>3. Backed(Aggregated(f))
  BY <1>1 DEF Aggregated, Backed
<1> QED  BY <1>2, <1>3

\* More observations back whatever fewer do.
LEMMA BackedGrows ==
    ASSUME TypeOK, FiniteSoFar, TypeOK', FiniteSoFar', observations \subseteq observations',
           NEW w \in Window, Backed(w)
    PROVE  Backed(w)'
<1>1. Rows \subseteq Rows'
  BY DEF Rows
<1>2. IsFiniteSet(Rows') /\ Cardinality(Rows) \in Nat /\ Cardinality(Rows') \in Nat
  <2>1. Rows' \in SUBSET observations'
    BY DEF Rows
  <2>2. IsFiniteSet(Rows')
    BY <2>1, FS_Subset DEF FiniteSoFar
  <2> QED  BY <2>2, RowsFinite, FS_CardinalityType
<1>3. Cardinality(Rows) <= Cardinality(Rows')
  BY <1>1, <1>2, FS_Subset
<1>4. Regions(Rows) \subseteq Regions(Rows)'
  BY <1>1 DEF Regions
<1>5. w.sample_count \in Nat
  BY DEF Window
<1> QED  BY <1>2, <1>3, <1>4, <1>5, WindowAssumption DEF Backed

\* The steps of the requests that write the tables.
LEMMA TelemetryWindowsInv ==
    ASSUME WindowsInv, [Next]_vars, UNCHANGED windowVars PROVE WindowsInv'
<1> USE DEF WindowsInv
<1>1. IndInv' /\ BeatsHold' /\ FiniteSoFar'
  BY NextIndInv, BeatsHoldStep, FiniteStep DEF IndInv
<1>2. observations \subseteq observations'
  BY Growth DEF IndInv
<1>3. \A w \in Window : Backed(w) => Backed(w)'
  BY <1>1, <1>2, BackedGrows DEF IndInv
<1>4. WindowsTypeOK'
  BY DEF WindowsTypeOK, windowVars
<1>5. FinalizationsBacked'
  <2> SUFFICES ASSUME NEW f \in Finalization, finalize[f].at \in {"flushed", "committing"}
               PROVE  /\ finalize[f].row \in Window /\ finalize[f].row.by = f
                      /\ Backed(finalize[f].row)'
                      /\ finalize[f].at = "committing"
                           => <<f, finalize[f].row.sample_count>> \in minted
    BY DEF FinalizationsBacked, windowVars, Backed, Rows
  <2> QED  BY <1>3 DEF FinalizationsBacked, windowVars
<1>6. WindowBacked'
  <2>1. \A w \in windows : w \in Window /\ Backed(w)
    BY DEF WindowBacked, WindowsTypeOK, Backed
  <2>2. \A w \in windows : Backed(w)'
    BY <1>3, <2>1
  <2> QED  BY <2>2 DEF WindowBacked, windowVars, Backed
<1> QED  BY <1>1, <1>4, <1>5, <1>6

LEMMA AggregateInv ==
    ASSUME WindowsInv, NEW f \in Finalization, Aggregate(f) PROVE WindowsInv'
<1> USE DEF WindowsInv
<1>1. UNCHANGED vars /\ UNCHANGED <<windows, minted>>
  BY DEF Aggregate
<1>2. IndInv' /\ BeatsHold' /\ FiniteSoFar'
  BY <1>1, NextIndInv, BeatsHoldStep, FiniteStep DEF IndInv
<1>3. /\ finalize'[f].at = "flushed" /\ finalize'[f].row = Aggregated(f)
      /\ \A g \in Finalization \ {f} : finalize'[g] = finalize[g]
  BY DEF Aggregate, WindowsTypeOK
<1>4. Aggregated(f) \in Window /\ Aggregated(f).by = f /\ Backed(Aggregated(f))
  BY AggregatedBacked DEF IndInv
<1>5. WindowsTypeOK'
  BY <1>1, <1>4 DEF Aggregate, WindowsTypeOK, FinalizeLocal
<1>6. \A w : Backed(w)' <=> Backed(w)
  BY <1>1 DEF Backed, Rows, vars
<1>7. FinalizationsBacked'
  <2> SUFFICES ASSUME NEW g \in Finalization, finalize'[g].at \in {"flushed", "committing"}
               PROVE  /\ finalize'[g].row \in Window /\ finalize'[g].row.by = g
                      /\ Backed(finalize'[g].row)
                      /\ finalize'[g].at = "committing"
                           => <<g, finalize'[g].row.sample_count>> \in minted
    BY <1>1, <1>6 DEF FinalizationsBacked, Backed, Rows, vars
  <2>1. CASE g = f
    BY <1>3, <1>4, <2>1
  <2>2. CASE g # f
    BY <1>3, <2>2 DEF FinalizationsBacked
  <2> QED  BY <2>1, <2>2
<1>8. WindowBacked'
  BY <1>1 DEF WindowBacked, Rows, vars
<1> QED  BY <1>2, <1>5, <1>7, <1>8

\* A finalization that moves on with its row, commits it or gives up.
LEMMA FinalizeInv ==
    ASSUME WindowsInv, NEW f \in Finalization,
           MintWindow(f) \/ CommitWindow(f) \/ FinalizationDies(f)
    PROVE  WindowsInv'
<1> USE DEF WindowsInv
<1>1. UNCHANGED vars
  BY DEF MintWindow, CommitWindow, FinalizationDies
<1>2. IndInv' /\ BeatsHold' /\ FiniteSoFar'
  BY <1>1, NextIndInv, BeatsHoldStep, FiniteStep DEF IndInv
<1>3. finalize \in [Finalization -> FinalizeLocal] /\ finalize[f] \in FinalizeLocal
  BY DEF WindowsTypeOK
<1> DEFINE row == finalize[f].row
<1>4. row \in Window /\ row.by = f /\ Backed(row) /\ row.sample_count \in Nat
  BY DEF FinalizationsBacked, MintWindow, CommitWindow, FinalizationDies, Window
<1>5. /\ \A g \in Finalization \ {f} : finalize'[g] = finalize[g]
      /\ finalize'[f].row = row
  BY <1>3 DEF MintWindow, CommitWindow, FinalizationDies, FinalizeLocal
<1>6. minted \subseteq minted'
  BY DEF MintWindow, CommitWindow, FinalizationDies
<1>7. /\ finalize' \in [Finalization -> FinalizeLocal]
      /\ finalize'[f].at = "committing" => <<f, row.sample_count>> \in minted'
  BY <1>3 DEF MintWindow, CommitWindow, FinalizationDies, FinalizeLocal
<1>8. minted' \subseteq Finalization \X Nat
  BY <1>4 DEF MintWindow, CommitWindow, FinalizationDies, WindowsTypeOK
<1>9. /\ windows' \subseteq windows \cup {row}
      /\ row \in windows' => row \in windows \/ <<row.by, row.sample_count>> \in minted'
  BY <1>4 DEF MintWindow, CommitWindow, FinalizationDies, FinalizationsBacked
<1>10. \A w : Backed(w)' <=> Backed(w)
  BY <1>1 DEF Backed, Rows, vars
<1>11. WindowsTypeOK'
  BY <1>4, <1>7, <1>8, <1>9 DEF WindowsTypeOK
<1>12. FinalizationsBacked'
  <2> SUFFICES ASSUME NEW g \in Finalization, finalize'[g].at \in {"flushed", "committing"}
               PROVE  /\ finalize'[g].row \in Window /\ finalize'[g].row.by = g
                      /\ Backed(finalize'[g].row)
                      /\ finalize'[g].at = "committing"
                           => <<g, finalize'[g].row.sample_count>> \in minted'
    BY <1>1 DEF FinalizationsBacked, Backed, Rows, vars
  <2>1. CASE g = f
    BY <1>4, <1>5, <1>7, <2>1
  <2>2. CASE g # f
    BY <1>5, <1>6, <2>2 DEF FinalizationsBacked
  <2> QED  BY <2>1, <2>2
<1>13. WindowBacked'
  <2> SUFFICES ASSUME NEW w \in windows'
               PROVE  Backed(w) /\ <<w.by, w.sample_count>> \in minted'
    BY <1>1 DEF WindowBacked, Backed, Rows, vars
  <2>1. CASE w \in windows
    BY <1>6, <2>1 DEF WindowBacked, Backed
  <2>2. CASE w = row
    BY <1>4, <1>6, <1>9, <2>2 DEF WindowBacked
  <2> QED  BY <1>9, <2>1, <2>2
<1> QED  BY <1>2, <1>11, <1>12, <1>13

LEMMA WindowsInitInv == WindowsInit => WindowsInv
<1> SUFFICES ASSUME WindowsInit PROVE WindowsInv
  OBVIOUS
<1>1. IndInv /\ BeatsHold
  BY InitIndInv DEF WindowsInit, Init, BeatsHold
<1>2. FiniteSoFar
  BY FS_EmptySet DEF WindowsInit, Init, FiniteSoFar
<1>3. WindowsTypeOK /\ FinalizationsBacked /\ WindowBacked
  BY DEF WindowsInit, WindowsTypeOK, FinalizeLocal, FinalizationsBacked, WindowBacked
<1> QED  BY <1>1, <1>2, <1>3 DEF WindowsInv

LEMMA WindowsNextInv == WindowsInv /\ [WindowsNext]_<<vars, windowVars>> => WindowsInv'
<1> SUFFICES ASSUME WindowsInv, [WindowsNext]_<<vars, windowVars>> PROVE WindowsInv'
  OBVIOUS
<1>1. CASE [Next]_vars /\ UNCHANGED windowVars
  BY <1>1, TelemetryWindowsInv
<1>2. ASSUME NEW f \in Finalization,
             Aggregate(f) \/ MintWindow(f) \/ CommitWindow(f) \/ FinalizationDies(f)
      PROVE  WindowsInv'
  BY <1>2, AggregateInv, FinalizeInv
<1> QED  BY <1>1, <1>2 DEF WindowsNext

LEMMA WindowsSpecInv == WindowsSpec => []WindowsInv
BY WindowsInitInv, WindowsNextInv, PTL DEF WindowsSpec

\* WindowBacked: a final window claims no more than the stored observations carry, then
\* and ever after, whatever is ingested while it is aggregated and however PGL answers.
THEOREM WindowsAreBacked == WindowsSpec => []WindowBacked
<1>1. WindowsInv => WindowBacked
  BY DEF WindowsInv
<1> QED  BY <1>1, WindowsSpecInv, PTL

-----------------------------------------------------------------------------
(* The node view *)

HasBeat(n) == \E h \in heartbeats : h.node = n

\* The row says what only a heartbeat makes true.
SaysBeat(row) == row.health = "standby" \/ row.version # None

\* Rows that were loaded say of a node only what a stored heartbeat of it carries.
RowsBacked ==
    \A v \in ViewRequest : view[v].at \in {"heartbeats", "probes"} =>
      \A n \in Node : SaysBeat(view[v].rows[n]) => HasBeat(n)

\* What was found for the node under way: the heartbeat its row asks for, and a stored one.
FoundForCurrent ==
    \A v \in ViewRequest : view[v].at = "probes" =>
      LET n == view[v].current
      IN  /\ n \in Node
          /\ SaysBeat(view[v].rows[n]) => view[v].heartbeat
          /\ view[v].heartbeat => HasBeat(n)

\* EntryCoherent, of one entry.
Coherent(n, entry) ==
    /\ SaysBeat(entry) => entry.last_heartbeat
    /\ entry.status = "Live" => n \in Configured /\ HasBeat(n) /\ LocationOf[n] \in probed

EntriesCoherent ==
    \A v \in ViewRequest, n \in Node :
      view[v].entries[n] # None => Coherent(n, view[v].entries[n])

RegistryInv ==
    IndInv /\ BeatsHold /\ RegistryTypeOK /\ RowsBacked /\ FoundForCurrent /\ EntriesCoherent

LEMMA RegistryInitInv == RegistryInit => RegistryInv
<1> SUFFICES ASSUME RegistryInit PROVE RegistryInv
  OBVIOUS
<1>1. IndInv /\ BeatsHold
  BY InitIndInv DEF RegistryInit, Init, BeatsHold
<1>2. RegistryTypeOK
  BY <1>1 DEF IndInv, TypeOK, RegistryInit, RegistryTypeOK, ViewLocal
<1>3. RowsBacked /\ FoundForCurrent /\ EntriesCoherent
  BY DEF RegistryInit, RowsBacked, FoundForCurrent, EntriesCoherent
<1> QED  BY <1>1, <1>2, <1>3 DEF RegistryInv

\* More heartbeats and probe events leave true what the requests rely on.
LEMMA TablesRegistryInv ==
    ASSUME RegistryInv, [Next]_vars, UNCHANGED view,
           probed \subseteq probed', probed' \subseteq CanonicalLocation
    PROVE  RegistryInv'
<1> USE DEF RegistryInv
<1>1. IndInv' /\ BeatsHold'
  BY NextIndInv, BeatsHoldStep
<1>2. \A n : HasBeat(n) => HasBeat(n)'
  <2>1. heartbeats \subseteq heartbeats'
    BY Growth DEF IndInv
  <2> QED  BY <2>1 DEF HasBeat
<1>3. RegistryTypeOK'
  BY DEF RegistryTypeOK
<1>4. RowsBacked'
  BY <1>2 DEF RowsBacked, SaysBeat
<1>5. FoundForCurrent'
  BY <1>2 DEF FoundForCurrent, SaysBeat
<1>6. EntriesCoherent'
  BY <1>2 DEF EntriesCoherent, Coherent, SaysBeat
<1> QED  BY <1>1, <1>3, <1>4, <1>5, <1>6

\* A step of one view.
LEMMA ViewRegistryInv ==
    ASSUME RegistryInv, NEW v \in ViewRequest, NEW l \in ViewLocal,
           view' = [view EXCEPT ![v] = l], UNCHANGED <<probed, vars>>,
           l.at \in {"heartbeats", "probes"} => \A n \in Node : SaysBeat(l.rows[n]) => HasBeat(n),
           l.at = "probes" =>
             /\ l.current \in Node
             /\ SaysBeat(l.rows[l.current]) => l.heartbeat
             /\ l.heartbeat => HasBeat(l.current),
           \A n \in Node : l.entries[n] # None => Coherent(n, l.entries[n])
    PROVE  RegistryInv'
<1> USE DEF RegistryInv
<1>1. IndInv' /\ BeatsHold'
  BY NextIndInv, BeatsHoldStep
<1>2. view'[v] = l /\ \A w \in ViewRequest \ {v} : view'[w] = view[w]
  BY DEF RegistryTypeOK
<1>3. RegistryTypeOK'
  BY DEF RegistryTypeOK
<1>4. \A n : HasBeat(n)' <=> HasBeat(n)
  BY DEF HasBeat, vars
<1>5. RowsBacked'
  BY <1>2, <1>4 DEF RowsBacked, SaysBeat
<1>6. FoundForCurrent'
  BY <1>2, <1>4 DEF FoundForCurrent, SaysBeat
<1>7. EntriesCoherent'
  BY <1>2, <1>4 DEF EntriesCoherent, Coherent, SaysBeat
<1> QED  BY <1>1, <1>3, <1>5, <1>6, <1>7

LEMMA ViewStepInv == ASSUME RegistryInv, NEW v \in ViewRequest, ViewStep(v) PROVE RegistryInv'
<1> USE DEF RegistryInv
<1>1. view[v] \in ViewLocal /\ view \in [ViewRequest -> ViewLocal] /\ UNCHANGED <<probed, vars>>
  BY DEF RegistryTypeOK, ViewStep, LoadNodes, FindHeartbeat, CountProbes, Answer
<1>2. \A n \in Node : view[v].entries[n] # None => Coherent(n, view[v].entries[n])
  BY DEF EntriesCoherent
<1>3. CASE LoadNodes(v)
  <2> DEFINE l == [view[v] EXCEPT !.at = "heartbeats", !.rows = node]
  <2>1. /\ l \in ViewLocal /\ l.at = "heartbeats" /\ l.rows = node
        /\ l.entries = view[v].entries
    BY <1>1 DEF ViewLocal, IndInv, TypeOK
  <2>2. view' = [view EXCEPT ![v] = l]
    BY <1>1, <1>3 DEF LoadNodes
  <2>3. \A n \in Node : SaysBeat(node[n]) => HasBeat(n)
    BY DEF IndInv, NodeRowHasEvidence, SaysBeat, HasBeat
  <2> HIDE DEF l
  <2> QED  BY <1>1, <1>2, <2>1, <2>2, <2>3, ViewRegistryInv
<1>4. ASSUME NEW n \in Node, FindHeartbeat(v, n) PROVE RegistryInv'
  <2> DEFINE found == HasBeat(n)
             l == [view[v] EXCEPT !.at = "probes", !.current = n, !.heartbeat = found]
  <2>1. view[v].at = "heartbeats" /\ view' = [view EXCEPT ![v] = l]
    BY <1>1, <1>4 DEF FindHeartbeat, HasBeat
  <2>2. found \in BOOLEAN /\ (found <=> HasBeat(n))
    BY DEF HasBeat
  <2> HIDE DEF found
  <2>3. /\ l \in ViewLocal /\ l.at = "probes" /\ l.current = n /\ l.heartbeat = found
        /\ l.rows = view[v].rows /\ l.entries = view[v].entries
    BY <1>1, <2>2 DEF ViewLocal
  <2>4. \A m \in Node : SaysBeat(view[v].rows[m]) => HasBeat(m)
    BY <2>1 DEF RowsBacked
  <2> HIDE DEF l
  <2>5. /\ l.current \in Node
        /\ SaysBeat(l.rows[l.current]) => l.heartbeat
        /\ l.heartbeat => HasBeat(l.current)
    BY <2>2, <2>3, <2>4
  <2>6. \A m \in Node : SaysBeat(l.rows[m]) => HasBeat(m)
    BY <2>3, <2>4
  <2>7. \A m \in Node : l.entries[m] # None => Coherent(m, l.entries[m])
    BY <1>2, <2>3
  <2> QED  BY <1>1, <2>1, <2>3, <2>5, <2>6, <2>7, ViewRegistryInv
<1>5. CASE CountProbes(v)
  <2> DEFINE n == view[v].current
             counted == LocationOf[n] \in probed
             entry == [health |-> view[v].rows[n].health, version |-> view[v].rows[n].version,
                       last_heartbeat |-> view[v].heartbeat,
                       status |-> OperationalState(n, view[v].heartbeat, counted)]
             l == [view[v] EXCEPT !.at = "heartbeats", !.entries[n] = entry]
  <2>1. view[v].at = "probes" /\ view' = [view EXCEPT ![v] = l]
    BY <1>1, <1>5 DEF CountProbes
  <2>2. /\ n \in Node
        /\ SaysBeat(view[v].rows[n]) => view[v].heartbeat
        /\ view[v].heartbeat => HasBeat(n)
    BY <2>1 DEF FoundForCurrent
  <2>3. OperationalState(n, view[v].heartbeat, counted) \in Status
    BY DEF OperationalState, Status
  <2>4. entry \in Entry
    BY <1>1, <2>2, <2>3 DEF Entry, ViewLocal, NodeRow
  <2>5. OperationalState(n, view[v].heartbeat, counted) = "Live"
          => n \in Configured /\ view[v].heartbeat /\ counted
    BY DEF OperationalState
  <2>6. Coherent(n, entry)
    BY <2>2, <2>5 DEF Coherent, SaysBeat
  <2> HIDE DEF entry
  <2>7. /\ l \in ViewLocal /\ l.at = "heartbeats" /\ l.rows = view[v].rows
        /\ l.entries = [view[v].entries EXCEPT ![n] = entry]
    BY <1>1, <2>2, <2>4 DEF ViewLocal
  <2>8. \A m \in Node : SaysBeat(view[v].rows[m]) => HasBeat(m)
    BY <2>1 DEF RowsBacked
  <2> HIDE DEF l
  <2>9. \A m \in Node : l.entries[m] # None => Coherent(m, l.entries[m])
    BY <1>1, <1>2, <2>6, <2>7 DEF ViewLocal
  <2>10. \A m \in Node : SaysBeat(l.rows[m]) => HasBeat(m)
    BY <2>7, <2>8
  <2> QED  BY <1>1, <2>1, <2>7, <2>9, <2>10, ViewRegistryInv
<1>6. CASE Answer(v)
  <2> DEFINE l == [view[v] EXCEPT !.at = "answered"]
  <2>1. l \in ViewLocal /\ l.at = "answered" /\ l.entries = view[v].entries
    BY <1>1 DEF ViewLocal
  <2>2. view' = [view EXCEPT ![v] = l]
    BY <1>1, <1>6 DEF Answer
  <2> HIDE DEF l
  <2> QED  BY <1>1, <1>2, <2>1, <2>2, ViewRegistryInv
<1> QED  BY <1>3, <1>4, <1>5, <1>6 DEF ViewStep

LEMMA RegistryNextInv == RegistryInv /\ [RegistryNext]_<<vars, registryVars>> => RegistryInv'
<1> SUFFICES ASSUME RegistryInv, [RegistryNext]_<<vars, registryVars>> PROVE RegistryInv'
  OBVIOUS
<1>1. probed \subseteq CanonicalLocation
  BY DEF RegistryInv, RegistryTypeOK
<1>2. CASE [Next]_vars /\ UNCHANGED registryVars
  BY <1>1, <1>2, TablesRegistryInv DEF registryVars
<1>3. ASSUME NEW location \in CanonicalLocation, CommitProbe(location) PROVE RegistryInv'
  BY <1>1, <1>3, TablesRegistryInv DEF CommitProbe
<1>4. ASSUME NEW v \in ViewRequest, ViewStep(v) PROVE RegistryInv'
  BY <1>4, ViewStepInv
<1> QED  BY <1>2, <1>3, <1>4 DEF RegistryNext

LEMMA RegistrySpecInv == RegistrySpec => []RegistryInv
BY RegistryInitInv, RegistryNextInv, PTL DEF RegistrySpec

\* EntryCoherent: an entry of the node view holds together, although each of its statements
\* sees another state of the tables.
THEOREM EntriesHoldTogether == RegistrySpec => []EntryCoherent
<1>1. RegistryInv => EntryCoherent
  BY DEF RegistryInv, EntriesCoherent, Coherent, SaysBeat, HasBeat, EntryCoherent
<1> QED  BY <1>1, RegistrySpecInv, PTL

-----------------------------------------------------------------------------

\* Finalizations and node views beside each other run as each is specified: what is proved
\* of each holds of the instance that is checked.
THEOREM ReadersRun == ReadersSpec => WindowsSpec /\ RegistrySpec
<1>1. ReadersInit => WindowsInit /\ RegistryInit
  BY DEF ReadersInit
<1>2. [ReadersNext]_<<vars, windowVars, registryVars>>
        => [WindowsNext]_<<vars, windowVars>> /\ [RegistryNext]_<<vars, registryVars>>
  BY DEF ReadersNext, WindowsNext, RegistryNext, windowVars, registryVars, vars, Aggregate,
     MintWindow, CommitWindow, FinalizationDies, CommitProbe, ViewStep, LoadNodes,
     FindHeartbeat, CountProbes, Answer
<1> QED  BY <1>1, <1>2, PTL DEF ReadersSpec, WindowsSpec, RegistrySpec

\* ReadersTypeOK: the windows and the views keep their types beside each other, the counts
\* of a window being numbers because only finitely many observations are ever stored.
THEOREM ReadersTypeCorrect == ReadersSpec => []ReadersTypeOK
<1>1. WindowsInv /\ RegistryInv => ReadersTypeOK
  BY DEF WindowsInv, RegistryInv, ReadersTypeOK
<1> QED  BY <1>1, ReadersRun, WindowsSpecInv, RegistrySpecInv, PTL

=============================================================================
