------------------------ MODULE NodeTelemetryProofs ------------------------
(***************************************************************************)
(* Proofs about NodeTelemetry for any number of nodes, requests and        *)
(* observations, any batches and any chains: what a request that is in     *)
(* flight holds by the unique index, and what follows once it commits.     *)
(***************************************************************************)
EXTENDS NodeTelemetry, TLAPS

-----------------------------------------------------------------------------
(* The inductive invariant *)

\* The place of the loop, and what it has behind it: every observation it has passed
\* is accepted or turned down.
WellFormed(b) ==
    /\ b.item \in 1..Len(b.list) + 1
    /\ b.pending \subseteq b.accepted
    /\ \A i \in 1..b.item - 1 :
         b.list[i] \in b.accepted \/ \E j \in b.rejected : j.observation = b.list[i]
    /\ b.at = "idle" => b.item = 1 /\ b.accepted = {}
    /\ b.at = "deciding" => b.item <= Len(b.list) /\ b.pending = {}

\* What an answered request has written, and that it went through its whole list.
Answered(b) ==
    b.at = "answered" =>
      /\ b.item = Len(b.list) + 1
      /\ b.accepted \subseteq observations
      /\ b.rejected \subseteq rejections

BatchesWellFormed == \A r \in BatchRequest : WellFormed(batch[r]) /\ Answered(batch[r])

\* The unique index: an id that a request in flight has flushed is neither committed
\* nor flushed by another.
IdsHeld ==
    \A r \in BatchRequest : InFlight(batch[r]) =>
      \A o \in FlushedBy(r) :
        /\ \A p \in observations : o.id # p.id
        /\ \A q \in BatchRequest \ {r} :
             InFlight(batch[q]) => \A p \in FlushedBy(q) : o.id # p.id

\* The observation o has the beginning of its chain among the rows, and the first link
\* when it is the second of it.
Rooted(o, rows) ==
    /\ \E p \in SameChain(o, rows) : StartsChain(p)
    /\ o.sequence = 2 => \E p \in SameChain(o, rows) : p.sequence = 1 /\ p.digest = o.previous

\* What a request has accepted is rooted in what it will leave when it commits.
ChainsHeld ==
    \A r \in BatchRequest : InFlight(batch[r]) =>
      \A o \in batch[r].accepted : Rooted(o, observations \cup batch[r].accepted)

\* Only a request that is answered was the last to see a node.
SeenByAnswered ==
    \A n \in Node : node[n].seen \in BatchRequest => batch[node[n].seen].at = "answered"

IndInv ==
    /\ TypeOK
    /\ BatchesWellFormed
    /\ IdsHeld
    /\ ChainsHeld
    /\ SeenByAnswered
    /\ ChainRooted
    /\ AcceptedOnce
    /\ NodeRowHasEvidence

\* A larger table roots what a smaller one does.
LEMMA RootedMonotone ==
    ASSUME NEW o, NEW rows, NEW more, rows \subseteq more, Rooted(o, rows)
    PROVE  Rooted(o, more)
BY DEF Rooted, SameChain

\* An item that is not past the end of its list is an observation.
LEMMA ItemType ==
    ASSUME TypeOK, NEW r \in BatchRequest, WellFormed(batch[r]), ~ Exhausted(r)
    PROVE  /\ batch[r].list \in Seq(Observation)
           /\ batch[r].item \in 1..Len(batch[r].list)
           /\ Item(r) \in Observation
<1>1. batch[r].list \in Seq(Observation) /\ batch[r].item \in Nat
  <2>1. batch[r].list \in Batch \cup {<<>>} /\ batch[r].item \in Nat
    BY DEF TypeOK, BatchLocal
  <2>2. <<>> \in Seq(Observation)
    OBVIOUS
  <2> QED  BY <2>1, <2>2, BatchShape
<1>2. batch[r].item \in 1..Len(batch[r].list)
  BY <1>1 DEF WellFormed, Exhausted
<1> QED  BY <1>1, <1>2 DEF Item

LEMMA InitIndInv == Init => IndInv
<1> SUFFICES ASSUME Init PROVE IndInv
  OBVIOUS
<1>1. TypeOK
  BY DEF Init, TypeOK, NodeRow, Health, BatchLocal, BeatLocal
<1>2. BatchesWellFormed
  BY DEF Init, BatchesWellFormed, WellFormed, Answered
<1>3. IdsHeld /\ ChainsHeld /\ ChainRooted /\ AcceptedOnce
  BY DEF Init, IdsHeld, ChainsHeld, ChainRooted, AcceptedOnce, InFlight
<1>4. SeenByAnswered /\ NodeRowHasEvidence
  BY NamesDiffer DEF Init, SeenByAnswered, NodeRowHasEvidence
<1> QED  BY <1>1, <1>2, <1>3, <1>4 DEF IndInv

-----------------------------------------------------------------------------
(* Steps of one batch that commit nothing *)

\* The ids of r may be those of the rows: nobody else has committed or flushed them.
Holds(r, rows) ==
    \A o \in rows :
      /\ \A p \in observations : o.id # p.id
      /\ \A q \in BatchRequest \ {r} :
           InFlight(batch[q]) => \A p \in FlushedBy(q) : o.id # p.id

\* A request that is not answered may go to any well-formed state in which it holds the
\* ids it has flushed and has accepted rooted observations only.
LEMMA LocalIndInv ==
    ASSUME IndInv, UNCHANGED <<tables, beat>>,
           NEW r \in BatchRequest, NEW b \in BatchLocal,
           batch' = [batch EXCEPT ![r] = b],
           batch[r].at # "answered",
           b.at \in {"next", "deciding", "failed"},
           WellFormed(b),
           Holds(r, b.accepted \ b.pending),
           \A o \in b.accepted : Rooted(o, observations \cup b.accepted)
    PROVE  IndInv'
<1>1. TypeOK'
  BY DEF IndInv, TypeOK, tables
<1>2. BatchesWellFormed'
  BY DEF IndInv, TypeOK, BatchesWellFormed, WellFormed, Answered, tables
<1>3. \A q \in BatchRequest \ {r} : batch'[q] = batch[q]
  BY DEF IndInv, TypeOK
<1>4. batch'[r] = b
  BY DEF IndInv, TypeOK
<1>5. IdsHeld'
  <2>1. FlushedBy(r)' = b.accepted \ b.pending
    BY <1>4 DEF FlushedBy
  <2>2. \A q \in BatchRequest \ {r} :
          FlushedBy(q)' = FlushedBy(q) /\ InFlight(batch[q])' = InFlight(batch[q])
    BY <1>3 DEF FlushedBy, InFlight
  <2>3. ASSUME NEW q \in BatchRequest, InFlight(batch[q])', NEW o \in FlushedBy(q)'
        PROVE  /\ \A p \in observations' : o.id # p.id
               /\ \A s \in BatchRequest \ {q} :
                    InFlight(batch[s])' => \A p \in FlushedBy(s)' : o.id # p.id
    <3>1. CASE q = r
      BY <2>1, <2>2, <2>3, <3>1 DEF Holds, tables
    <3>2. CASE q # r
      <4>1. InFlight(batch[q]) /\ o \in FlushedBy(q)
        BY <2>2, <2>3, <3>2
      <4>2. \A p \in observations' : o.id # p.id
        BY <4>1 DEF IndInv, IdsHeld, tables
      <4>3. \A s \in BatchRequest \ {q, r} :
              InFlight(batch[s])' => \A p \in FlushedBy(s)' : o.id # p.id
        BY <2>2, <4>1 DEF IndInv, IdsHeld
      <4>4. \A p \in FlushedBy(r)' : o.id # p.id
        BY <2>1, <3>2, <4>1 DEF Holds
      <4> QED  BY <4>2, <4>3, <4>4
    <3> QED  BY <3>1, <3>2
  <2> QED  BY <2>3 DEF IdsHeld
<1>6. ChainsHeld'
  BY <1>3, <1>4 DEF IndInv, ChainsHeld, InFlight, Rooted, SameChain, tables
<1>7. SeenByAnswered'
  BY <1>3 DEF IndInv, SeenByAnswered, tables
<1>8. ChainRooted'
  BY DEF IndInv, ChainRooted, SameChain, tables
<1>9. AcceptedOnce'
  BY <1>3, <1>4 DEF IndInv, AcceptedOnce, tables
<1>10. NodeRowHasEvidence'
  BY <1>3, <1>4 DEF IndInv, SeenByAnswered, NodeRowHasEvidence, tables
<1> QED  BY <1>1, <1>2, <1>5, <1>6, <1>7, <1>8, <1>9, <1>10 DEF IndInv

\* What is flushed and what may be flushed is held.
LEMMA HeldByFlush ==
    ASSUME IndInv, NEW r \in BatchRequest, InFlight(batch[r])
    PROVE  /\ Holds(r, FlushedBy(r))
           /\ Flushable(r) => Holds(r, batch[r].accepted)
<1>1. Holds(r, FlushedBy(r))
  BY DEF IndInv, IdsHeld, Holds
<1>2. Flushable(r) => Holds(r, batch[r].pending)
  BY DEF Flushable, Conflicts, WaitsFor, LocksId, Holds
<1>3. batch[r].accepted \subseteq FlushedBy(r) \cup batch[r].pending
  BY DEF FlushedBy
<1> QED  BY <1>1, <1>2, <1>3 DEF Holds

\* A request in flight that moves on or fails, and flushes only what it may, keeps the
\* invariant.
LEMMA QuietIndInv ==
    ASSUME IndInv, UNCHANGED <<tables, beat>>,
           NEW r \in BatchRequest, NEW b \in BatchLocal,
           batch' = [batch EXCEPT ![r] = b],
           InFlight(batch[r]),
           b.at \in {"next", "deciding", "failed"},
           b.accepted = batch[r].accepted,
           b.pending = batch[r].pending \/ (b.pending = {} /\ Flushable(r)),
           WellFormed(b)
    PROVE  IndInv'
<1>1. Holds(r, b.accepted \ b.pending)
  <2>1. CASE b.pending = batch[r].pending
    BY <2>1, HeldByFlush DEF FlushedBy
  <2>2. CASE b.pending = {} /\ Flushable(r)
    BY <2>2, HeldByFlush DEF Holds
  <2> QED  BY <2>1, <2>2
<1>2. \A o \in b.accepted : Rooted(o, observations \cup b.accepted)
  BY DEF IndInv, ChainsHeld
<1>3. batch[r].at # "answered"
  BY DEF InFlight
<1> QED  BY <1>1, <1>2, <1>3, LocalIndInv

\* A request that turns its item down and moves on has a well-formed state.
LEMMA TurnDownLocal ==
    ASSUME TypeOK, NEW r \in BatchRequest, WellFormed(batch[r]), ~ Exhausted(r),
           NEW reason \in Reason, NEW b,
           b.list = batch[r].list, b.item = batch[r].item + 1, b.at = "next",
           b.accepted = batch[r].accepted, b.pending \subseteq batch[r].pending,
           b.rejected = TurnedDown(r, reason)
    PROVE  b.rejected \subseteq Rejection /\ WellFormed(b)
<1>1. /\ batch[r].list \in Seq(Observation)
      /\ batch[r].item \in 1..Len(batch[r].list)
      /\ Item(r) \in Observation
  BY ItemType
<1> DEFINE new == [observation |-> Item(r), reason |-> reason]
<1>2. new \in Rejection
  BY <1>1 DEF Rejection
<1>3. b.rejected = batch[r].rejected \cup {new}
  BY DEF TurnedDown
<1>4. batch[r].rejected \subseteq Rejection
  BY DEF TypeOK, BatchLocal
<1>5. \A i \in 1..b.item - 1 :
        b.list[i] \in b.accepted \/ \E j \in b.rejected : j.observation = b.list[i]
  <2> SUFFICES ASSUME NEW i \in 1..batch[r].item
               PROVE  b.list[i] \in b.accepted \/ \E j \in b.rejected : j.observation = b.list[i]
    BY <1>1
  <2>1. CASE i = batch[r].item
    <3>1. new.observation = b.list[i]
      BY <2>1 DEF Item
    <3> QED  BY <1>3, <3>1
  <2>2. CASE i # batch[r].item
    <3>1. i \in 1..batch[r].item - 1
      BY <1>1, <2>2
    <3> QED  BY <1>3, <3>1 DEF WellFormed
  <2> QED  BY <2>1, <2>2
<1> HIDE DEF new
<1>6. b.item \in 1..Len(b.list) + 1
  BY <1>1
<1>7. b.pending \subseteq b.accepted
  BY DEF WellFormed
<1> QED  BY <1>2, <1>3, <1>4, <1>5, <1>6, <1>7 DEF WellFormed

LEMMA RejectEnvelopeIndInv ==
    ASSUME IndInv, NEW r \in BatchRequest, RejectEnvelope(r) PROVE IndInv'
<1> DEFINE b == [batch[r] EXCEPT !.item = @ + 1, !.rejected = TurnedDown(r, "envelope")]
<1>1. WellFormed(batch[r]) /\ batch[r] \in BatchLocal
  BY DEF IndInv, TypeOK, BatchesWellFormed
<1>2. /\ batch[r].list \in Seq(Observation)
      /\ batch[r].item \in 1..Len(batch[r].list)
      /\ Item(r) \in Observation
  BY <1>1, ItemType DEF IndInv, RejectEnvelope
<1>3. b.rejected \subseteq Rejection /\ WellFormed(b)
  <2>1. /\ b.list = batch[r].list /\ b.item = batch[r].item + 1 /\ b.at = "next"
        /\ b.accepted = batch[r].accepted /\ b.pending \subseteq batch[r].pending
        /\ b.rejected = TurnedDown(r, "envelope")
    BY <1>1 DEF BatchLocal, RejectEnvelope
  <2>2. "envelope" \in Reason /\ ~ Exhausted(r)
    BY DEF Reason, RejectEnvelope
  <2> HIDE DEF b
  <2> QED  BY <1>1, <2>1, <2>2, TurnDownLocal DEF IndInv
<1>4. b \in BatchLocal
  <2>1. batch[r].item + 1 \in Nat
    BY <1>2
  <2>2. TurnedDown(r, "envelope") \subseteq Rejection
    BY <1>1, <1>3 DEF BatchLocal
  <2> QED  BY <1>1, <2>1, <2>2 DEF BatchLocal
<1>5. batch' = [batch EXCEPT ![r] = b]
  BY DEF RejectEnvelope, IndInv, TypeOK
<1> QED  BY <1>1, <1>3, <1>4, <1>5, QuietIndInv DEF RejectEnvelope, InFlight, BatchLocal

LEMMA RejectDuplicateIndInv ==
    ASSUME IndInv, NEW r \in BatchRequest, RejectDuplicate(r) PROVE IndInv'
<1> DEFINE b == [batch[r] EXCEPT !.pending = {}, !.item = @ + 1,
                                 !.rejected = TurnedDown(r, "duplicate_observation")]
<1>1. WellFormed(batch[r]) /\ batch[r] \in BatchLocal
  BY DEF IndInv, TypeOK, BatchesWellFormed
<1>2. /\ batch[r].list \in Seq(Observation)
      /\ batch[r].item \in 1..Len(batch[r].list)
      /\ Item(r) \in Observation
  BY <1>1, ItemType DEF IndInv, RejectDuplicate, LookingUp
<1>3. b.rejected \subseteq Rejection /\ WellFormed(b)
  <2>1. /\ b.list = batch[r].list /\ b.item = batch[r].item + 1 /\ b.at = "next"
        /\ b.accepted = batch[r].accepted /\ b.pending \subseteq batch[r].pending
        /\ b.rejected = TurnedDown(r, "duplicate_observation")
    BY <1>1 DEF BatchLocal, RejectDuplicate, LookingUp
  <2>2. "duplicate_observation" \in Reason /\ ~ Exhausted(r)
    BY DEF Reason, RejectDuplicate, LookingUp
  <2> HIDE DEF b
  <2> QED  BY <1>1, <2>1, <2>2, TurnDownLocal DEF IndInv
<1>4. b \in BatchLocal
  <2>1. batch[r].item + 1 \in Nat
    BY <1>2
  <2>2. TurnedDown(r, "duplicate_observation") \subseteq Rejection
    BY <1>1, <1>3 DEF BatchLocal
  <2> QED  BY <1>1, <2>1, <2>2 DEF BatchLocal
<1>5. batch' = [batch EXCEPT ![r] = b]
  BY DEF RejectDuplicate, IndInv, TypeOK
<1> QED  BY <1>1, <1>3, <1>4, <1>5, QuietIndInv
         DEF RejectDuplicate, LookingUp, InFlight, BatchLocal

LEMMA LookUpIndInv ==
    ASSUME IndInv, NEW r \in BatchRequest, LookUp(r) PROVE IndInv'
<1>1. WellFormed(batch[r]) /\ batch[r] \in BatchLocal
  BY DEF IndInv, TypeOK, BatchesWellFormed
<1>2. /\ batch[r].list \in Seq(Observation)
      /\ batch[r].item \in 1..Len(batch[r].list)
      /\ Item(r) \in Observation
  BY <1>1, ItemType DEF IndInv, LookUp, LookingUp
<1>3. PICK health \in Loaded(r, Item(r).node) :
        batch' =
          IF Item(r).fault = "identity"
          THEN [batch EXCEPT ![r].pending = {}, ![r].item = @ + 1,
                             ![r].rejected = TurnedDown(r, "identity"),
                             ![r].loaded[Item(r).node] = health]
          ELSE [batch EXCEPT ![r].pending = {}, ![r].at = "deciding",
                             ![r].loaded[Item(r).node] = health]
  BY DEF LookUp
<1>4. Item(r).node \in Node /\ health \in Health \cup {None}
  <2>1. Item(r).node \in Node
    BY <1>2, ObservationShape
  <2>2. /\ node[Item(r).node].health \in Health
        /\ batch[r].loaded[Item(r).node] \in Health \cup {None}
    BY <1>1, <2>1 DEF IndInv, TypeOK, NodeRow, BatchLocal
  <2> QED  BY <1>3, <2>1, <2>2 DEF Loaded
<1>5. CASE Item(r).fault = "identity"
  <2> DEFINE b == [batch[r] EXCEPT !.pending = {}, !.item = @ + 1,
                                   !.rejected = TurnedDown(r, "identity"),
                                   !.loaded[Item(r).node] = health]
  <2>1. b.rejected \subseteq Rejection /\ WellFormed(b)
    <3>1. /\ b.list = batch[r].list /\ b.item = batch[r].item + 1 /\ b.at = "next"
          /\ b.accepted = batch[r].accepted /\ b.pending \subseteq batch[r].pending
          /\ b.rejected = TurnedDown(r, "identity")
      BY <1>1 DEF BatchLocal, LookUp, LookingUp
    <3>2. "identity" \in Reason /\ ~ Exhausted(r)
      BY DEF Reason, LookUp, LookingUp
    <3> HIDE DEF b
    <3> QED  BY <1>1, <3>1, <3>2, TurnDownLocal DEF IndInv
  <2>2. b \in BatchLocal
    <3>1. batch[r].item + 1 \in Nat
      BY <1>2
    <3>2. TurnedDown(r, "identity") \subseteq Rejection
      BY <1>1, <2>1 DEF BatchLocal
    <3> QED  BY <1>1, <1>4, <3>1, <3>2 DEF BatchLocal
  <2>3. batch' = [batch EXCEPT ![r] = b]
    BY <1>3, <1>5 DEF IndInv, TypeOK
  <2> QED  BY <1>1, <2>1, <2>2, <2>3, QuietIndInv
           DEF LookUp, LookingUp, InFlight, BatchLocal
<1>6. CASE Item(r).fault # "identity"
  <2> DEFINE b == [batch[r] EXCEPT !.pending = {}, !.at = "deciding",
                                   !.loaded[Item(r).node] = health]
  <2>1. b \in BatchLocal
    BY <1>1, <1>4 DEF BatchLocal
  <2>2. WellFormed(b)
    BY <1>1, <1>2 DEF WellFormed, BatchLocal
  <2>3. batch' = [batch EXCEPT ![r] = b]
    BY <1>3, <1>6 DEF IndInv, TypeOK
  <2> QED  BY <1>1, <2>1, <2>2, <2>3, QuietIndInv
           DEF LookUp, LookingUp, InFlight, BatchLocal
<1> QED  BY <1>5, <1>6

LEMMA FailIndInv ==
    ASSUME IndInv, NEW r \in BatchRequest, InFlight(batch[r]),
           batch' = [batch EXCEPT ![r].at = "failed"], UNCHANGED <<tables, beat>>
    PROVE  IndInv'
<1> DEFINE b == [batch[r] EXCEPT !.at = "failed"]
<1>1. WellFormed(batch[r]) /\ batch[r] \in BatchLocal
  BY DEF IndInv, TypeOK, BatchesWellFormed
<1>2. b \in BatchLocal
  BY <1>1 DEF BatchLocal
<1>3. WellFormed(b)
  BY <1>1 DEF WellFormed, BatchLocal
<1>4. batch' = [batch EXCEPT ![r] = b]
  BY DEF IndInv, TypeOK
<1> QED  BY <1>1, <1>2, <1>3, <1>4, QuietIndInv DEF BatchLocal

-----------------------------------------------------------------------------
(* A batch begins, and an observation is decided on *)

LEMMA BeginIndInv ==
    ASSUME IndInv, NEW r \in BatchRequest, NEW list \in Batch, Begin(r, list) PROVE IndInv'
<1>1. /\ batch[r] \in BatchLocal /\ batch[r].item = 1 /\ batch[r].accepted = {}
      /\ batch[r].pending = {}
  BY DEF IndInv, TypeOK, BatchesWellFormed, WellFormed, Begin
<1> DEFINE b == [batch[r] EXCEPT !.at = "next", !.list = list]
<1>2. batch' = [batch EXCEPT ![r] = b]
  BY DEF Begin, IndInv, TypeOK
<1>3. b \in BatchLocal
  BY <1>1 DEF BatchLocal
<1>4. /\ b.at = "next" /\ b.list = list /\ b.item = 1 /\ b.accepted = {} /\ b.pending = {}
  BY <1>1 DEF BatchLocal
<1> HIDE DEF b
<1>5. UNCHANGED <<tables, beat>> /\ batch[r].at # "answered"
  BY DEF Begin
<1>6. WellFormed(b)
  <2>1. list \in Seq(Observation)
    BY BatchShape
  <2> QED  BY <1>4, <2>1 DEF WellFormed
<1>7. Holds(r, b.accepted \ b.pending)
  BY <1>4 DEF Holds
<1> QED  BY <1>2, <1>3, <1>4, <1>5, <1>6, <1>7, LocalIndInv

LEMMA VerdictType ==
    ASSUME NEW o, NEW rows
    PROVE  Verdict(o, rows) \subseteq Reason \cup {"accepted"}
BY DEF Verdict, Reason

\* What the chain check accepts is rooted among the rows it was checked against, when
\* these are: either it starts the chain, or the last row of the chain comes before it
\* and, when it is the second, is its first.
LEMMA AcceptedRooted ==
    ASSUME NEW rows \in SUBSET Observation, NEW o \in Observation,
           \A p \in rows : Rooted(p, rows),
           "accepted" \in Verdict(o, rows)
    PROVE  Rooted(o, rows \cup {o})
<1>1. CASE SameChain(o, rows) = {}
  <2>1. StartsChain(o)
    BY <1>1 DEF Verdict
  <2>2. o \in SameChain(o, rows \cup {o})
    BY DEF SameChain
  <2> QED  BY <2>1, <2>2 DEF Rooted, StartsChain
<1>2. CASE SameChain(o, rows) # {}
  <2>1. PICK last \in Latest(o, rows) :
          ~ (o.sequence <= last.sequence) /\ ~ LinkFault(o, last)
    BY <1>2 DEF Verdict
  <2>2. last \in rows /\ last \in SameChain(o, rows)
    BY <2>1 DEF Latest, SameChain
  <2>3. PICK p \in SameChain(last, rows) : StartsChain(p)
    BY <2>2 DEF Rooted
  <2>4. p \in SameChain(o, rows)
    BY <2>2, <2>3 DEF SameChain
  <2>5. p.sequence <= last.sequence /\ p.sequence = 1
    BY <2>1, <2>3, <2>4 DEF Latest, StartsChain
  <2>6. last.sequence \in Int /\ o.sequence \in Int
    BY <2>2, ObservationShape
  <2>7. ASSUME o.sequence = 2 PROVE last.sequence = 1 /\ last.digest = o.previous
    BY <2>1, <2>5, <2>6, <2>7 DEF LinkFault
  <2>8. SameChain(o, rows) \subseteq SameChain(o, rows \cup {o})
    BY DEF SameChain
  <2> QED  BY <2>2, <2>3, <2>4, <2>7, <2>8 DEF Rooted
<1> QED  BY <1>1, <1>2

\* The row that a request adds to its session is rooted there, and it flushes nothing.
LEMMA AcceptIndInv ==
    ASSUME IndInv, NEW r \in BatchRequest, batch[r].at = "deciding",
           "accepted" \in Verdict(Item(r), Visible(r)),
           batch' = [batch EXCEPT ![r].at = "next", ![r].item = @ + 1,
                                  ![r].accepted = @ \cup {Item(r)}, ![r].pending = {Item(r)}],
           UNCHANGED <<tables, beat>>
    PROVE  IndInv'
<1>1. WellFormed(batch[r]) /\ batch[r] \in BatchLocal /\ batch[r].pending = {}
  BY DEF IndInv, TypeOK, BatchesWellFormed, WellFormed
<1>2. /\ batch[r].list \in Seq(Observation)
      /\ batch[r].item \in 1..Len(batch[r].list)
      /\ Item(r) \in Observation
  <2>1. ~ Exhausted(r)
    <3>1. batch[r].item <= Len(batch[r].list) /\ batch[r].item \in Int
      BY <1>1 DEF WellFormed, BatchLocal
    <3>2. Len(batch[r].list) \in Int
      BY <1>1, BatchShape DEF BatchLocal
    <3> QED  BY <3>1, <3>2 DEF Exhausted
  <2> QED  BY <1>1, <2>1, ItemType DEF IndInv
<1> DEFINE b == [batch[r] EXCEPT !.at = "next", !.item = @ + 1,
                                 !.accepted = @ \cup {Item(r)}, !.pending = {Item(r)}]
<1>3. batch' = [batch EXCEPT ![r] = b]
  BY DEF IndInv, TypeOK
<1>4. /\ b.at = "next" /\ b.list = batch[r].list /\ b.item = batch[r].item + 1
      /\ b.accepted = batch[r].accepted \cup {Item(r)} /\ b.pending = {Item(r)}
      /\ b.rejected = batch[r].rejected
  BY <1>1 DEF BatchLocal
<1>5. b \in BatchLocal
  <2>1. batch[r].item + 1 \in Nat
    BY <1>2
  <2> QED  BY <1>1, <1>2, <2>1 DEF BatchLocal
<1> HIDE DEF b
<1>6. WellFormed(b)
  <2>1. b.item \in 1..Len(b.list) + 1
    BY <1>2, <1>4
  <2>2. \A i \in 1..b.item - 1 :
          b.list[i] \in b.accepted \/ \E j \in b.rejected : j.observation = b.list[i]
    <3> SUFFICES ASSUME NEW i \in 1..batch[r].item
                 PROVE  b.list[i] \in b.accepted
                          \/ \E j \in b.rejected : j.observation = b.list[i]
      BY <1>2, <1>4
    <3>1. CASE i = batch[r].item
      BY <1>4, <3>1 DEF Item
    <3>2. CASE i # batch[r].item
      <4>1. i \in 1..batch[r].item - 1
        BY <1>2, <3>2
      <4> QED  BY <1>1, <1>4, <4>1 DEF WellFormed
    <3> QED  BY <3>1, <3>2
  <2> QED  BY <1>4, <2>1, <2>2 DEF WellFormed
<1>7. InFlight(batch[r])
  BY DEF InFlight
<1>8. Holds(r, b.accepted \ b.pending)
  <2>1. b.accepted \ b.pending \subseteq FlushedBy(r)
    BY <1>1, <1>4 DEF FlushedBy
  <2> QED  BY <1>7, <2>1, HeldByFlush DEF Holds
<1>9. \A o \in b.accepted : Rooted(o, observations \cup b.accepted)
  <2> DEFINE rows == observations \cup batch[r].accepted
  <2>1. rows \in SUBSET Observation
    BY <1>1 DEF IndInv, TypeOK, BatchLocal
  <2>2. Visible(r) = rows
    BY <1>1 DEF Visible, FlushedBy
  <2>3. \A p \in observations : Rooted(p, observations)
    BY DEF IndInv, ChainRooted, Rooted
  <2>4. \A p \in rows : Rooted(p, rows)
    <3>1. \A p \in observations : Rooted(p, rows)
      BY <2>3, RootedMonotone
    <3>2. \A p \in batch[r].accepted : Rooted(p, rows)
      BY <1>7 DEF IndInv, ChainsHeld
    <3> QED  BY <3>1, <3>2
  <2> HIDE DEF rows
  <2>5. Rooted(Item(r), rows \cup {Item(r)})
    BY <1>2, <2>1, <2>2, <2>4, AcceptedRooted
  <2>6. \A p \in rows \cup {Item(r)} : Rooted(p, rows \cup {Item(r)})
    BY <2>4, <2>5, RootedMonotone
  <2>7. observations \cup b.accepted = rows \cup {Item(r)}
    BY <1>4 DEF rows
  <2> QED  BY <1>4, <2>6, <2>7
<1> QED  BY <1>3, <1>4, <1>5, <1>6, <1>8, <1>9, LocalIndInv

LEMMA DecideIndInv ==
    ASSUME IndInv, NEW r \in BatchRequest, Decide(r) PROVE IndInv'
<1>1. PICK verdict \in Verdict(Item(r), Visible(r)) :
        batch' =
           IF verdict = "accepted"
           THEN [batch EXCEPT ![r].at = "next", ![r].item = @ + 1,
                              ![r].accepted = @ \cup {Item(r)}, ![r].pending = {Item(r)}]
           ELSE [batch EXCEPT ![r].at = "next", ![r].item = @ + 1,
                              ![r].rejected = TurnedDown(r, verdict)]
  BY DEF Decide
<1>2. batch[r].at = "deciding" /\ UNCHANGED <<tables, beat>>
  BY DEF Decide
<1>3. CASE verdict = "accepted"
  BY <1>1, <1>2, <1>3, AcceptIndInv
<1>4. CASE verdict # "accepted"
  <2>1. verdict \in Reason
    BY <1>4, VerdictType
  <2>2. WellFormed(batch[r]) /\ batch[r] \in BatchLocal
    BY DEF IndInv, TypeOK, BatchesWellFormed
  <2>3. ~ Exhausted(r)
    <3>1. batch[r].item <= Len(batch[r].list) /\ batch[r].item \in Int
      BY <1>2, <2>2 DEF WellFormed, BatchLocal
    <3>2. Len(batch[r].list) \in Int
      BY <2>2, BatchShape DEF BatchLocal
    <3> QED  BY <3>1, <3>2 DEF Exhausted
  <2> DEFINE b == [batch[r] EXCEPT !.at = "next", !.item = @ + 1,
                                   !.rejected = TurnedDown(r, verdict)]
  <2>4. /\ b.list = batch[r].list /\ b.item = batch[r].item + 1 /\ b.at = "next"
        /\ b.accepted = batch[r].accepted /\ b.pending = batch[r].pending
        /\ b.rejected = TurnedDown(r, verdict)
    BY <2>2 DEF BatchLocal
  <2>5. batch' = [batch EXCEPT ![r] = b]
    BY <1>1, <1>4 DEF IndInv, TypeOK
  <2>6. TurnedDown(r, verdict) \subseteq Rejection /\ WellFormed(b)
    <3> HIDE DEF b
    <3>1. b.rejected \subseteq Rejection /\ WellFormed(b)
      BY <2>1, <2>2, <2>3, <2>4, TurnDownLocal DEF IndInv
    <3> QED  BY <2>4, <3>1
  <2>7. b \in BatchLocal
    <3>1. batch[r].item + 1 \in Nat
      BY <2>2 DEF BatchLocal
    <3> QED  BY <2>2, <2>6, <3>1 DEF BatchLocal
  <2> HIDE DEF b
  <2> QED  BY <1>2, <2>4, <2>5, <2>6, <2>7, QuietIndInv DEF InFlight
<1> QED  BY <1>3, <1>4

-----------------------------------------------------------------------------
(* A batch commits *)

\* What NodeRowHasEvidence says of the row of one node.
RowEvidence(n) ==
    /\ node[n].health = "live" => \E o \in observations : o.node = n
    /\ node[n].health = "standby" => \E h \in heartbeats : h.node = n
    /\ node[n].version # None => \E h \in heartbeats : h.node = n /\ h.version = node[n].version
    /\ node[n].seen \in Heartbeat => node[n].seen \in heartbeats /\ node[n].seen.node = n
    /\ node[n].seen \in BatchRequest =>
         \E o \in batch[node[n].seen].accepted : o.node = n /\ o \in observations

LEMMA RowsHaveEvidence == IndInv => \A n \in Node : RowEvidence(n)
BY DEF IndInv, NodeRowHasEvidence, RowEvidence

LEMMA FinishIndInv ==
    ASSUME IndInv, NEW r \in BatchRequest, Finish(r) PROVE IndInv'
<1> DEFINE acc == batch[r].accepted
           b == [batch[r] EXCEPT !.at = "answered", !.pending = {}]
<1>1. /\ observations' = observations \cup acc
      /\ rejections' = rejections \cup batch[r].rejected
      /\ node' = [n \in Node |->
                     IF n \in Touched(r)
                     THEN [node[n] EXCEPT !.health = Written(batch[r].loaded[n], "live", @),
                                          !.seen = r]
                     ELSE node[n]]
      /\ UNCHANGED <<heartbeats, beat>>
  BY DEF Finish
<1>2. /\ batch[r] \in BatchLocal /\ WellFormed(batch[r]) /\ InFlight(batch[r])
      /\ batch[r].at = "next"
  BY DEF IndInv, TypeOK, BatchesWellFormed, Finish, InFlight
<1>3. batch' = [batch EXCEPT ![r] = b]
  BY DEF Finish, IndInv, TypeOK
<1>4. /\ b.at = "answered" /\ b.list = batch[r].list /\ b.item = batch[r].item
      /\ b.accepted = acc /\ b.pending = {} /\ b.rejected = batch[r].rejected
      /\ b \in BatchLocal
  BY <1>2 DEF BatchLocal
<1>5. batch[r].item = Len(batch[r].list) + 1
  <2>1. batch[r].item \in 1..Len(batch[r].list) + 1 /\ batch[r].item > Len(batch[r].list)
    BY <1>2 DEF WellFormed, Finish, Exhausted
  <2>2. Len(batch[r].list) \in Nat
    BY <1>2, BatchShape DEF BatchLocal
  <2> QED  BY <2>1, <2>2
<1>6. Holds(r, acc)
  BY <1>2, HeldByFlush DEF Finish
<1>7. acc \subseteq Observation /\ batch[r].rejected \subseteq Rejection
  BY <1>2 DEF BatchLocal
<1>8. \A o \in acc : Rooted(o, observations \cup acc)
  BY <1>2 DEF IndInv, ChainsHeld
<1>9. Touched(r) = {o.node : o \in acc}
  BY DEF Touched
<1>10. \A n \in Node :
         /\ n \in Touched(r) =>
              /\ node'[n].health \in {"live", node[n].health}
              /\ node'[n].version = node[n].version
              /\ node'[n].seen = r
         /\ n \notin Touched(r) => node'[n] = node[n]
  BY <1>1 DEF IndInv, TypeOK, NodeRow, Written
<1>11. node' \in [Node -> NodeRow]
  BY <1>1 DEF IndInv, TypeOK, NodeRow, Written, Health
<1> HIDE DEF b, acc
<1>12. batch'[r] = b /\ \A q \in BatchRequest \ {r} : batch'[q] = batch[q]
  BY <1>3 DEF IndInv, TypeOK
<1>13. TypeOK'
  BY <1>1, <1>3, <1>4, <1>7, <1>11 DEF IndInv, TypeOK
<1>14. BatchesWellFormed'
  <2>1. WellFormed(b)
    <3>1. /\ batch[r].item \in 1..Len(batch[r].list) + 1
          /\ \A i \in 1..batch[r].item - 1 :
               \/ batch[r].list[i] \in batch[r].accepted
               \/ \E j \in batch[r].rejected : j.observation = batch[r].list[i]
      BY <1>2 DEF WellFormed
    <3>2. /\ b.item \in 1..Len(b.list) + 1
          /\ \A i \in 1..b.item - 1 :
               b.list[i] \in b.accepted \/ \E j \in b.rejected : j.observation = b.list[i]
      <4>1. b.accepted = batch[r].accepted
        BY <1>4 DEF acc
      <4> QED  BY <1>4, <3>1, <4>1
    <3> QED  BY <1>4, <3>2 DEF WellFormed
  <2>2. ASSUME NEW q \in BatchRequest \ {r} PROVE WellFormed(batch[q]) /\ Answered(batch[q])'
    BY <1>1, <1>12 DEF IndInv, BatchesWellFormed, Answered
  <2>3. /\ batch'[r].item = Len(batch'[r].list) + 1
        /\ batch'[r].accepted \subseteq observations'
        /\ batch'[r].rejected \subseteq rejections'
    BY <1>1, <1>4, <1>5, <1>12
  <2>4. Answered(batch[r])'
    BY <2>3 DEF Answered
  <2> QED  BY <1>12, <2>1, <2>2, <2>4 DEF BatchesWellFormed
<1>15. \A q \in BatchRequest : InFlight(batch[q])' =>
         q # r /\ InFlight(batch[q]) /\ FlushedBy(q)' = FlushedBy(q)
  BY <1>4, <1>12 DEF InFlight, FlushedBy
<1>16. IdsHeld'
  <2>1. ASSUME NEW q \in BatchRequest, InFlight(batch[q])', NEW o \in FlushedBy(q)',
               NEW p \in observations'
        PROVE  o.id # p.id
    <3>1. q # r /\ InFlight(batch[q]) /\ o \in FlushedBy(q)
      BY <1>15, <2>1
    <3>2. CASE p \in observations
      BY <3>1, <3>2 DEF IndInv, IdsHeld
    <3>3. CASE p \in acc
      BY <1>6, <3>1, <3>3 DEF Holds
    <3> QED  BY <1>1, <3>2, <3>3
  <2>2. ASSUME NEW q \in BatchRequest, InFlight(batch[q])', NEW o \in FlushedBy(q)',
               NEW s \in BatchRequest \ {q}, InFlight(batch[s])', NEW p \in FlushedBy(s)'
        PROVE  o.id # p.id
    <3>1. /\ InFlight(batch[q]) /\ o \in FlushedBy(q)
          /\ InFlight(batch[s]) /\ p \in FlushedBy(s)
      BY <1>15, <2>2
    <3> QED  BY <3>1 DEF IndInv, IdsHeld
  <2> QED  BY <2>1, <2>2 DEF IdsHeld
<1>17. ChainsHeld'
  <2>1. ASSUME NEW q \in BatchRequest, InFlight(batch[q])', NEW o \in batch'[q].accepted
        PROVE  Rooted(o, observations' \cup batch'[q].accepted)
    <3>1. batch'[q] = batch[q] /\ InFlight(batch[q])
      BY <1>12, <1>15, <2>1
    <3>2. Rooted(o, observations \cup batch[q].accepted)
      BY <2>1, <3>1 DEF IndInv, ChainsHeld
    <3>3. observations \cup batch[q].accepted \subseteq observations' \cup batch'[q].accepted
      BY <1>1, <3>1
    <3> QED  BY <3>2, <3>3, RootedMonotone
  <2> QED  BY <2>1 DEF ChainsHeld
<1>18. SeenByAnswered'
  BY <1>4, <1>10, <1>12 DEF IndInv, SeenByAnswered
<1>19. ChainRooted'
  <2>1. ASSUME NEW o \in observations' PROVE Rooted(o, observations')
    <3>1. CASE o \in observations
      <4>1. Rooted(o, observations)
        BY <3>1 DEF IndInv, ChainRooted, Rooted
      <4> QED  BY <1>1, <4>1, RootedMonotone
    <3>2. CASE o \in acc
      BY <1>1, <1>8, <3>2
    <3> QED  BY <1>1, <3>1, <3>2
  <2> QED  BY <2>1 DEF ChainRooted, Rooted
<1>20. AcceptedOnce'
  <2>1. ASSUME NEW q \in BatchRequest \ {r}, batch'[q].at = "answered"
        PROVE  /\ batch[q].at = "answered" /\ batch'[q].accepted = batch[q].accepted
               /\ batch[q].accepted \subseteq observations
               /\ \A o \in batch[q].accepted, p \in acc : o.id # p.id
    <3>1. batch[q].at = "answered" /\ batch'[q] = batch[q]
      BY <1>12, <2>1
    <3>2. batch[q].accepted \subseteq observations
      BY <3>1 DEF IndInv, AcceptedOnce
    <3> QED  BY <1>6, <3>1, <3>2 DEF Holds
  <2>2. batch'[r].accepted = acc /\ acc \subseteq observations'
    BY <1>1, <1>4, <1>12
  <2>3. ASSUME NEW q \in BatchRequest, batch'[q].at = "answered"
        PROVE  batch'[q].accepted \subseteq observations'
    BY <1>1, <2>1, <2>2, <2>3
  <2>4. ASSUME NEW q \in BatchRequest, batch'[q].at = "answered",
               NEW s \in BatchRequest \ {q}, batch'[s].at = "answered",
               NEW o \in batch'[q].accepted, NEW p \in batch'[s].accepted
        PROVE  o.id # p.id
    <3>1. CASE q = r
      BY <2>1, <2>2, <2>4, <3>1
    <3>2. CASE s = r
      BY <2>1, <2>2, <2>4, <3>2
    <3>3. CASE q # r /\ s # r
      BY <2>1, <2>4, <3>3 DEF IndInv, AcceptedOnce
    <3> QED  BY <3>1, <3>2, <3>3
  <2> QED  BY <2>3, <2>4 DEF AcceptedOnce
<1>21. NodeRowHasEvidence'
  <2>1. ASSUME NEW n \in Node, n \in Touched(r)
        PROVE  RowEvidence(n)'
    <3>1. PICK o \in acc : o.node = n
      BY <1>9, <2>1
    <3>2. o \in observations' /\ o \in batch'[r].accepted
      BY <1>1, <1>4, <1>12
    <3>3. /\ node'[n].health \in {"live", node[n].health}
          /\ node'[n].version = node[n].version /\ node'[n].seen = r
      BY <1>10, <2>1
    <3>4. r \notin Heartbeat
      BY NamesDiffer
    <3>5. node'[n].health = "live" => \E x \in observations' : x.node = n
      BY <3>1, <3>2
    <3>a. RowEvidence(n) /\ heartbeats' = heartbeats
      BY <1>1, RowsHaveEvidence
    <3>6. node'[n].health = "standby" => \E h \in heartbeats' : h.node = n
      BY <3>3, <3>a DEF RowEvidence
    <3>7. node'[n].version # None =>
            \E h \in heartbeats' : h.node = n /\ h.version = node'[n].version
      BY <3>3, <3>a DEF RowEvidence
    <3>8. node'[n].seen \in BatchRequest =>
            \E x \in batch'[node'[n].seen].accepted : x.node = n /\ x \in observations'
      BY <3>1, <3>2, <3>3
    <3> QED  BY <3>3, <3>4, <3>5, <3>6, <3>7, <3>8 DEF RowEvidence
  <2>2. ASSUME NEW n \in Node, n \notin Touched(r)
        PROVE  RowEvidence(n)'
    <3>1. node'[n] = node[n]
      BY <1>10, <2>2
    <3>2. node[n].seen \in BatchRequest => batch'[node[n].seen] = batch[node[n].seen]
      BY <1>2, <1>12 DEF IndInv, SeenByAnswered
    <3>3. RowEvidence(n)
      BY RowsHaveEvidence
    <3>4. node'[n].seen \in BatchRequest =>
            \E x \in batch'[node'[n].seen].accepted : x.node = n /\ x \in observations'
      BY <1>1, <3>1, <3>2, <3>3 DEF RowEvidence
    <3>5. heartbeats' = heartbeats /\ observations \subseteq observations'
      BY <1>1
    <3> QED  BY <3>1, <3>3, <3>4, <3>5 DEF RowEvidence
  <2> QED  BY <2>1, <2>2 DEF RowEvidence, NodeRowHasEvidence
<1> QED  BY <1>13, <1>14, <1>16, <1>17, <1>18, <1>19, <1>20, <1>21 DEF IndInv

-----------------------------------------------------------------------------
(* Heartbeats *)

LEMMA BeatIndInv ==
    ASSUME IndInv, UNCHANGED <<tables, batch>>, beat' \in [HeartbeatRequest -> BeatLocal]
    PROVE  IndInv'
<1>1. TypeOK'
  BY DEF IndInv, TypeOK, tables
<1>2. BatchesWellFormed' /\ SeenByAnswered' /\ AcceptedOnce'
  BY DEF IndInv, BatchesWellFormed, WellFormed, Answered, SeenByAnswered, AcceptedOnce, tables
<1>3. IdsHeld'
  BY DEF IndInv, IdsHeld, InFlight, FlushedBy, tables
<1>4. ChainsHeld' /\ ChainRooted' /\ NodeRowHasEvidence'
  BY DEF IndInv, ChainsHeld, ChainRooted, NodeRowHasEvidence, InFlight, Rooted, SameChain, tables
<1> QED  BY <1>1, <1>2, <1>3, <1>4 DEF IndInv

LEMMA LoadNodeIndInv ==
    ASSUME IndInv, NEW h \in HeartbeatRequest, NEW heartbeat \in Heartbeat,
           LoadNode(h, heartbeat)
    PROVE  IndInv'
<1>1. heartbeat.node \in Node
  BY HeartbeatShape
<1>2. beat' \in [HeartbeatRequest -> BeatLocal]
  BY <1>1 DEF LoadNode, IndInv, TypeOK, BeatLocal, NodeRow
<1> QED  BY <1>2, BeatIndInv DEF LoadNode

LEMMA CheckIndInv ==
    ASSUME IndInv, NEW h \in HeartbeatRequest, Check(h) PROVE IndInv'
<1>1. beat' \in [HeartbeatRequest -> BeatLocal]
  BY DEF Check, IndInv, TypeOK, BeatLocal
<1> QED  BY <1>1, BeatIndInv DEF Check

\* A heartbeat request past its lookup has a heartbeat.
BeatsHold ==
    \A h \in HeartbeatRequest :
      beat[h].at \in {"checking", "committing"} => beat[h].heartbeat \in Heartbeat

LEMMA BeatsHoldStep == ASSUME IndInv, BeatsHold, [Next]_vars PROVE BeatsHold'
<1>1. CASE UNCHANGED beat
  BY <1>1 DEF BeatsHold
<1>2. ASSUME NEW h \in HeartbeatRequest, NEW heartbeat \in Heartbeat, LoadNode(h, heartbeat)
      PROVE  BeatsHold'
  BY <1>2 DEF LoadNode, BeatsHold, IndInv, TypeOK
<1>3. ASSUME NEW h \in HeartbeatRequest, Check(h) PROVE BeatsHold'
  BY <1>3 DEF Check, BeatsHold, IndInv, TypeOK
<1>4. ASSUME NEW h \in HeartbeatRequest, CommitBeat(h) PROVE BeatsHold'
  <2>1. PICK at \in {"failed", "answered"} : beat' = [beat EXCEPT ![h].at = at]
    BY <1>4 DEF CommitBeat
  <2> QED  BY <2>1 DEF BeatsHold, IndInv, TypeOK
<1>5. ASSUME NEW h \in HeartbeatRequest, beat' = [beat EXCEPT ![h].at = "failed"]
      PROVE  BeatsHold'
  BY <1>5 DEF BeatsHold, IndInv, TypeOK
<1>6. CASE Next
  BY <1>1, <1>2, <1>3, <1>4, <1>5, <1>6
     DEF Next, BatchStep, BeatStep, Abandon, Begin, RejectEnvelope, RejectDuplicate, LookUp,
         Decide, Finish, FlushFails, DeadlockVictim
<1> QED  BY <1>1, <1>6 DEF vars

LEMMA CommitBeatIndInv ==
    ASSUME IndInv, BeatsHold, NEW h \in HeartbeatRequest, CommitBeat(h) PROVE IndInv'
<1> DEFINE b == beat[h].heartbeat
<1>1. /\ UNCHANGED <<observations, rejections, batch>>
      /\ beat[h].at = "committing"
  BY DEF CommitBeat
<1>2. beat[h] \in BeatLocal
  BY DEF IndInv, TypeOK
<1>3. beat' \in [HeartbeatRequest -> BeatLocal]
  BY <1>2 DEF CommitBeat, IndInv, TypeOK, BeatLocal
<1>4. CASE \E p \in heartbeats : p.id = b.id
  <2>1. UNCHANGED <<tables, batch>>
    BY <1>1, <1>4 DEF CommitBeat, tables
  <2> QED  BY <1>3, <2>1, BeatIndInv
<1>5. CASE ~ \E p \in heartbeats : p.id = b.id
  <2>1. /\ heartbeats' = heartbeats \cup {b}
        /\ node' = [node EXCEPT
                      ![b.node].health = Written(beat[h].health, "standby", @),
                      ![b.node].version = Written(beat[h].version, b.version, @),
                      ![b.node].seen = b]
    BY <1>5 DEF CommitBeat
  <2>2. b \in Heartbeat /\ b.node \in Node /\ b.version \in Version
    <3>1. b \in Heartbeat
      BY <1>1 DEF BeatsHold
    <3> QED  BY <3>1, HeartbeatShape
  <2>3. \A n \in Node :
          /\ n = b.node =>
               /\ node'[n].health \in {"standby", node[n].health}
               /\ node'[n].version \in {b.version, node[n].version}
               /\ node'[n].seen = b
          /\ n # b.node => node'[n] = node[n]
    BY <2>1, <2>2 DEF IndInv, TypeOK, NodeRow, Written
  <2>4. node' \in [Node -> NodeRow]
    BY <2>1, <2>2 DEF IndInv, TypeOK, NodeRow, Written, Health
  <2> HIDE DEF b
  <2>5. TypeOK'
    BY <1>1, <1>3, <2>1, <2>2, <2>4 DEF IndInv, TypeOK
  <2>6. BatchesWellFormed' /\ AcceptedOnce'
    BY <1>1 DEF IndInv, BatchesWellFormed, WellFormed, Answered, AcceptedOnce
  <2>7. IdsHeld'
    BY <1>1 DEF IndInv, IdsHeld, InFlight, FlushedBy
  <2>8. ChainsHeld' /\ ChainRooted'
    BY <1>1 DEF IndInv, ChainsHeld, ChainRooted, InFlight, Rooted, SameChain
  <2>9. b \notin BatchRequest
    BY <2>2, NamesDiffer
  <2>10. SeenByAnswered'
    BY <1>1, <2>2, <2>3, <2>9 DEF IndInv, SeenByAnswered
  <2>11. heartbeats \subseteq heartbeats' /\ b \in heartbeats'
    BY <2>1
  <2>12. ASSUME NEW n \in Node, n = b.node PROVE RowEvidence(n)'
    <3>1. /\ node'[n].health \in {"standby", node[n].health}
          /\ node'[n].version \in {b.version, node[n].version}
          /\ node'[n].seen = b
      BY <2>3, <2>12
    <3>2. RowEvidence(n) /\ observations' = observations
      BY <1>1, RowsHaveEvidence
    <3>3. node'[n].health = "live" => \E o \in observations' : o.node = n
      BY <3>1, <3>2 DEF RowEvidence
    <3>4. node'[n].health = "standby" => \E x \in heartbeats' : x.node = n
      BY <2>11, <2>12
    <3>5. node'[n].version # None =>
            \E x \in heartbeats' : x.node = n /\ x.version = node'[n].version
      BY <2>11, <2>12, <3>1, <3>2 DEF RowEvidence
    <3> QED  BY <2>9, <2>11, <2>12, <3>1, <3>3, <3>4, <3>5 DEF RowEvidence
  <2>13. ASSUME NEW n \in Node, n # b.node PROVE RowEvidence(n)'
    <3>1. node'[n] = node[n] /\ observations' = observations /\ batch' = batch
      BY <1>1, <2>3, <2>13
    <3>2. RowEvidence(n)
      BY RowsHaveEvidence
    <3> QED  BY <2>11, <3>1, <3>2 DEF RowEvidence
  <2>14. NodeRowHasEvidence'
    BY <2>12, <2>13 DEF RowEvidence, NodeRowHasEvidence
  <2> QED  BY <2>5, <2>6, <2>7, <2>8, <2>10, <2>14 DEF IndInv
<1> QED  BY <1>4, <1>5

-----------------------------------------------------------------------------
(* Every step *)

LEMMA NextIndInv == ASSUME IndInv, BeatsHold, [Next]_vars PROVE IndInv'
<1>1. ASSUME NEW r \in BatchRequest, NEW list \in Batch, Begin(r, list) PROVE IndInv'
  BY <1>1, BeginIndInv
<1>2. ASSUME NEW r \in BatchRequest, BatchStep(r) PROVE IndInv'
  <2>1. CASE RejectEnvelope(r)
    BY <2>1, RejectEnvelopeIndInv
  <2>2. CASE RejectDuplicate(r)
    BY <2>2, RejectDuplicateIndInv
  <2>3. CASE LookUp(r)
    BY <2>3, LookUpIndInv
  <2>4. CASE Decide(r)
    BY <2>4, DecideIndInv
  <2>5. CASE Finish(r)
    BY <2>5, FinishIndInv
  <2>6. CASE FlushFails(r)
    <3>1. /\ InFlight(batch[r]) /\ batch' = [batch EXCEPT ![r].at = "failed"]
          /\ UNCHANGED <<tables, beat>>
      BY <2>6 DEF FlushFails, LookingUp, InFlight
    <3> QED  BY <3>1, FailIndInv
  <2>7. CASE DeadlockVictim(r)
    BY <2>7, FailIndInv DEF DeadlockVictim
  <2> QED  BY <1>2, <2>1, <2>2, <2>3, <2>4, <2>5, <2>6, <2>7 DEF BatchStep
<1>3. ASSUME NEW h \in HeartbeatRequest, NEW heartbeat \in Heartbeat, LoadNode(h, heartbeat)
      PROVE  IndInv'
  BY <1>3, LoadNodeIndInv
<1>4. ASSUME NEW h \in HeartbeatRequest, BeatStep(h) PROVE IndInv'
  BY <1>4, CheckIndInv, CommitBeatIndInv DEF BeatStep
<1>5. CASE Abandon
  <2>1. ASSUME NEW r \in BatchRequest, InFlight(batch[r]),
               batch' = [batch EXCEPT ![r].at = "failed"], UNCHANGED <<tables, beat>>
        PROVE  IndInv'
    BY <2>1, FailIndInv
  <2>2. ASSUME NEW h \in HeartbeatRequest, beat' = [beat EXCEPT ![h].at = "failed"],
               UNCHANGED <<tables, batch>>
        PROVE  IndInv'
    <3>1. beat' \in [HeartbeatRequest -> BeatLocal]
      BY <2>2 DEF IndInv, TypeOK, BeatLocal
    <3> QED  BY <2>2, <3>1, BeatIndInv
  <2> QED  BY <1>5, <2>1, <2>2 DEF Abandon
<1>6. CASE UNCHANGED vars
  <2>1. beat' \in [HeartbeatRequest -> BeatLocal] /\ UNCHANGED <<tables, batch>>
    BY <1>6 DEF vars, tables, IndInv, TypeOK
  <2> QED  BY <2>1, BeatIndInv
<1> QED  BY <1>1, <1>2, <1>3, <1>4, <1>5, <1>6 DEF Next

-----------------------------------------------------------------------------
(* What holds in every reachable state *)

THEOREM Inductive == Spec => [](IndInv /\ BeatsHold)
<1>1. Init => IndInv /\ BeatsHold
  BY InitIndInv DEF Init, BeatsHold
<1>2. IndInv /\ BeatsHold /\ [Next]_vars => (IndInv /\ BeatsHold)'
  BY NextIndInv, BeatsHoldStep
<1> QED  BY <1>1, <1>2, PTL DEF Spec

\* TypeOK holds throughout: rows, requests and node rows keep their shape, also where a
\* flush has to write a row it loaded long ago.
THEOREM TypeCorrect == Spec => []TypeOK
<1>1. IndInv => TypeOK
  BY DEF IndInv
<1> QED  BY <1>1, Inductive, PTL

\* AcceptedOnce: however often a node repeats a batch and however the requests overlap,
\* at most one answer accepts an observation id, and what it accepts is stored.
THEOREM AcceptedAtMostOnce == Spec => []AcceptedOnce
<1>1. IndInv => AcceptedOnce
  BY DEF IndInv
<1> QED  BY <1>1, Inductive, PTL

\* ChainRooted: whatever a chain has become under concurrent batches, its first
\* observation is in it, and a second one carries the digest of a first one.
THEOREM ChainsRooted == Spec => []ChainRooted
<1>1. IndInv => ChainRooted
  BY DEF IndInv
<1> QED  BY <1>1, Inductive, PTL

\* NodeRowHasEvidence: no interleaving of batches and heartbeats leaves a node row that
\* the stored observations and heartbeats do not carry.
THEOREM NodeRowsHaveEvidence == Spec => []NodeRowHasEvidence
<1>1. IndInv => NodeRowHasEvidence
  BY DEF IndInv
<1> QED  BY <1>1, Inductive, PTL

\* NothingLost: each observation of an answered batch is stored or its rejection is.
THEOREM NothingIsLost == Spec => []NothingLost
<1>1. IndInv => NothingLost
  <2> SUFFICES ASSUME IndInv, NEW r \in BatchRequest, batch[r].at = "answered",
                      NEW i \in DOMAIN batch[r].list
               PROVE  \/ batch[r].list[i] \in observations
                      \/ \E j \in rejections : j.observation = batch[r].list[i]
    BY DEF NothingLost
  <2>1. WellFormed(batch[r]) /\ Answered(batch[r]) /\ batch[r] \in BatchLocal
    BY DEF IndInv, TypeOK, BatchesWellFormed
  <2>2. batch[r].list \in Seq(Observation)
    <3>1. <<>> \in Seq(Observation)
      OBVIOUS
    <3> QED  BY <2>1, <3>1, BatchShape DEF BatchLocal
  <2>3. i \in 1..batch[r].item - 1
    BY <2>1, <2>2 DEF Answered
  <2>4. \/ batch[r].list[i] \in batch[r].accepted
        \/ \E j \in batch[r].rejected : j.observation = batch[r].list[i]
    BY <2>1, <2>3 DEF WellFormed
  <2> QED  BY <2>1, <2>4 DEF Answered
<1> QED  BY <1>1, Inductive, PTL

-----------------------------------------------------------------------------
(* Requests that do not overlap *)

\* ChainIntact, of any set of rows.
Intact(rows) ==
    \A o, p \in rows :
      o.node = p.node /\ o.target = p.target =>
        /\ o.sequence = p.sequence => o = p
        /\ o.sequence = p.sequence + 1 => o.previous = p.digest

\* What a request in flight has accepted will leave every chain intact when it commits.
KeepsIntact ==
    \A r \in BatchRequest : InFlight(batch[r]) => Intact(observations \cup batch[r].accepted)

SerialInv == IndInv /\ BeatsHold /\ OneInFlight /\ KeepsIntact /\ ChainIntact

\* What the chain check accepts among intact rows leaves them intact: it comes after the
\* last of its chain, and links to it when it is the next one.
LEMMA AcceptedIntact ==
    ASSUME NEW rows \in SUBSET Observation, NEW o \in Observation,
           Intact(rows), "accepted" \in Verdict(o, rows)
    PROVE  Intact(rows \cup {o})
<1>1. \A p \in Observation : p.sequence \in Int
  BY ObservationShape
<1>2. \A p \in rows : p.node = o.node /\ p.target = o.target =>
        /\ p.sequence < o.sequence
        /\ o.sequence = p.sequence + 1 => o.previous = p.digest
  <2>1. CASE SameChain(o, rows) = {}
    BY <2>1 DEF SameChain
  <2>2. CASE SameChain(o, rows) # {}
    <3>1. PICK last \in Latest(o, rows) : ~(o.sequence <= last.sequence) /\ ~LinkFault(o, last)
      <4> DEFINE verdict(l) ==
                   CASE o.sequence <= l.sequence -> "non_monotonic_sequence"
                     [] LinkFault(o, l) -> "previous_hash_mismatch"
                     [] OTHER -> IF o.fault = "seal" THEN "seal" ELSE "accepted"
      <4>1. PICK l \in Latest(o, rows) : verdict(l) = "accepted"
        BY <2>2 DEF Verdict
      <4> QED  BY <4>1
    <3>2. last \in rows /\ last.node = o.node /\ last.target = o.target
      BY <3>1 DEF Latest, SameChain
    <3>3. last.sequence \in Int /\ o.sequence \in Int
      BY <1>1, <3>2
    <3>4. ASSUME NEW p \in rows, p.node = o.node, p.target = o.target
          PROVE  /\ p.sequence < o.sequence
                 /\ o.sequence = p.sequence + 1 => o.previous = p.digest
      <4>1. p.sequence <= last.sequence /\ p.sequence \in Int
        BY <1>1, <3>1, <3>4 DEF Latest, SameChain
      <4>2. p.sequence = last.sequence => p = last
        BY <3>2, <3>4 DEF Intact
      <4> QED  BY <3>1, <3>3, <4>1, <4>2 DEF LinkFault
    <3> QED  BY <3>4
  <2> QED  BY <2>1, <2>2
<1>3. ASSUME NEW p \in rows \cup {o}, NEW q \in rows \cup {o},
             p.node = q.node, p.target = q.target
      PROVE  /\ p.sequence = q.sequence => p = q
             /\ p.sequence = q.sequence + 1 => p.previous = q.digest
  <2>1. p.sequence \in Int /\ q.sequence \in Int
    BY <1>1
  <2>2. CASE p \in rows /\ q \in rows
    BY <1>3, <2>2 DEF Intact
  <2>3. CASE p \in rows /\ q = o
    BY <1>2, <1>3, <2>1, <2>3
  <2>4. CASE p = o /\ q \in rows
    BY <1>2, <1>3, <2>1, <2>4
  <2>5. CASE p = o /\ q = o
    BY <2>1, <2>5
  <2> QED  BY <2>2, <2>3, <2>4, <2>5
<1> QED  BY <1>3 DEF Intact

\* A step that commits no observation, and after which the requests in flight are among
\* those before it, with what they had accepted.
LEMMA QuietIntact ==
    ASSUME KeepsIntact, ChainIntact, observations' = observations,
           \A r \in BatchRequest : InFlight(batch'[r]) =>
             InFlight(batch[r]) /\ batch'[r].accepted = batch[r].accepted
    PROVE  KeepsIntact' /\ ChainIntact'
<1>1. KeepsIntact'
  BY DEF KeepsIntact, Intact, InFlight
<1>2. ChainIntact'
  BY DEF ChainIntact
<1> QED  BY <1>1, <1>2

LEMMA SerialDecide ==
    ASSUME SerialInv, NEW r \in BatchRequest, Decide(r)
    PROVE  KeepsIntact' /\ ChainIntact'
<1>1. /\ batch[r] \in BatchLocal /\ WellFormed(batch[r]) /\ observations \subseteq Observation
      /\ batch[r].at = "deciding"
  BY DEF SerialInv, IndInv, TypeOK, BatchesWellFormed, Decide
<1>2. Item(r) \in Observation
  <2>1. batch[r].list \in Seq(Observation) /\ batch[r].item \in Nat
    <3>1. <<>> \in Seq(Observation)
      OBVIOUS
    <3> QED  BY <1>1, <3>1, BatchShape DEF BatchLocal
  <2>2. ~Exhausted(r)
    BY <1>1, <2>1 DEF WellFormed, Exhausted
  <2> QED  BY <1>1, <2>2, ItemType DEF SerialInv, IndInv
<1>3. Visible(r) = observations \cup batch[r].accepted
  BY <1>1 DEF Visible, FlushedBy, WellFormed
<1>4. Intact(Visible(r)) /\ Visible(r) \in SUBSET Observation
  BY <1>1, <1>3 DEF SerialInv, KeepsIntact, InFlight, BatchLocal
<1>5. PICK verdict \in Verdict(Item(r), Visible(r)) :
        batch' =
          IF verdict = "accepted"
          THEN [batch EXCEPT ![r].at = "next", ![r].item = @ + 1,
                             ![r].accepted = @ \cup {Item(r)}, ![r].pending = {Item(r)}]
          ELSE [batch EXCEPT ![r].at = "next", ![r].item = @ + 1,
                             ![r].rejected = TurnedDown(r, verdict)]
  BY DEF Decide
<1>6. batch \in [BatchRequest -> BatchLocal] /\ observations' = observations
  BY DEF SerialInv, IndInv, TypeOK, Decide, tables
<1>7. \A q \in BatchRequest \ {r} : batch'[q] = batch[q]
  BY <1>5, <1>6
<1>8. CASE verdict = "accepted"
  <2>1. batch'[r].accepted = batch[r].accepted \cup {Item(r)}
    BY <1>1, <1>5, <1>6, <1>8 DEF BatchLocal
  <2>2. Intact(Visible(r) \cup {Item(r)})
    BY <1>2, <1>4, <1>5, <1>8, AcceptedIntact
  <2>3. observations' \cup batch'[r].accepted = Visible(r) \cup {Item(r)}
    BY <1>3, <1>6, <2>1
  <2>4. ASSUME NEW q \in BatchRequest, InFlight(batch'[q])
        PROVE  Intact(observations' \cup batch'[q].accepted)
    <3>1. CASE q = r
      BY <2>2, <2>3, <3>1
    <3>2. CASE q # r
      BY <1>6, <1>7, <2>4, <3>2 DEF SerialInv, KeepsIntact
    <3> QED  BY <3>1, <3>2
  <2>5. KeepsIntact'
    BY <2>4 DEF KeepsIntact, Intact, InFlight
  <2> QED  BY <1>6, <2>5 DEF SerialInv, ChainIntact
<1>9. CASE verdict # "accepted"
  <2>1. batch'[r].accepted = batch[r].accepted
    BY <1>1, <1>5, <1>6, <1>9 DEF BatchLocal
  <2>2. InFlight(batch[r])
    BY <1>1 DEF InFlight
  <2> QED  BY <1>6, <1>7, <2>1, <2>2, QuietIntact DEF SerialInv
<1> QED  BY <1>8, <1>9

\* The commit: no other request is in flight that has read the chains without it.
LEMMA SerialFinish ==
    ASSUME SerialInv, NEW r \in BatchRequest, Finish(r)
    PROVE  KeepsIntact' /\ ChainIntact'
<1>1. batch \in [BatchRequest -> BatchLocal] /\ InFlight(batch[r])
  BY DEF SerialInv, IndInv, TypeOK, Finish, InFlight
<1>2. /\ batch'[r].at = "answered"
      /\ \A q \in BatchRequest \ {r} : batch'[q] = batch[q]
      /\ observations' = observations \cup batch[r].accepted
  BY <1>1 DEF Finish, BatchLocal
<1>3. \A q \in BatchRequest : ~InFlight(batch'[q])
  BY <1>1, <1>2 DEF SerialInv, OneInFlight, InFlight
<1>4. KeepsIntact'
  BY <1>3 DEF KeepsIntact, InFlight
<1>5. Intact(observations')
  BY <1>1, <1>2 DEF SerialInv, KeepsIntact
<1> QED  BY <1>4, <1>5 DEF ChainIntact, Intact

LEMMA SerialBegin ==
    ASSUME SerialInv, NEW r \in BatchRequest, NEW list \in Batch, Begin(r, list)
    PROVE  KeepsIntact' /\ ChainIntact'
<1>1. batch \in [BatchRequest -> BatchLocal] /\ observations' = observations
  BY DEF SerialInv, IndInv, TypeOK, Begin, tables
<1>2. batch[r].accepted = {}
  BY DEF SerialInv, IndInv, BatchesWellFormed, WellFormed, Begin
<1>3. /\ batch'[r].accepted = {}
      /\ \A q \in BatchRequest \ {r} : batch'[q] = batch[q]
  BY <1>1, <1>2 DEF Begin, BatchLocal
<1>4. ASSUME NEW q \in BatchRequest, InFlight(batch'[q])
      PROVE  Intact(observations' \cup batch'[q].accepted)
  <2>1. CASE q = r
    BY <1>1, <1>3, <2>1 DEF SerialInv, ChainIntact, Intact
  <2>2. CASE q # r
    BY <1>1, <1>3, <1>4, <2>2 DEF SerialInv, KeepsIntact
  <2> QED  BY <2>1, <2>2
<1>5. KeepsIntact'
  BY <1>4 DEF KeepsIntact, Intact, InFlight
<1> QED  BY <1>1, <1>5 DEF SerialInv, ChainIntact

\* The steps of a batch that neither begin it, nor decide, nor commit.
LEMMA OtherFrame ==
    ASSUME TypeOK, NEW r \in BatchRequest,
           \/ RejectEnvelope(r) \/ RejectDuplicate(r) \/ LookUp(r) \/ FlushFails(r)
           \/ DeadlockVictim(r)
           \/ /\ InFlight(batch[r])
              /\ batch' = [batch EXCEPT ![r].at = "failed"] /\ UNCHANGED <<tables, beat>>
    PROVE  /\ InFlight(batch[r]) /\ observations' = observations
           /\ \A q \in BatchRequest \ {r} : batch'[q] = batch[q]
           /\ batch'[r].accepted = batch[r].accepted
<1>1. batch \in [BatchRequest -> BatchLocal] /\ batch[r] \in BatchLocal
  BY DEF TypeOK
<1>2. InFlight(batch[r])
  BY DEF RejectEnvelope, RejectDuplicate, LookUp, LookingUp, FlushFails, DeadlockVictim, InFlight
<1>3. observations' = observations
  BY DEF RejectEnvelope, RejectDuplicate, LookUp, FlushFails, DeadlockVictim, tables
<1>4. \A q \in BatchRequest \ {r} : batch'[q] = batch[q]
  <2>1. CASE LookUp(r)
    BY <1>1, <2>1 DEF LookUp
  <2>2. CASE ~LookUp(r)
    BY <1>1, <2>2 DEF RejectEnvelope, RejectDuplicate, FlushFails, DeadlockVictim
  <2> QED  BY <2>1, <2>2
<1>5. batch'[r].accepted = batch[r].accepted
  <2>1. CASE LookUp(r)
    <3> DEFINE n == Item(r).node
               identity(health) == [batch[r] EXCEPT !.pending = {}, !.item = @ + 1,
                                                    !.rejected = TurnedDown(r, "identity"),
                                                    !.loaded[n] = health]
               deciding(health) == [batch[r] EXCEPT !.pending = {}, !.at = "deciding",
                                                    !.loaded[n] = health]
    <3>1. PICK health : batch'[r] = identity(health) \/ batch'[r] = deciding(health)
      <4>1. PICK health \in Loaded(r, n) :
              batch' =
                IF Item(r).fault = "identity"
                THEN [batch EXCEPT ![r].pending = {}, ![r].item = @ + 1,
                                   ![r].rejected = TurnedDown(r, "identity"),
                                   ![r].loaded[n] = health]
                ELSE [batch EXCEPT ![r].pending = {}, ![r].at = "deciding",
                                   ![r].loaded[n] = health]
        BY <2>1 DEF LookUp
      <4>2. CASE Item(r).fault = "identity"
        <5>1. batch' = [batch EXCEPT ![r] = identity(health)]
          BY <1>1, <4>1, <4>2
        <5> QED  BY <1>1, <5>1
      <4>3. CASE Item(r).fault # "identity"
        <5>1. batch' = [batch EXCEPT ![r] = deciding(health)]
          BY <1>1, <4>1, <4>3
        <5> QED  BY <1>1, <5>1
      <4> QED  BY <4>2, <4>3
    <3>2. /\ identity(health).accepted = batch[r].accepted
          /\ deciding(health).accepted = batch[r].accepted
      BY <1>1 DEF BatchLocal
    <3> QED  BY <3>1, <3>2
  <2>2. CASE ~LookUp(r)
    BY <1>1, <2>2 DEF RejectEnvelope, RejectDuplicate, FlushFails, DeadlockVictim, BatchLocal
  <2> QED  BY <2>1, <2>2
<1> QED  BY <1>2, <1>3, <1>4, <1>5

LEMMA SerialOther ==
    ASSUME SerialInv, NEW r \in BatchRequest,
           \/ RejectEnvelope(r) \/ RejectDuplicate(r) \/ LookUp(r) \/ FlushFails(r)
           \/ DeadlockVictim(r)
           \/ /\ InFlight(batch[r])
              /\ batch' = [batch EXCEPT ![r].at = "failed"] /\ UNCHANGED <<tables, beat>>
    PROVE  KeepsIntact' /\ ChainIntact'
BY OtherFrame, QuietIntact DEF SerialInv, IndInv

LEMMA SerialNextInv == SerialInv /\ [SerialNext]_vars => SerialInv'
<1> SUFFICES ASSUME SerialInv, [SerialNext]_vars PROVE SerialInv'
  OBVIOUS
<1>1. IndInv' /\ BeatsHold'
  BY NextIndInv, BeatsHoldStep DEF SerialInv, SerialNext
<1>2. OneInFlight'
  BY DEF SerialInv, SerialNext, vars, OneInFlight, InFlight
<1>3. KeepsIntact' /\ ChainIntact'
  <2>1. CASE \E r \in BatchRequest : (\E list \in Batch : Begin(r, list)) \/ BatchStep(r)
    BY <2>1, SerialBegin, SerialDecide, SerialFinish, SerialOther DEF BatchStep
  <2>2. CASE \E h \in HeartbeatRequest :
               (\E heartbeat \in Heartbeat : LoadNode(h, heartbeat)) \/ BeatStep(h)
    <3>1. batch' = batch /\ observations' = observations
      BY <2>2 DEF LoadNode, BeatStep, Check, CommitBeat, tables
    <3> QED  BY <3>1, QuietIntact DEF SerialInv
  <2>3. CASE Abandon
    <3>1. CASE batch' = batch /\ observations' = observations
      BY <3>1, QuietIntact DEF SerialInv
    <3>2. CASE ~(batch' = batch /\ observations' = observations)
      BY <2>3, <3>2, SerialOther DEF Abandon, tables
    <3> QED  BY <3>1, <3>2
  <2>4. CASE UNCHANGED vars
    BY <2>4, QuietIntact DEF SerialInv, vars
  <2> QED  BY <2>1, <2>2, <2>3, <2>4 DEF SerialNext, Next
<1> QED  BY <1>1, <1>2, <1>3 DEF SerialInv

\* ChainIntact: when no request begins before the one before it has ended, no chain ever
\* has a sequence number twice or a broken link, whatever the batches carry and whichever
\* requests fail or die.
THEOREM SerialChainsIntact == SerialSpec => []ChainIntact
<1>1. Init => SerialInv
  <2> SUFFICES ASSUME Init PROVE SerialInv
    OBVIOUS
  <2>1. IndInv /\ BeatsHold
    BY InitIndInv DEF Init, BeatsHold
  <2>2. \A r \in BatchRequest : ~InFlight(batch[r])
    BY DEF Init, InFlight
  <2>3. \A h \in HeartbeatRequest : ~InFlight(beat[h])
    BY DEF Init, InFlight
  <2>4. OneInFlight
    BY <2>2, <2>3 DEF OneInFlight
  <2>5. KeepsIntact /\ ChainIntact
    BY <2>2 DEF KeepsIntact, ChainIntact, Init
  <2> QED  BY <2>1, <2>4, <2>5 DEF SerialInv
<1>2. SerialInv => ChainIntact
  BY DEF SerialInv
<1> QED  BY <1>1, <1>2, SerialNextInv, PTL DEF SerialSpec

=============================================================================
